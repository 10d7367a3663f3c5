----------------------------- MODULE StructPrograms -----------------------------
(***************************************************************************)
(* Programs for StructConsolidator: a function f with a struct that was    *)
(* split, its callers, and wrappers with specifications.                   *)
(***************************************************************************)
EXTENDS Integers, SequencesExt, TLC

In(op, def, args) ==
  [op |-> op, def |-> def, t |-> <<>>, args |-> args, off |-> 0, len |-> 0, fn |-> "", struct |-> FALSE]
Struct(v, t) == [In("alloca", v, <<>>) EXCEPT !.t = t, !.struct = TRUE]
Cell(v, t) == [In("alloca", v, <<>>) EXCEPT !.t = t]
Gep(v, p, off) == [In("gep", v, <<p>>) EXCEPT !.off = off]
Store(v, p) == In("store", "", <<v, p>>)
Load(v, p, t) == [In("load", v, <<p>>) EXCEPT !.t = t]
Copy(d, s, n) == [In("memcpy", "", <<d, s>>) EXCEPT !.len = n]
Look(v) == In("look", "", <<v>>)
Call(v, fn, args) == [In("call", v, args) EXCEPT !.fn = fn, !.t = <<"i64">>]
Return(v) == In("ret", "", <<v>>)

Param(v, t) == [name |-> v, t |-> t, byval |-> FALSE]
Fn(params, body) == [params |-> params, body |-> body, eligible |-> TRUE, wrapper |-> FALSE, taken |-> "no"]
Wrapper(f) == [f EXCEPT !.wrapper = TRUE]
Program(fs, order) == [functions |-> fs, order |-> order, specs |-> <<>>]
Spec(kind, w, ops) == [kind |-> kind, wrapper |-> w, loc |-> TRUE, ops |-> ops]

\* A split is a struct and its pieces: the type each is passed as and where it begins.
Piece(t, off) == [t |-> t, off |-> off]
Whole == [t |-> <<"i32", "i32">>, pieces |-> <<Piece("i64", 0)>>]
Halves == [t |-> <<"i64", "i64">>, pieces |-> <<Piece("i64", 0), Piece("i64", 8)>>]
Mixed == [t |-> <<"i32", "i32", "f64">>, pieces |-> <<Piece("i64", 0), Piece("f64", 8)>>]
Floats == [t |-> <<"f64", "i32">>, pieces |-> <<Piece("i64", 0), Piece("i32", 8)>>]
Bytes3 == [t |-> <<"i8", "i8", "i16">>, pieces |-> <<Piece("i8", 0), Piece("i8", 1), Piece("i16", 2)>>]
Splits == {Whole, Halves, Mixed, Floats, Bytes3}

No(v, k) == v \o ToString(k)
OffsetOf(t, k) ==
  LET size == "i8" :> 1 @@ "i16" :> 2 @@ "i32" :> 4 @@ "i64" :> 8 @@ "f64" :> 8
      sum[j \in 1 .. Len(t)] == IF j = 1 THEN 0 ELSE sum[j - 1] + size[t[j - 1]]
  IN  sum[k]

\* The pieces a.1, a.2, ... stored into the struct s, in an order.
Params(a, split) == [k \in DOMAIN split.pieces |-> Param(No(a, k), <<split.pieces[k].t>>)]
Stores(a, s, split, order) ==
  <<Struct(s, split.t)>>
  \o FlattenSeq([j \in DOMAIN order |->
       LET k == order[j] IN <<Gep(No(s \o a, k), s, split.pieces[k].off), Store(No(a, k), No(s \o a, k))>>])
Up(split) == [k \in DOMAIN split.pieces |-> k]
Down(split) == Reverse(Up(split))

\* Every field of s is loaded and looked at.
Fields(s, t) ==
  FlattenSeq([k \in DOMAIN t |->
    <<Gep(No(s \o "p", k), s, OffsetOf(t, k)), Load(No(s \o "v", k), No(s \o "p", k), <<t[k]>>), Look(No(s \o "v", k))>>])

Callee(split, order) == Fn(Params("a", split), Stores("a", "s", split, order) \o Fields("s", split.t))

\* The pieces loaded from the struct c, and the call.
Pass(c, split, call, fn) ==
  FlattenSeq([k \in DOMAIN split.pieces |->
    <<Gep(No(call \o "q", k), c, split.pieces[k].off), Load(No(call \o "l", k), No(call \o "q", k), <<split.pieces[k].t>>)>>])
  \o <<Call(call, fn, [k \in DOMAIN split.pieces |-> No(call \o "l", k)])>>

\* A caller that fills a struct field by field from its own parameters.
FieldWise(t) == [t |-> t, pieces |-> [k \in DOMAIN t |-> Piece(t[k], OffsetOf(t, k))]]
Caller(split, rest) ==
  Fn(Params("b", FieldWise(split.t)),
     Stores("b", "c", FieldWise(split.t), Up(FieldWise(split.t))) \o Pass("c", split, "r", "f") \o rest)
\* One whose fields are not its own parameters: it stays as it is.
Reader(split, rest) ==
  Fn(<<Param("n", <<"i64">>)>>,
     <<Struct("c", split.t), Cell("m", <<"i64">>), Store("n", "m")>>
     \o FlattenSeq([k \in DOMAIN split.t |->
          <<Load(No("x", k), "m", <<split.t[k]>>), Gep(No("y", k), "c", OffsetOf(split.t, k)), Store(No("x", k), No("y", k))>>])
     \o Pass("c", split, "r", "f") \o rest)

Two(f, g) == Program("f" :> f @@ "g" :> g, <<"f", "g">>)
Three(f, g, h) == Program("f" :> f @@ "g" :> g @@ "h" :> h, <<"g", "h", "f">>)
WithCalls(f, split) == Two(f, Reader(split, <<>>))
Then(f, is) == [f EXCEPT !.body = @ \o is]
More(f, p) == [f EXCEPT !.params = Append(@, p)]
LessLast(f) == [f EXCEPT !.body = SubSeq(@, 1, 1) \o SubSeq(@, 4, Len(@))]

--------------------------------------------------------------------------------
(* Programs that are consolidated, or left alone, or refused.                  *)

\* Split in any way and stored in either order, called from nowhere, by a function that
\* is itself consolidated, by one that is not, and twice.
Plain ==
  UNION {UNION {LET f == Callee(s, o)
                IN  {Program("f" :> f, <<"f">>), Two(f, Caller(s, <<>>)), WithCalls(f, s),
                     Two(Then(f, <<Return("sv1")>>), Reader(s, Pass("c", s, "r2", "f") \o <<Look("r2")>>))}
                : o \in {Up(s), Down(s)}} : s \in Splits}

\* g hands on to f what h has given it.
Handed ==
  {Three(Callee(s, Up(s)),
         Fn(Params("b", s), Stores("b", "c", s, Up(s)) \o Pass("c", s, "r", "f") \o Fields("c", s.t)),
         Fn(<<Param("n", <<"i64">>)>>,
            <<Cell("m", <<"i64">>), Store("n", "m"), Struct("d", s.t)>>
            \o FlattenSeq([k \in DOMAIN s.t |->
                 <<Load(No("x", k), "m", <<s.t[k]>>), Gep(No("y", k), "d", OffsetOf(s.t, k)), Store(No("x", k), No("y", k))>>])
            \o Pass("d", s, "z", "g"))) : s \in Splits}

LeftAlone ==
  {WithCalls([Callee(Halves, Up(Halves)) EXCEPT !.eligible = FALSE], Halves),
   WithCalls([Callee(Halves, Up(Halves)) EXCEPT !.taken = "called"], Halves),
   WithCalls(LessLast(Callee(Halves, Up(Halves))), Halves),
   WithCalls(Then(Callee(Halves, Up(Halves)), <<Call("e", "f2", <<"s">>)>>), Halves),
   WithCalls(Then(Callee(Halves, Up(Halves)), <<[Gep("e", "s", 0) EXCEPT !.off = -1]>>), Halves),
   WithCalls(Then(Callee(Halves, Up(Halves)), <<Struct("d", Halves.t), Copy("s", "d", 16), Copy("d", "s", 16)>>), Halves),
   \* the caller has one of the pieces from elsewhere
   Two(Callee(Whole, <<1>>), Fn(<<Param("n", <<"i64">>)>>, <<Call("r", "f", <<"n">>)>>)),
   Two(Callee(Whole, <<1>>), Fn(<<Param("n", <<"i64">>)>>, <<Cell("m", <<"i64">>), Store("n", "m"), Load("l", "m", <<"i64">>), Call("r", "f", <<"l">>)>>)),
   \* a parameter that is no piece
   Two(More(Callee(Whole, <<1>>), Param("n", <<"i64">>)),
       Fn(<<Param("n2", <<"i64">>)>>, <<Struct("c", Whole.t), Load("l", "c", <<"i64">>), Call("r", "f", <<"l", "n2">>)>>))}

\* A field that comes from a cell of its type, read as an integer: the cell is read again.
ByCell ==
  {Two(Callee(Floats, Up(Floats)),
       Fn(<<Param("n", <<"f64">>), Param("i", <<"i32">>)>>,
          <<Cell("m", <<"f64">>), Store("n", "m"), Load("l", "m", <<"i64">>), Call("r", "f", <<"l", "i">>)>>))}

Refused ==
  {WithCalls(Then(Callee(Halves, Up(Halves)), <<In("other", "", <<"s">>)>>), Halves),
   WithCalls([Callee(Halves, Up(Halves)) EXCEPT !.taken = "stored"], Halves),
   Program("f" :> [Callee(Halves, Up(Halves)) EXCEPT !.taken = "stored"], <<"f">>),
   \* assertions: pieces beside the fields, an argument twice, a struct of a pointer, the
   \* address of a struct
   WithCalls(Fn(<<Param("a1", <<"i64">>), Param("a2", <<"i64">>)>>,
                Stores("a", "s", [t |-> <<"i32", "i64", "i32">>, pieces |-> <<Piece("i64", 0), Piece("i64", 8)>>], <<1, 2>>)),
             [t |-> <<"i32", "i64", "i32">>, pieces |-> <<Piece("i64", 0), Piece("i64", 8)>>]),
   Program("f" :> Then(Callee(Halves, Up(Halves)), <<Store("a1", "s")>>), <<"f">>),
   Program("f" :> Fn(<<Param("a", <<"ptr">>)>>, <<Struct("s", <<"ptr">>), Store("a", "s")>>), <<"f">>),
   Two(Callee(Whole, <<1>>), Fn(<<>>, <<Struct("c", Whole.t), Call("r", "f", <<"c">>)>>))}

\* Wrappers: a struct of one piece, beside a parameter that is none.
N == Param("n", <<"i64">>)
First == Wrapper(More(Then(Callee(Whole, <<1>>), <<Look("s"), Look("n")>>), N))
Second == Wrapper([Then(Callee(Whole, <<1>>), <<Look("n")>>) EXCEPT !.params = <<N>> \o @])
Stating(w, specs) == [Program("f" :> w, <<"f">>) EXCEPT !.specs = specs]
Specified ==
  {Stating(First, <<Spec(k, "f", <<"x", "y">>), Spec("assert", "f", <<"x", "x">>)>>) :
     k \in {"assert", "assume", "fold", "unfold", "loop"}}
  \cup {Stating(Second, <<Spec(k, "f", <<"x", "y">>)>>) : k \in {"assert", "loop", "requires"}}
  \cup {Stating(Second, <<[Spec("assert", "f", <<"x", "y">>) EXCEPT !.loc = FALSE]>>),
        Stating(First, <<Spec("assert", "f", <<"x">>)>>), Stating(First, <<Spec("assert", "f", <<"x", "y", "y">>)>>)}

StructPrograms == Plain \cup Handed \cup ByCell \cup LeftAlone \cup Refused \cup Specified

--------------------------------------------------------------------------------
(* Programs whose values the pass changes, each in a way of its own.           *)

Holes == [t |-> <<"i32", "i32", "i32">>, pieces |-> <<Piece("i32", 0), Piece("i32", 8)>>]
Narrow == [t |-> <<"i16", "i16", "i32">>, pieces |-> <<Piece("i64", 0)>>]
Departures == [
  \* a field nothing writes lies in the interval that another one's has grown into; a
  \* call stores the fields up to it
  gap |-> Two(Fn(Params("a", Holes), Stores("a", "s", Holes, <<2, 1>>) \o <<Load("v", "s", <<"i32">>), Look("v")>>),
              Reader(Holes, <<>>)),
  \* the struct is still copied from the intermediary, whose stores are gone
  via |-> Program("f" :> Fn(Params("a", Halves), <<Struct("d", Halves.t)>> \o Stores("a", "s", Halves, <<1, 2>>)
                                                \o <<Copy("d", "s", 16)>> \o Fields("d", Halves.t)), <<"f">>),
  \* every piece is loaded with the type of the first
  narrow |-> WithCalls(Callee(Narrow, <<1>>), Narrow),
  \* the fields are loaded from where the callee's struct has them, not the caller's
  other |-> Two(Callee(Whole, <<1>>),
                Fn(<<Param("b1", <<"i32">>), Param("b2", <<"i32">>)>>,
                   <<Struct("c", <<"i64", "i32", "i32">>), Gep("g1", "c", 8), Store("b1", "g1"), Gep("g2", "c", 12),
                     Store("b2", "g2"), Load("l", "g1", <<"i64">>), Call("r", "f", <<"l">>)>>)),
  \* the load of the caller moves to the call, behind a store
  between |-> Two(Callee(Whole, <<1>>),
                  Fn(<<Param("n", <<"i64">>), Param("k", <<"i64">>)>>,
                     <<Struct("c", Whole.t), Store("n", "c"), Load("l", "c", <<"i64">>), Store("k", "c"),
                       Call("r", "f", <<"l">>)>>)),
  \* what else an argument is used for is removed with it
  elsewhere |-> Program("f" :> Then(Callee(Halves, <<1, 2>>), <<Look("a1")>>), <<"f">>),
  \* the result of a call is a field of the argument of another, and is replaced first
  stale |-> Three(Fn(<<Param("a", <<"i64">>)>>, <<Struct("s", <<"i64">>), Store("a", "s"), Load("v", "s", <<"i64">>), Return("v")>>),
                  Fn(<<Param("b", <<"i64">>)>>, <<Struct("c", <<"i64">>), Store("b", "c"), Load("w", "c", <<"i64">>), Look("w")>>),
                  Fn(<<N>>, <<Cell("m", <<"i64">>), Store("n", "m"), Load("l", "m", <<"i64">>), Call("r", "f", <<"l">>),
                              Call("r2", "g", <<"r">>)>>)),
  \* one operand for each piece, where the wrapper has one parameter
  operands |-> Stating(Wrapper(Callee(Halves, <<1, 2>>)), <<Spec("assert", "f", <<"x", "x">>)>>),
  \* the clauses of contracts are not reordered
  clause |-> Stating(First, <<Spec("requires", "f", <<"x", "y">>)>>)]

================================================================================
