--------------------------- MODULE MCMirPipeline ---------------------------
(***************************************************************************)
(* Function bodies for MirPipeline: two parameters, x a number and e a     *)
(* value of an enum with the variants 0, 1(n) and 2; statements nested two *)
(* deep and in pairs, every kind of expression, and loops that go on for   *)
(* as long as a call says so.                                              *)
(***************************************************************************)
EXTENDS MirPipeline

-----------------------------------------------------------------------------
(* Short forms of the nodes. *)

Lit(k)      == [n |-> "lit", value |-> IntVal(k)]
Var(x)      == [n |-> "var", x |-> x]
Field(b, i) == [n |-> "field", base |-> b, index |-> i]
Op(o, args) == [n |-> "op", op |-> o, args |-> args]
Ask(args)   == [n |-> "call", args |-> args]

BlockOf(stmts)     == [n |-> "block", stmts |-> stmts, expr |-> NoExpr]
BlockExpr(stmts, e) == [n |-> "block", stmts |-> stmts, expr |-> e]

If(c, p, q)   == [n |-> "if", cond |-> c, then |-> p, els |-> q]
While(c, p)   == [n |-> "while", cond |-> c, body |-> BlockOf(p)]
Match(s, arms) == [n |-> "match", scrut |-> s, arms |-> arms]
Arm(pat, b)   == [pat |-> pat, body |-> b]

Let(x, e)     == [n |-> "let", x |-> x, expr |-> e]
Set(d, e)     == [n |-> "assign", dst |-> d, expr |-> e]
Ret(e)        == [n |-> "return", expr |-> e]
Do(e)         == [n |-> "expr", expr |-> e]

x == Var("x")
e == Var("e")
y == Var("y")

\* A number or an enum value with one number, from x.
Some(v) == Op(<<"ctor", 1>>, <<v>>)

Function(stmts, expr) == [params |-> <<"x", "e">>, body |-> BlockExpr(stmts, expr)]

-----------------------------------------------------------------------------
(* Statements, nested. *)

Simple == {<<>>, <<Set(x, Ask(<<x>>))>>, <<Ret(Op(<<"bin">>, <<x, Lit(1)>>))>>}

\* A match on e that binds the number, tests the tag, or catches all.
Matches(p, q) ==
  {Match(e, <<Arm(<<"variant", 1, <<"y">>>>, BlockOf(<<Do(Ask(<<y>>))>> \o p)),
              Arm(<<"any">>, BlockOf(q))>>),
   Match(e, <<Arm(<<"variant", 0, <<>>>>, BlockOf(p)),
              Arm(<<"variant", 2, <<>>>>, BlockOf(q)),
              Arm(<<"variant", 1, <<NoVar>>>>, BlockOf(p))>>)}

Ifs(p, q) == {If(x, BlockOf(p), BlockOf(q))}

Whiles(p) == {While(Ask(<<x>>), p)}

Flat == UNION {Ifs(p, q) \union Matches(p, q) \union Whiles(p) : p, q \in Simple}

\* What can follow: one of its branches is empty.
Finals == UNION {Ifs(p, <<>>) \union Matches(p, <<>>) \union Whiles(p) : p \in Simple}

Inner == {<<s>> : s \in Flat} \union {<<s, Set(x, Ask(<<x>>))>> : s \in Flat}

Nested == UNION {Ifs(p, <<>>) \union Whiles(p) \union
                 {Match(Op(<<"bin">>, <<x>>), <<Arm(<<"bind", "y">>, BlockOf(p))>>)} : p \in Inner}

-----------------------------------------------------------------------------
(* Expressions, in every place where one can be. *)

IfExpr    == If(Ask(<<x>>), BlockExpr(<<Set(x, Lit(0))>>, Lit(1)), BlockExpr(<<>>, x))
MatchExpr ==
  Match(e, <<Arm(<<"variant", 1, <<"y">>>>, BlockExpr(<<Set(y, Op(<<"bin">>, <<y, x>>))>>, y)),
             Arm(<<"variant", 0, <<>>>>, BlockExpr(<<Ret(Lit(2))>>, x)),
             Arm(<<"bind", "z">>, BlockExpr(<<>>, Ask(<<Var("z"), x>>)))>>)
Payload   == Match(Some(Ask(<<x>>)), <<Arm(<<"variant", 1, <<"w">>>>,
                                            BlockExpr(<<>>, Var("w")))>>)

\* Without statements in the branches; a value hoisted out of an arm that has
\* statements; two fields, the first of them not bound.
Choice == If(Ask(<<x>>), BlockExpr(<<>>, Lit(1)), BlockExpr(<<>>, x))
Deep   ==
  Match(e, <<Arm(<<"variant", 1, <<"y">>>>, BlockExpr(<<Set(x, Ask(<<y>>))>>, Payload)),
             Arm(<<"any">>, BlockExpr(<<Do(Ask(<<x>>))>>, Choice))>>)
Second == Match(Op(<<"ctor", 1>>, <<x, Ask(<<x>>)>>),
                <<Arm(<<"variant", 1, <<NoVar, "w">>>>, BlockExpr(<<>>, Var("w")))>>)

Expressions ==
  {x, Choice, Deep, Second, Ask(<<Lit(1), Deep>>), IfExpr, MatchExpr, Payload, Ask(<<IfExpr, MatchExpr>>),
   Op(<<"bin">>, <<Ask(<<Lit(1)>>), MatchExpr>>), Some(IfExpr), Field(Some(MatchExpr), 1),
   BlockExpr(<<Let("y", IfExpr), Set(x, y)>>, Op(<<"bin">>, <<y, Payload>>)),
   BlockExpr(<<Let("y", Some(x)), Set(Field(y, 1), Payload)>>, Field(y, 1))}

WithExpressions ==
  UNION {{Function(<<>>, v), Function(<<Do(v)>>, x), Function(<<Ret(v)>>, x),
          Function(<<Let("v", v), Do(Ask(<<Var("v")>>))>>, x)} : v \in Expressions}
  \union {Function(<<While(v, <<Do(Ask(<<x>>)), Set(x, Ask(<<x>>))>>)>>, x) : v \in {IfExpr}}

-----------------------------------------------------------------------------

MCSources ==
  {Function(<<s>>, x) : s \in Nested}
    \union {Function(<<s, t>>, NoExpr) : s \in Flat, t \in Finals}
    \union WithExpressions

MCLoopSources == {Function(<<While(Ask(<<x>>), p)>>, x) : p \in Inner}

\* What the lowering makes of the sources.
MCBodies == {BuildBody(f) : f \in Sources}

MCInputs ==
  {[args |-> (1 :> IntVal(n) @@ 2 :> v), results |-> [i \in 1 .. 4 |-> IntVal(r[i])]] :
     n \in {0, 1}, v \in {IntVal(0), [tag |-> 1, fields |-> <<IntVal(1)>>], IntVal(2)},
     r \in {<<1, 0, 1, 0>>, <<0, 1, 1, 0>>}}
=============================================================================
