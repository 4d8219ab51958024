--------------------------- MODULE MCTypePipeline ---------------------------
(***************************************************************************)
(* A small program over a small library, for TLC.  The library has a       *)
(* container Box[T] of an Opt[T], three traits that Box implements, two of *)
(* which Opt implements only for Int or with another argument, and         *)
(* functions bounded by them; the package has a struct Pair[A, B], a       *)
(* function of its own and scene main, which begins with                   *)
(*   let i = 1;  let z = Pair { fst: true, snd: i };                       *)
(*   let b = Box::new();  let o = Opt::None;                               *)
(* and goes on with some statements, so that what T is in b and o comes    *)
(* out of what is done with them, or does not come out.                    *)
(***************************************************************************)
EXTENDS TypePipeline

CONSTANT Depth    \* how many of the statements a program has at most

Box(t)     == Defined("Box", <<t>>)
Opt(t)     == Defined("Opt", <<t>>)
Pair(s, t) == Defined("Pair", <<s, t>>)

SomeDef == VariantDef("Some", "tuple", <<[f |-> "_0", ty |-> Gen("Opt.T")]>>)

MCTyDefs ==
  "Box" :> StructDef(<<"Box.T">>, [item |-> Opt(Gen("Box.T"))])
  @@ "Pair" :> StructDef(<<"Pair.A", "Pair.B">>,
                         [fst |-> Gen("Pair.A"), snd |-> Gen("Pair.B")])
  @@ "Opt" :> EnumDef(<<"Opt.T">>, <<VariantDef("None", "unit", <<>>), SomeDef>>)

-----------------------------------------------------------------------------
(* Nodes *)

One   == Literal(IntTy)
True  == Literal(BoolTy)
None  == VariantCtor("Opt", "None", "unit", <<>>)
Some(e) == VariantCtor("Opt", "Some", "tuple", <<[f |-> "_0", e |-> e]>>)
NoneOf    == VariantPattern("Opt", "None", "unit", <<>>)
SomeOf(x) == VariantPattern("Opt", "Some", "tuple", <<[f |-> "_0", x |-> x]>>)
PairOf(s, t) == StructLiteral("Pair", <<[f |-> "fst", e |-> s], [f |-> "snd", e |-> t]>>)
BoxWith(e)   == StructLiteral("Box", <<[f |-> "item", e |-> e]>>)

Call(f, as)     == FnCall("fn", f, NoTy, as)
Assoc(f, t, as) == FnCall("assoc", f, t, as)
OfTrait(f, t)   == FnCall("trait", f, t, <<>>)
Set(x, e)       == AssignStmt(Variable(x), e)
Plus(l, r)      == Binary("arith", l, r)
Less(l, r)      == Binary("order", l, r)
Is(l, r)        == Binary("eq", l, r)
Yields(e)       == BlockExpr(<<>>, e)

\* Box::new(), with or without the type argument written out.
NewBox     == Assoc("Box.new", Defined("Box", <<>>), <<>>)
NewBoxOf(t) == Assoc("Box.new", Box(t), <<>>)

-----------------------------------------------------------------------------
(* Declarations *)

Plain(id)              == <<GenArgDef(id, <<>>)>>
Bounded(id, trait, as) == <<GenArgDef(id, <<TraitCond(trait, as)>>)>>

Free(args, rty, gens) == FnSignature(NoTy, NoTy, args, rty, <<>>, gens)
OfSelf(sig, trait)    == [sig EXCEPT !.self = Gen(SelfGen(trait))]

MCTraits ==
  "Show" :> TraitDef(<<>>, [show |-> OfSelf(Free(<<>>, IntTy, <<>>), "Show")])
  @@ "Conv" :> TraitDef(<<"Conv.W">>,
       [conv |-> OfSelf(Free(<<Gen("Conv.W")>>, Gen("Conv.W"), <<>>), "Conv"),
        pick |-> OfSelf(Free(<<LocGen("pick.U")>>, LocGen("pick.U"), Plain("pick.U")), "Conv")])
  @@ "Make" :> TraitDef(<<>>, [make |-> Free(<<>>, Gen("Make.Self"), <<>>)])

\* In an impl block for Box[id].
BoxOf(id) == Box(LocGen(id))
BoxSig(id, args, rty, gens) == FnSignature(BoxOf(id), BoxOf(id), args, rty, Plain(id), gens)
BoxAssoc(id, rty) == FnSignature(NoTy, BoxOf(id), <<>>, rty, Plain(id), <<>>)
BoxFn(trait, name, sig, params, e, strs) ==
  FnDef("lib", "Box", trait, name, sig, params, FnBody(<<>>, e), strs)

\* An item of impl[OT] Opt[OT]: Conv[Bool].
OptFn(name, args, rty, gens) ==
  NativeFnDef("lib", "Opt", "Conv", name,
              FnSignature(Opt(LocGen("OT")), Opt(LocGen("OT")), args, rty, Plain("OT"), gens))

TypeFns ==
  "Box.new" :> NativeFnDef("lib", "Box", NoDef, "new", BoxAssoc("T", BoxOf("T")))
  @@ "Box.put" :> BoxFn(NoDef, "put", BoxSig("T", <<LocGen("T")>>, BoxOf("T"), <<>>), <<"x">>,
                        BoxWith(Some(Variable("x"))), <<1>>)
  @@ "Box.get" :> BoxFn(NoDef, "get", BoxSig("T", <<LocGen("T")>>, LocGen("T"), <<>>), <<"d">>,
                        MatchExpr(MemberAccess(Variable("self"), "item"),
                                  <<Arm(SomeOf("v"), Yields(Variable("v"))),
                                    Arm(Wildcard, Yields(Variable("d")))>>), <<>>)
  @@ "Box.map" :> BoxFn(NoDef, "map", BoxSig("T", <<LocGen("U")>>, BoxOf("U"), Plain("U")),
                        <<"x">>, BoxWith(Some(Variable("x"))), <<2>>)
  @@ "Box.show" :> BoxFn("Show", "show", BoxSig("ST", <<>>, IntTy, <<>>), <<>>, One, <<2>>)
  @@ "Box.conv" :> BoxFn("Conv", "conv", BoxSig("CT", <<IntTy>>, IntTy, <<>>), <<"w">>,
                         Variable("w"), <<>>)
  @@ "Box.pick" :> BoxFn("Conv", "pick", BoxSig("CT", <<LocGen("CU")>>, LocGen("CU"), Plain("CU")),
                         <<"u">>, Variable("u"), <<>>)
  @@ "Box.make" :> BoxFn("Make", "make", BoxAssoc("MT", BoxOf("MT")), <<>>,
                         NewBoxOf(LocGen("MT")), <<>>)
  @@ "Opt.show" :> NativeFnDef("lib", "Opt", "Show", "show",
                               FnSignature(Opt(IntTy), Opt(IntTy), <<>>, IntTy, <<>>, <<>>))
  @@ "Opt.conv" :> OptFn("conv", <<BoolTy>>, BoolTy, <<>>)
  @@ "Opt.pick" :> OptFn("pick", <<LocGen("OU")>>, LocGen("OU"), Plain("OU"))
  @@ "Int.show" :> NativeFnDef("lib", "Int", "Show", "show",
                               FnSignature(IntTy, IntTy, <<>>, IntTy, <<>>, <<>>))

\* A function of a package with one generic type, for which it is given an x.
FnOfX(name, rty, gens, ss, e, strs) ==
  FnDef("lib", NoDef, NoDef, name, Free(<<LocGen(gens[1].id)>>, rty, gens), <<"x">>,
        FnBody(ss, e), strs)

X == Variable("x")

GenericFns ==
  "twice" :> FnOfX("twice", IntTy, Bounded("W", "Show", <<>>), <<>>,
                   Plus(MethodCall(X, "show", <<>>), MethodCall(X, "show", <<>>)), <<1>>)
  @@ "keep" :> FnOfX("keep", IntTy, Bounded("K", "Conv", <<IntTy>>),
                     <<ExprStmt(MethodCall(X, "pick", <<True>>))>>,
                     MethodCall(X, "conv", <<One>>), <<>>)
  @@ "build" :> FnOfX("build", LocGen("B"), Bounded("B", "Make", <<>>), <<>>,
                      OfTrait(<<"Make", "make">>, LocGen("B")), <<>>)
  @@ "grow" :> FnOfX("grow", IntTy, Plain("G"), <<ExprStmt(Call("relic", <<>>))>>,
                     Call("grow", <<MethodCall(NewBox, "put", <<X>>)>>), <<>>)
  @@ "relic" :> NativeFnDef("lib", NoDef, NoDef, "relic",
                             Free(<<>>, Defined("Relic", <<>>), <<>>))
  @@ "ghost" :> FnDef("lib", NoDef, NoDef, "ghost", Free(<<>>, IntTy, <<>>), <<>>,
                      FnBody(<<>>, One), <<>>)

\* let r = f(x);  let w = Pair { fst: -1, snd: r };  { w.fst = 1; }
\* while w.fst < 1 { match Opt::Some(r) { Some(u) => { w.snd = u; } _ => {} } }
W(f) == MemberAccess(Variable("w"), f)
ApplyStmts ==
  <<VarDecl("r", FnCall("var", "f", NoTy, <<X>>)),
    VarDecl("w", PairOf(Unary(One), Variable("r"))),
    BlockStmt(<<AssignStmt(W("fst"), One)>>),
    WhileStmt(Less(W("fst"), One),
              <<MatchStmt(Some(Variable("r")),
                          <<Arm(SomeOf("u"), <<AssignStmt(W("snd"), Variable("u"))>>),
                            Arm(Wildcard, <<>>)>>)>>)>>

OwnFns ==
  "main" :> FnDef("self", NoDef, NoDef, "main", Free(<<>>, IntTy, <<>>), <<>>, <<>>, <<1, 2>>)
  @@ "swap" :> FnDef("self", NoDef, NoDef, "swap",
                     Free(<<Pair(LocGen("A"), LocGen("B"))>>, Pair(LocGen("B"), LocGen("A")),
                          Plain("A") \o Plain("B")), <<"p">>,
                     FnBody(<<>>, PairOf(MemberAccess(Variable("p"), "snd"),
                                         MemberAccess(Variable("p"), "fst"))), <<2>>)
  @@ "apply" :> FnDef("self", NoDef, NoDef, "apply",
                      Free(<<Fn(<<LocGen("P")>>, LocGen("P")), LocGen("P")>>, LocGen("P"),
                           Plain("P")), <<"f", "x">>,
                      FnBody(ApplyStmts,
                             Yields(MatchExpr(Variable("w"),
                                              <<Arm(Binding("t"),
                                                    Yields(MemberAccess(Variable("t"), "snd")))>>))),
                      <<>>)

MCFns == TypeFns @@ GenericFns @@ OwnFns

MCImpls ==
  <<TyTraitImpl("Int", "Show", <<>>, <<>>, [show |-> "Int.show"]),
    TyTraitImpl("Box", "Show", <<LocGen("ST")>>, <<>>, [show |-> "Box.show"]),
    TyTraitImpl("Box", "Conv", <<LocGen("CT")>>, <<IntTy>>,
                [conv |-> "Box.conv", pick |-> "Box.pick"]),
    TyTraitImpl("Box", "Make", <<LocGen("MT")>>, <<>>, [make |-> "Box.make"]),
    TyTraitImpl("Opt", "Show", <<IntTy>>, <<>>, [show |-> "Opt.show"]),
    TyTraitImpl("Opt", "Conv", <<LocGen("OT")>>, <<BoolTy>>,
                [conv |-> "Opt.conv", pick |-> "Opt.pick"])>>

MCInScope == [lib |-> {"Show", "Conv", "Make"}, self |-> {"Show"}]

MCForeign == DOMAIN TypeFns \union DOMAIN GenericFns \union {"Box", "Opt"}

\* The two packages number the same texts differently.
MCPools == [lib |-> <<"a", "b">>, self |-> <<"b", "c">>]

-----------------------------------------------------------------------------
(* The programs *)

I == Variable("i")
B == Variable("b")
O == Variable("o")

Prelude ==
  <<VarDecl("i", One), VarDecl("z", PairOf(True, I)), VarDecl("b", NewBox), VarDecl("o", None)>>

Statements ==
  <<ExprStmt(MethodCall(B, "put", <<I>>)),
    VarDecl("g", MethodCall(B, "get", <<True>>)),
    Set("b", MethodCall(NewBoxOf(IntTy), "map", <<O>>)),
    ExprStmt(Call("twice", <<B>>)),
    ExprStmt(Call("twice", <<O>>)),
    VarDecl("s", Call("swap", <<PairOf(O, I)>>)),
    Set("o", Some(B)),
    IfStmt(Less(I, MethodCall(B, "show", <<>>)),
           <<Set("o", Some(True)), ReturnStmt(One)>>, TRUE, <<Set("o", None)>>),
    VarDecl("q", MatchExpr(O, <<Arm(SomeOf("v"), Yields(Variable("v"))), Arm(NoneOf, Yields(B))>>)),
    ExprStmt(Call("keep", <<B>>)),
    Set("b", Call("build", <<B>>)),
    VarDecl("y", IfExpr(Is(I, MemberAccess(Variable("z"), "snd")),
                        Yields(O), Yields(MemberAccess(B, "item")))),
    ExprStmt(MethodCall(B, "conv", <<I>>))>>

\* Polymorphic recursion, a function without a body, a bound that only the head
\* of the type meets, one that nothing meets, an operator on an open variable.
Edges ==
  <<ExprStmt(Call("grow", <<I>>)),
    Set("i", Call("ghost", <<>>)),
    ExprStmt(Call("keep", <<Some(I)>>)),
    ExprStmt(Call("build", <<Variable("z")>>)),
    VarDecl("n", MatchExpr(O, <<Arm(SomeOf("v"), Yields(Unary(Variable("v")))),
                                Arm(NoneOf, Yields(True))>>))>>

\* Statements are combined Depth at a time, an edge with at most one other.
AllStatements == Statements \o Edges
Sequences(S, n) == UNION {{s \in [1 .. k -> S] : IsInjective(s)} : k \in 1 .. n}
Chosen == Sequences(DOMAIN Statements, Depth) \union Sequences(DOMAIN AllStatements, 2)

MCMains == [s \in Chosen |-> FnBody(Prelude \o [i \in DOMAIN s |-> AllStatements[s[i]]], I)]

MCOwn  == {"main", "swap", "apply"}
MCLost == {"ghost"}
=============================================================================
