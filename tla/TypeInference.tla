--------------------------- MODULE TypeInference ---------------------------
(***************************************************************************)
(* The inference of the types in one function body.                        *)
(*                                                                         *)
(* A node of a body is a record told apart by n.  An expression is named   *)
(* by its path p from the body; a block has its statements at the paths    *)
(* p \o <<i>> and its expression at p \o <<0>>.  What the inference leaves *)
(* behind is in c: exprs, vars (the types of the expressions and of the    *)
(* variables), calls (what the generic types of the callee are at a call), *)
(* sites (the calls in their order), deps (what an import is needed for).  *)
(*                                                                         *)
(* c.open is a history that the code does not keep: the operators that     *)
(* were let through because the type of their operands was a variable.     *)
(***************************************************************************)
EXTENDS TraitSolver

RECURSIVE InferNode(_, _, _)

\* An expression, whose type is noted.
InferExpr(c, p, e) ==
  Then(InferNode(c, p, e),
       LAMBDA d : [d EXCEPT !.exprs = (p :> d.ty) @@ @, !.asg = c.asg])

\* Some expressions from left to right; their types are in tys.
InferAll(c, p, es) ==
  FoldLeftDomain(LAMBDA d, i :
                   Then(d, LAMBDA d1 : LET r == InferExpr(d1, Append(p, i), es[i])
                                       IN [r EXCEPT !.tys = Append(d1.tys, r.ty)]),
                 [c EXCEPT !.tys = <<>>], es)

DependOnTy(c, t)  == [c EXCEPT !.deps = @ \union DependedTys(t, Foreign)]
DependOnVal(c, f) == [c EXCEPT !.deps = @ \union ({f} \intersect Foreign)]

\* The expression at p \o <<1>>, which is to be a Bool.
InferCond(c, p, e) ==
  Then(InferExpr(c, Append(p, 1), e), LAMBDA d : Unify(d, BoolTy, d.ty))

-----------------------------------------------------------------------------
(* Operators *)

Numeric == {IntTy, FloatTy}

\* What a binary operator is for.
OperandTys(op) == Numeric \union (IF op = "eq" THEN {BoolTy} ELSE {})

\* The operator at p is for operands of these types.  Of a variable that is not
\* asked, neither now nor when it has become a type.
Operate(c, p, allowed, error) ==
  CASE c.ty.k = "var"    -> [c EXCEPT !.open = @ \union {p}]
    [] c.ty \in allowed -> c
    [] OTHER -> Fail(c, error)

InferNeg(c, p, e) ==
  Then(InferExpr(c, Append(p, 1), e.right),
       LAMBDA d : Operate(d, p, Numeric, "InvalidUnaryOperationForType"))

InferBinary(c, p, e) ==
  Then(InferAll(c, p, <<e.left, e.right>>), LAMBDA d :
  Then(Unify(d, d.tys[1], d.tys[2]), LAMBDA d1 :
  Then(Operate(d1, p, OperandTys(e.op), "InvalidBinaryOperationForType"), LAMBDA d2 :
    Yield(d2, IF e.op = "arith" THEN d2.ty ELSE BoolTy))))

-----------------------------------------------------------------------------
(* Values of structs and enums, and access to members *)

IsRepeated(names) == Cardinality(ToSet(names)) # Len(names)

\* The arguments named by the members are unified with what the type declares,
\* in the order given; args[i] is at the path p \o <<i>>.
InferFields(c, p, args, declared, order) ==
  FoldLeft(LAMBDA d, i :
             Then(InferExpr(d, Append(p, i), args[i]),
                  LAMBDA d1 : UnifyBy("defn", d1, declared[i], d1.ty)),
           [c EXCEPT !.asg = NoSubst], order)

\* The generic types of the definition as the members determined them.
StructOf(c, e, def, names) ==
  CASE c.err # "" -> c
    [] ~ (ToSet(def.gens) \subseteq DOMAIN c.asg) -> Fail(c, "panic")
    [] names # DOMAIN def.members -> Fail(c, "StructLiteralMemberInsufficient")
    [] OTHER -> Yield(c, Defined(e.ty, [i \in DOMAIN def.gens |-> c.asg[def.gens[i]]]))

\* The members are in a hash table, and inferred in its order.
InferMembers(c, p, e, def, names) ==
  CASE def.kind # "struct" -> Fail(c, "InvalidStructLiteralOnAliasType")
    [] IsRepeated(names) -> Fail(c, "StructLiteralMemberConfliced")
    [] ~ (ToSet(names) \subseteq DOMAIN def.members) ->
         Fail(c, "StructLiteralAssignToInexsistentMember")
    [] OTHER ->
         StructOf(InferFields(c, p, [i \in DOMAIN names |-> e.members[i].e],
                              [i \in DOMAIN names |-> def.members[names[i]]],
                              [i \in DOMAIN names |->
                                 IF c.reversed THEN Len(names) + 1 - i ELSE i]),
                  e, def, ToSet(names))

InferStruct(c, p, e) ==
  InferMembers(c, p, e, TyDefs[e.ty], [i \in DOMAIN e.members |-> e.members[i].f])

VariantIndex(ty, v) ==
  CHOOSE i \in DOMAIN TyDefs[ty].variants : TyDefs[ty].variants[i].name = v

\* What is wrong with the fields written for a variant, "" for nothing: fs are
\* the names written, which are those declared when they go by position.
FieldsError(variant, shape, fs) ==
  LET names == [i \in DOMAIN variant.fields |-> variant.fields[i].f]
  IN CASE variant.shape # shape -> "VariantShapeMismatched"
       [] shape # "named" /\ Len(fs) # Len(names) -> "VariantFieldCountMismatched"
       [] shape = "named" /\ ~ (ToSet(fs) \subseteq ToSet(names)) -> "VariantFieldNotFound"
       [] shape = "named" /\ IsRepeated(fs) -> "StructLiteralMemberConfliced"
       [] shape = "named" /\ ToSet(fs) # ToSet(names) -> "VariantFieldInsufficient"
       [] OTHER -> ""

\* For every declared field, which of the written ones is its.
Positions(variant, shape, fs) ==
  [i \in DOMAIN variant.fields |->
     IF shape # "named" THEN i ELSE CHOOSE j \in DOMAIN fs : fs[j] = variant.fields[i].f]

\* The generic types that no field determines become fresh variables.
FreshGens(c, gens) ==
  FoldLeft(LAMBDA d, g : IF g \in DOMAIN d.asg THEN d
                         ELSE [Fresh(d) EXCEPT !.asg = (g :> Fresh(d).ty) @@ @],
           c, gens)

VariantOf(c, e, gens) == Yield(c, Defined(e.ty, [i \in DOMAIN gens |-> c.asg[gens[i]]]))

\* at[i] is which of the fields written is the i-th that is declared.
InferVariantFields(c, p, e, variant, at) ==
  InferFields(DependOnTy(c, Defined(e.ty, <<>>)), p, [j \in DOMAIN e.args |-> e.args[j].e],
              [j \in DOMAIN e.args |-> variant.fields[CHOOSE i \in DOMAIN at : at[i] = j].ty], at)

InferVariantBy(c, p, e, variant, fs) ==
  IF FieldsError(variant, e.shape, fs) # "" THEN Fail(c, FieldsError(variant, e.shape, fs))
  ELSE Then(InferVariantFields(c, p, e, variant, Positions(variant, e.shape, fs)),
            LAMBDA d : VariantOf(FreshGens(d, TyDefs[e.ty].gens), e, TyDefs[e.ty].gens))

InferVariant(c, p, e) ==
  InferVariantBy(c, p, e, TyDefs[e.ty].variants[VariantIndex(e.ty, e.v)],
                 [i \in DOMAIN e.args |-> e.args[i].f])

\* The type on the left is taken as it is: a variable is not looked up.
InferMember(c, p, e) ==
  Then(InferExpr(c, Append(p, 1), e.left), LAMBDA d :
    LET def == TyDefs[d.ty.n]
    IN CASE d.ty.k = "var" -> Fail(d, "InsufficientContext")
         [] d.ty.k = "gen" -> Fail(d, "panic")
         [] d.ty.k # "def" -> Fail(d, "ExprNotHasMember")
         [] def.kind # "struct" -> Fail(d, "ExprNotHasMember")
         [] e.f \notin DOMAIN def.members -> Fail(d, "StructNotHasMember")
         [] Len(def.gens) # Len(d.ty.a) -> Fail(d, "panic")
         [] OTHER -> Yield(d, SubstTy(def.members[e.f], "gen", Assigning(def.gens, d.ty.a))))

-----------------------------------------------------------------------------
(* Calls *)

\* What the bounds of the callee demand of the types at the call; settled when
\* the whole body is inferred.
RecordObligations(c, sig) ==
  LET gens   == SelectSeq(AllGens(sig), LAMBDA g : g.id \in DOMAIN c.asg)
      demand(g) == [i \in DOMAIN g.bounds |-> [ty |-> c.asg[g.id], bound |-> g.bounds[i]]]
  IN [c EXCEPT !.obs = @ \o FlattenSeq([i \in DOMAIN gens |-> demand(gens[i])])]

RecordCall(c, p, asg) ==
  IF DOMAIN asg = {} THEN c
  ELSE [c EXCEPT !.calls = (p :> [g \in DOMAIN asg |-> Apply(c, asg[g])]) @@ @]

\* The callee's type against the types at the call, c.asg having what is known
\* of the generic types; those of `own` in the result that are still open
\* become variables.
UnifyCall(c, own, params, rty, args) ==
  LET called == Fresh(c)
  IN Then(UnifyBy("call", called, Fn(params, rty), Fn(args, called.ty)),
          LAMBDA d : Embody(d, Last(d.ty.a), own))

CallOf(c, p, sig, params, args) ==
  Then(UnifyCall([c EXCEPT !.asg = NoSubst], GenIds(AllGens(sig)), params, sig.rty, args),
       LAMBDA d : RecordCall(RecordObligations(d, sig), p, d.asg))

\* The generic types of the caller that came in with Self stand for themselves.
TraitCallOf(c, p, sig, params, args) ==
  LET own   == GenIds(sig.gens)
      outer == NamesInAll(Append(params, sig.rty), "loc") \ own
  IN Then(UnifyCall([c EXCEPT !.asg = [g \in outer |-> LocGen(g)]], own, params, sig.rty, args),
          LAMBDA d : RecordCall(d, p, [g \in own \intersect DOMAIN d.asg |-> d.asg[g]]))

\* The declaration with s put in for the generic types of the trait.
SigWith(sig, s) ==
  LET put(u) == IF u = NoTy THEN NoTy ELSE SubstTy(u, "gen", s)
  IN [sig EXCEPT !.self = put(@), !.rty = put(@), !.implSelf = put(@),
                 !.args = [i \in DOMAIN @ |-> put(@[i])], !.igens = <<>>]

\* The arguments of the trait when a bound of the caller brought it in.
TraitArgs(trait, bounds) ==
  IF bounds = <<>> THEN NoSubst ELSE Assigning(Traits[trait].gens, bounds[1].args)

\* The declaration of an item of a trait, at the type it is used for: Self and,
\* when a bound brought the trait in, its arguments are put in.
TraitItemSig(sig, item, t) ==
  LET bounds == IF t.k = "loc"
                THEN SelectSeq(BoundsOf(sig, t.n), LAMBDA b : b.trait = item[1]) ELSE <<>>
  IN SigWith(Traits[item[1]].items[item[2]],
             (SelfGen(item[1]) :> t) @@ TraitArgs(item[1], bounds))

\* The type written at the call counts only with all its arguments.
IsUsable(implSelf, site) ==
  /\ implSelf # NoTy
  /\ implSelf.k = "def" /\ site.k = "def"
  /\ implSelf.n = site.n
  /\ Len(implSelf.a) = Len(site.a)
  /\ NamesIn(site, "gen") = {}

\* The lowering to MIR reads off the call what is called, the type that decides
\* which implementation of a trait it is, and the arguments: their paths.
NoteSite(c, p, to, self, args) ==
  Then(c, LAMBDA d : [d EXCEPT !.sites = Append(@, [path |-> p, to |-> to, self |-> self,
                                                    args |-> args])])

ArgPaths(p, args) == [i \in DOMAIN args |-> Append(p, i)]

\* The type that an associated function is called on, when it counts, is matched
\* with the type of the impl block as if it were one more argument.
InferFnCall(c, p, e, sig, usable) ==
  LET self == IF usable THEN <<sig.implSelf>> ELSE <<>>
      site == IF usable THEN <<e.self>> ELSE <<>>
  IN Then(InferAll(DependOnVal(c, e.f), p, e.args), LAMBDA d :
       NoteSite(CallOf(d, p, sig, self \o sig.args, site \o d.tys), p, Direct(e.f), NoTy,
                ArgPaths(p, e.args)))

InferTraitCall(c, p, e, sig) ==
  Then(InferAll(c, p, e.args), LAMBDA d :
    NoteSite(TraitCallOf(d, p, sig, sig.args, d.tys), p, ByTrait(e.f[1], e.f[2]), e.self,
             ArgPaths(p, e.args)))

\* The type of the variable is taken for that of a callee; result is a fresh
\* variable.
InferVarCall(c, p, e) ==
  LET called(d, result) ==
        Then(UnifyBy("call", [d EXCEPT !.asg = NoSubst], c.vars[e.f], Fn(d.tys, result)),
             LAMBDA d1 : Yield(d1, result))
  IN Then(InferAll(c, p, e.args), LAMBDA d :
       NoteSite(called([Fresh(d) EXCEPT !.tys = d.tys], Fresh(d).ty), p,
                [kind |-> "indirect"], NoTy, ArgPaths(p, e.args)))

InferCall(c, p, e) ==
  CASE e.kind \in {"fn", "assoc"} ->
         InferFnCall(c, p, e, Fns[e.f].sig, IsUsable(Fns[e.f].sig.implSelf, e.self))
    [] e.kind = "trait" -> InferTraitCall(c, p, e, TraitItemSig(c.sig, e.f, e.self))
    [] e.kind = "var"   -> InferVarCall(c, p, e)

\* The receiver is matched with what self is declared to be, if it is.
InferMethodCall(c, p, e, left, target, sig) ==
  LET self == IF sig.self = NoTy THEN <<>> ELSE <<sig.self>>
      site == IF sig.self = NoTy THEN <<>> ELSE <<left>>
      call(d) == IF target.kind = "trait"
                 THEN TraitCallOf(d, p, sig, self \o sig.args, site \o d.tys)
                 ELSE CallOf(d, p, sig, self \o sig.args, site \o d.tys)
  IN Then(InferAll(c, p, e.args), LAMBDA d :
       NoteSite(call(d), p, target, left, <<Append(p, 0)>> \o ArgPaths(p, e.args)))

SigOf(c, left, target) ==
  IF target.kind = "fn" THEN Fns[target.fn].sig ELSE TraitItemSig(c.sig, target.item, left)

InferMethodBy(c, p, e, left, target) ==
  CASE target.kind = "error" -> Fail(c, target.err)
    [] OTHER -> InferMethodCall(IF target.kind = "fn" THEN DependOnVal(c, target.fn) ELSE c,
                                p, e, left, target, SigOf(c, left, target))

InferMethod(c, p, e) ==
  Then(InferExpr(c, Append(p, 0), e.left), LAMBDA d :
    InferMethodBy(d, p, e, d.ty, MethodTarget(d.ty, e.m, d.mod, BoundsOf(d.sig, d.ty.n))))

-----------------------------------------------------------------------------
(* Match *)

\* The types of the variables in the pattern of a variant.
PatternTypes(pat, variant, at, s) ==
  LET bound == {i \in DOMAIN at : pat.binds[at[i]].x # "_"}
  IN [x \in {pat.binds[at[i]].x : i \in bound} |->
        SubstTy(variant.fields[CHOOSE i \in bound : pat.binds[at[i]].x = x].ty, "gen", s)]

InferVariantPattern(c, pat, t, variant, fs) ==
  IF FieldsError(variant, pat.shape, fs) # "" THEN Fail(c, FieldsError(variant, pat.shape, fs))
  ELSE [c EXCEPT !.vars = PatternTypes(pat, variant, Positions(variant, pat.shape, fs),
                                       Assigning(TyDefs[pat.ty].gens, t.a)) @@ @]

\* The pattern of an arm: its variables get types.  t is the type matched on.
InferPattern(c, pat, t) ==
  CASE pat.n = "any"  -> c
    [] pat.n = "bind" -> [c EXCEPT !.vars = (pat.x :> t) @@ @]
    [] t.k # "def"    -> Fail(c, "MatchOnNonEnum")
    [] t.n # pat.ty   -> Fail(c, "VariantOfAnotherEnum")
    [] OTHER -> InferVariantPattern(c, pat, t, TyDefs[pat.ty].variants[VariantIndex(pat.ty, pat.v)],
                                    [i \in DOMAIN pat.binds |-> pat.binds[i].f])

IsCatchAll(pat) == pat.n \in {"any", "bind"}

\* All the patterns: none comes too late, and together they cover the type.
InferPatterns(c, pats, t) ==
  LET index(i) == VariantIndex(pats[i].ty, pats[i].v)
      late(i)  == \E j \in 1 .. (i - 1) :
                    IsCatchAll(pats[j]) \/ (~IsCatchAll(pats[i]) /\ index(i) = index(j))
      pattern(d, i) ==
        Then(d, LAMBDA d1 :
          IF \E j \in 1 .. (i - 1) : IsCatchAll(pats[j]) THEN Fail(d1, "UnreachableMatchArm")
          ELSE Then(InferPattern(d1, pats[i], t),
                    LAMBDA d2 : IF late(i) THEN Fail(d2, "UnreachableMatchArm") ELSE d2))
  IN Then(FoldLeftDomain(pattern, c, pats), LAMBDA d :
       CASE \E i \in DOMAIN pats : IsCatchAll(pats[i]) -> d
         [] t.k # "def" -> Fail(d, "MatchOnNonEnum")
         [] TyDefs[t.n].kind # "enum" -> Fail(d, "MatchOnNonEnum")
         [] {index(i) : i \in DOMAIN pats} # DOMAIN TyDefs[t.n].variants ->
              Fail(d, "NonExhaustiveMatch")
         [] OTHER -> d)

\* The type matched on and the patterns of the arms.
InferScrutinee(c, p, e) ==
  Then(InferExpr(c, Append(p, 1), e.scrut), LAMBDA d :
    InferPatterns(d, [i \in DOMAIN e.arms |-> e.arms[i].pat], Apply(d, d.ty)))

-----------------------------------------------------------------------------
(* Blocks and statements.  A statement yields the type that its returns    *)
(* give back on every way through it, NoTy when there is none.             *)

InferStmts(c, p, stmts, keep) ==
  FoldLeftDomain(LAMBDA d, i :
                   Then(d, LAMBDA d1 :
                     LET r == InferNode(d1, Append(p, i), stmts[i])
                     IN [r EXCEPT !.ty = IF keep /\ r.ty = NoTy THEN d1.ty ELSE r.ty]),
                 Yield(c, NoTy), stmts)

\* The last statement that returns counts.
InferBlockStmt(c, p, stmts) == InferStmts(c, p, stmts, TRUE)

InferBlockExpr(c, p, b) ==
  Then(InferStmts(c, p, b.stmts, FALSE), LAMBDA d : InferExpr(d, Append(p, 0), b.expr))

\* A statement without a type.
Quiet(c) == Then(c, LAMBDA d : Yield(d, NoTy))

InferIfStmt(c, p, e) ==
  Then(InferCond(c, p, e.cond), LAMBDA d :
  Then(InferBlockStmt(d, Append(p, 2), e.then), LAMBDA d1 :
    IF ~e.hasElse THEN Yield(d1, NoTy)
    ELSE Then(InferBlockStmt(d1, Append(p, 3), e.els), LAMBDA d2 :
           CASE NoTy \in {d1.ty, d2.ty} -> Yield(d2, NoTy)
             [] d1.ty = d2.ty -> d2
             [] OTHER -> Fail(d2, "TypeConfliced"))))

InferAssign(c, p, e) ==
  IF e.dst.n \notin {"var", "field"} THEN Fail(c, "InvalidAssignOperation")
  ELSE Then(InferNode(c, Append(p, 1), e.dst), LAMBDA d :
       Then(InferExpr(d, Append(p, 2), e.src), LAMBDA d1 : Unify(d1, d.ty, d1.ty)))

InferLet(c, p, e) ==
  Then(InferExpr(c, Append(p, 1), e.init), LAMBDA d :
    LET t == Apply(d, d.ty)
    IN [DependOnTy(d, t) EXCEPT !.vars = (e.x :> t) @@ @])

InferMatchExpr(c, p, e) ==
  Then(InferScrutinee(c, p, e), LAMBDA d :
    FoldLeftDomain(LAMBDA r, i :
                     Then(r, LAMBDA r1 :
                     Then(InferBlockExpr(r1, Append(p, i + 1), e.arms[i].body), LAMBDA r2 :
                       IF i = 1 THEN r2 ELSE Unify(r2, r1.ty, r2.ty))),
                   d, e.arms))

InferMatchStmt(c, p, e) ==
  Then(InferScrutinee(c, p, e), LAMBDA d :
    FoldLeftDomain(LAMBDA r, i :
                     Then(r, LAMBDA r1 : InferBlockStmt(r1, Append(p, i + 1), e.arms[i].body)),
                   d, e.arms))

InferIfExpr(c, p, e) ==
  Then(InferCond(c, p, e.cond), LAMBDA d :
  Then(InferBlockExpr(d, Append(p, 2), e.then), LAMBDA d1 :
  Then(InferBlockExpr(d1, Append(p, 3), e.els), LAMBDA d2 : Unify(d2, d1.ty, d2.ty))))

InferNode(c, p, e) ==
  CASE e.n = "lit"      -> Yield(c, e.ty)
    [] e.n = "var"      -> Yield(c, c.vars[e.x])
    [] e.n = "neg"      -> InferNeg(c, p, e)
    [] e.n = "bin"      -> InferBinary(c, p, e)
    [] e.n = "struct"   -> InferStruct(c, p, e)
    [] e.n = "variant"  -> InferVariant(c, p, e)
    [] e.n = "field"    -> InferMember(c, p, e)
    [] e.n = "call"     -> InferCall(c, p, e)
    [] e.n = "method"   -> InferMethod(c, p, e)
    [] e.n = "match"    -> InferMatchExpr(c, p, e)
    [] e.n = "ifexpr"   -> InferIfExpr(c, p, e)
    [] e.n = "blockexpr" -> InferBlockExpr(c, p, e)
    [] e.n = "let"      -> Quiet(InferLet(c, p, e))
    [] e.n = "if"       -> InferIfStmt(c, p, e)
    [] e.n = "block"    -> InferBlockStmt(c, p, e.stmts)
    [] e.n = "do"       -> Quiet(InferExpr(c, Append(p, 1), e.expr))
    [] e.n = "return"   -> Then(InferExpr(c, Append(p, 1), e.expr),
                                LAMBDA d : Unify(d, d.sig.rty, d.ty))
    [] e.n = "assign"   -> Quiet(InferAssign(c, p, e))
    [] e.n = "matchstmt" -> Quiet(InferMatchStmt(c, p, e))
    [] e.n = "while"    -> Quiet(Then(InferCond(c, p, e.cond), LAMBDA d :
                                   InferBlockStmt(d, Append(p, 2), e.stmts)))

-----------------------------------------------------------------------------
(* A whole function *)

\* Mutant: a bound is not checked.
SolveObligationFreely(c, ob) ==
  LET t == Resolve(c, ob.ty)
  IN IF t.k = "var" THEN Fail(c, "InsufficientContext") ELSE c

\* The obligations, each when the types that it is about are known.
SolveObligation(c, ob) ==
  LET t == Resolve(c, ob.ty)
  IN CASE t.k = "var" -> Fail(c, "InsufficientContext")
       [] ~BoundMet(c.sig, t, ob.bound) -> Fail(c, "TraitBoundNotSatisfied")
       [] OTHER -> c

SolveObligations(c) ==
  FoldLeft(LAMBDA d, ob : Then(d, LAMBDA d1 : SolveObligation(d1, ob)), c, c.obs)

\* The types of a signature need imports.
DependOnSig(c) ==
  FoldLeft(DependOnTy, c,
           (IF c.sig.self = NoTy THEN <<>> ELSE <<c.sig.self>>) \o c.sig.args \o <<c.sig.rty>>)

StartOf(f, reversed) ==
  LET sig == Fns[f].sig
      params == Assigning(Fns[f].params, sig.args)
  IN DependOnSig(
       [sig |-> sig, mod |-> Fns[f].mod, reversed |-> reversed,
        subst |-> NoSubst, next |-> 0, err |-> "", asg |-> NoSubst, ty |-> NoTy, tys |-> <<>>,
        exprs |-> <<>>, calls |-> <<>>, sites |-> <<>>, obs |-> <<>>, deps |-> {}, open |-> {},
        vars |-> params @@ (IF sig.self = NoTy THEN NoSubst ELSE "self" :> sig.self)])

\* The body [stmts, expr, hasExpr] gives back what its last expression is, or
\* its last statement.
InferBody(c, body) ==
  Then(InferStmts(c, <<>>, body.stmts, FALSE), LAMBDA d :
    CASE body.hasExpr -> Then(InferExpr(d, <<0>>, body.expr),
                              LAMBDA d1 : Unify(d1, d1.sig.rty, d1.ty))
      [] d.ty # NoTy -> Unify(d, d.sig.rty, d.ty)
      [] d.sig.rty = VoidTy -> d
      [] OTHER -> Fail(d, "ReturnTypeRequired"))

\* What is known of a function in the end: an error, or its tables.
Tables(c) ==
  LET all(table) == [x \in DOMAIN table |-> Resolve(c, table[x])]
  IN IF c.err # "" THEN [err |-> c.err]
     ELSE [err |-> "", exprs |-> all(c.exprs), vars |-> all(c.vars), deps |-> c.deps, open |-> c.open,
           calls |-> [p \in DOMAIN c.calls |-> all(c.calls[p])],
           sites |-> [i \in DOMAIN c.sites |->
                        [c.sites[i] EXCEPT !.self = IF @ = NoTy THEN NoTy ELSE Resolve(c, @)]]]

InferFnBody(f, body, reversed) ==
  Tables(Then(InferBody(StartOf(f, reversed), body), SolveObligations))
=============================================================================
