----------------------------- MODULE TypeRules -----------------------------
(***************************************************************************)
(* What it means for a body to be well typed, said without an algorithm:   *)
(* the types in the tables of the inference satisfy, at every node, the    *)
(* rule for its construct.  tab is what InferFnBody returns.  A type       *)
(* variable left in the tables is a type that nothing determines.          *)
(*                                                                         *)
(* Two rules are what the inference promises and not what the language     *)
(* would need: an operator met with an open operand may be on any type,    *)
(* and a bound is met by an implementation for the head of the type.       *)
(***************************************************************************)
EXTENDS TypeInference

At(tab, p, i) == tab.exprs[Append(p, i)]

\* The types of the arguments, at p \o <<1>> and on.
ArgTypes(tab, p, args) == [i \in DOMAIN args |-> At(tab, p, i)]

CallGenargs(tab, p) == IF p \in DOMAIN tab.calls THEN tab.calls[p] ELSE NoSubst

\* The operator at p is on one of these types, unless its operand was open.
OperatesOn(tab, p, S) == p \in tab.open \/ At(tab, p, 1) \in S

\* The call instantiates the signature: with what is recorded for its generic
\* types, the parameters have the types of the arguments, and the result its.
CallOk(tab, sig, p, callee, params, args, t) ==
  LET s == CallGenargs(tab, p) IN
  /\ DOMAIN s \subseteq GenIds(AllGens(callee))
  /\ [i \in DOMAIN params |-> SubstTy(params[i], "loc", s)] = args
  /\ SubstTy(callee.rty, "loc", s) = t

BoundsOk(tab, sig, p, callee) ==
  LET s == CallGenargs(tab, p) IN
  \A i \in DOMAIN AllGens(callee) :
    LET g == AllGens(callee)[i] IN
    g.id \in DOMAIN s => \A b \in ToSet(g.bounds) : BoundMet(sig, s[g.id], b)

\* The fields have the types that the definition declares, at the arguments.
FieldsOk(tab, p, fields, t, declared) ==
  \A i \in DOMAIN fields :
    At(tab, p, i) = SubstTy(declared[fields[i].f], "gen", Assigning(TyDefs[t.n].gens, t.a))

DeclaredFields(ty, v) ==
  LET fields == TyDefs[ty].variants[VariantIndex(ty, v)].fields
  IN [f \in {fields[i].f : i \in DOMAIN fields} |->
        fields[CHOOSE i \in DOMAIN fields : fields[i].f = f].ty]

PatternOk(tab, pat, t) ==
  CASE pat.n = "any"  -> TRUE
    [] pat.n = "bind" -> tab.vars[pat.x] = t
    [] OTHER ->
         /\ t.k = "def" /\ t.n = pat.ty
         /\ \A i \in DOMAIN pat.binds :
              pat.binds[i].x # "_" =>
                tab.vars[pat.binds[i].x] =
                  SubstTy(DeclaredFields(pat.ty, pat.v)[pat.binds[i].f], "gen",
                          Assigning(TyDefs[t.n].gens, t.a))

\* Some arm takes every value.
ArmsCover(arms, t) ==
  \/ \E i \in DOMAIN arms : IsCatchAll(arms[i].pat)
  \/ {arms[i].pat.v : i \in DOMAIN arms} =
       {TyDefs[t.n].variants[i].name : i \in DOMAIN TyDefs[t.n].variants}

\* The rule of the node itself.
CallRule(tab, sig, p, e, t) ==
  LET args == ArgTypes(tab, p, e.args) IN
  CASE e.kind = "fn" ->
         /\ CallOk(tab, sig, p, Fns[e.f].sig, Fns[e.f].sig.args, args, t)
         /\ BoundsOk(tab, sig, p, Fns[e.f].sig)
    [] e.kind = "assoc" ->
         LET callee == Fns[e.f].sig IN
         /\ CallOk(tab, sig, p, callee, callee.args, args, t)
         /\ BoundsOk(tab, sig, p, callee)
         /\ IsUsable(callee.implSelf, e.self) =>
              SubstTy(callee.implSelf, "loc", CallGenargs(tab, p)) = e.self
    [] e.kind = "trait" ->
         LET callee == TraitItemSig(sig, e.f, e.self)
         IN CallOk(tab, sig, p, callee, callee.args, args, t)
    [] OTHER -> tab.vars[e.f] = Fn(args, t)

MethodRule(tab, sig, p, e, t) ==
  LET target == tab.sites[CHOOSE i \in DOMAIN tab.sites : tab.sites[i].path = p].to
      left   == At(tab, p, 0)
      callee == IF target.kind = "trait" THEN TraitItemSig(sig, target.item, left)
                ELSE Fns[target.fn].sig
  IN /\ CallOk(tab, sig, p, callee, <<callee.self>> \o callee.args,
               <<left>> \o ArgTypes(tab, p, e.args), t)
     /\ target.kind = "fn" => BoundsOk(tab, sig, p, callee)

RECURSIVE NodeOk(_, _, _, _)

StmtsOk(tab, sig, p, stmts) ==
  \A i \in DOMAIN stmts : NodeOk(tab, sig, Append(p, i), stmts[i])

BlockOk(tab, sig, p, b) ==
  StmtsOk(tab, sig, p, b.stmts) /\ NodeOk(tab, sig, Append(p, 0), b.expr)

\* The type of the block's expression.
BlockTy(tab, p) == At(tab, p, 0)

CondOk(tab, sig, p, e) == NodeOk(tab, sig, Append(p, 1), e.cond) /\ At(tab, p, 1) = BoolTy

\* The type of what is assigned to, which is not noted for itself.
PlaceTy(tab, p, e) ==
  IF e.n = "var" THEN tab.vars[e.x]
  ELSE LET t == At(tab, p, 1)
       IN SubstTy(TyDefs[t.n].members[e.f], "gen", Assigning(TyDefs[t.n].gens, t.a))

NodeOk(tab, sig, p, e) ==
  LET t == tab.exprs[p]
      argsOk(es) == \A i \in DOMAIN es : NodeOk(tab, sig, Append(p, i), es[i])
      first(x) == NodeOk(tab, sig, Append(p, 1), x)
  IN
  CASE e.n = "lit" -> t = e.ty
    [] e.n = "var" -> t = tab.vars[e.x]
    [] e.n = "neg" -> first(e.right) /\ t = At(tab, p, 1) /\ OperatesOn(tab, p, Numeric)
    [] e.n = "bin" ->
         /\ argsOk(<<e.left, e.right>>)
         /\ At(tab, p, 1) = At(tab, p, 2)
         /\ OperatesOn(tab, p, OperandTys(e.op))
         /\ t = IF e.op = "arith" THEN At(tab, p, 1) ELSE BoolTy
    [] e.n = "struct" ->
         /\ argsOk([i \in DOMAIN e.members |-> e.members[i].e])
         /\ t.k = "def" /\ t.n = e.ty
         /\ {e.members[i].f : i \in DOMAIN e.members} = DOMAIN TyDefs[e.ty].members
         /\ FieldsOk(tab, p, e.members, t, TyDefs[e.ty].members)
    [] e.n = "variant" ->
         /\ argsOk([i \in DOMAIN e.args |-> e.args[i].e])
         /\ t.k = "def" /\ t.n = e.ty
         /\ {e.args[i].f : i \in DOMAIN e.args} = DOMAIN DeclaredFields(e.ty, e.v)
         /\ FieldsOk(tab, p, e.args, t, DeclaredFields(e.ty, e.v))
    [] e.n = "field" -> first(e.left) /\ t = PlaceTy(tab, p, e)
    [] e.n = "call" -> argsOk(e.args) /\ CallRule(tab, sig, p, e, t)
    [] e.n = "method" ->
         /\ NodeOk(tab, sig, Append(p, 0), e.left)
         /\ argsOk(e.args)
         /\ MethodRule(tab, sig, p, e, t)
    [] e.n = "match" ->
         /\ first(e.scrut)
         /\ ArmsCover(e.arms, At(tab, p, 1))
         /\ \A i \in DOMAIN e.arms :
              /\ PatternOk(tab, e.arms[i].pat, At(tab, p, 1))
              /\ BlockOk(tab, sig, Append(p, i + 1), e.arms[i].body)
              /\ BlockTy(tab, Append(p, i + 1)) = t
    [] e.n = "ifexpr" ->
         /\ CondOk(tab, sig, p, e)
         /\ BlockOk(tab, sig, Append(p, 2), e.then) /\ BlockTy(tab, Append(p, 2)) = t
         /\ BlockOk(tab, sig, Append(p, 3), e.els) /\ BlockTy(tab, Append(p, 3)) = t
    [] e.n = "blockexpr" -> BlockOk(tab, sig, p, e) /\ BlockTy(tab, p) = t
    [] e.n = "let" -> first(e.init) /\ tab.vars[e.x] = At(tab, p, 1)
    [] e.n = "if" ->
         /\ CondOk(tab, sig, p, e)
         /\ StmtsOk(tab, sig, Append(p, 2), e.then)
         /\ StmtsOk(tab, sig, Append(p, 3), e.els)
    [] e.n = "block" -> StmtsOk(tab, sig, p, e.stmts)
    [] e.n = "do" -> first(e.expr)
    [] e.n = "return" -> first(e.expr) /\ At(tab, p, 1) = sig.rty
    [] e.n = "assign" ->
         /\ NodeOk(tab, sig, Append(p, 2), e.src)
         /\ e.dst.n = "field" => NodeOk(tab, sig, Append(Append(p, 1), 1), e.dst.left)
         /\ At(tab, p, 2) = PlaceTy(tab, Append(p, 1), e.dst)
    [] e.n = "matchstmt" ->
         /\ first(e.scrut)
         /\ ArmsCover(e.arms, At(tab, p, 1))
         /\ \A i \in DOMAIN e.arms :
              /\ PatternOk(tab, e.arms[i].pat, At(tab, p, 1))
              /\ StmtsOk(tab, sig, Append(p, i + 1), e.arms[i].body)
    [] e.n = "while" -> CondOk(tab, sig, p, e) /\ StmtsOk(tab, sig, Append(p, 2), e.stmts)

\* Every way through the statement comes to a return.
RECURSIVE Returns(_)
Returns(s) ==
  LET returns(stmts) == \E i \in DOMAIN stmts : Returns(stmts[i])
  IN CASE s.n = "return" -> TRUE
       [] s.n = "if"     -> s.hasElse /\ returns(s.then) /\ returns(s.els)
       [] s.n = "block"  -> returns(s.stmts)
       [] OTHER          -> FALSE

-----------------------------------------------------------------------------
(* Bounds, as the program needs them met *)

\* An implementation of the trait for the type itself, not only for its head,
\* and for the arguments that the bound gives the trait.
BoundFits(sig, t, bound) ==
  IF t.k = "loc" THEN BoundMet(sig, t, bound)
  ELSE \E i \in DOMAIN Impls :
         LET matched == MatchAll([ok |-> TRUE, s |-> NoSubst], Impls[i].args, t.a) IN
         /\ Impls[i].on = DefOf(t) /\ Impls[i].trait = bound.trait
         /\ matched.ok
         /\ [j \in DOMAIN Impls[i].targs |-> SubstTy(Impls[i].targs[j], "loc", matched.s)]
              = bound.args

\* At the calls of functions, a bound that the head of a type meets fits the
\* type itself.
HeadsDecideIn(tab, sig) ==
  \A i \in {i \in DOMAIN tab.sites : tab.sites[i].to.kind = "fn"} :
    LET s    == CallGenargs(tab, tab.sites[i].path)
        gens == AllGens(Fns[tab.sites[i].to.fn].sig)
    IN \A j \in {j \in DOMAIN gens : gens[j].id \in DOMAIN s} :
         \A b \in ToSet(gens[j].bounds) :
           BoundMet(sig, s[gens[j].id], b) => BoundFits(sig, s[gens[j].id], b)

-----------------------------------------------------------------------------

WellTyped(tab, sig, body) ==
  /\ StmtsOk(tab, sig, <<>>, body.stmts)
  /\ IF body.hasExpr
     THEN NodeOk(tab, sig, <<0>>, body.expr) /\ tab.exprs[<<0>>] = sig.rty
     ELSE sig.rty # VoidTy => \E i \in DOMAIN body.stmts : Returns(body.stmts[i])
=============================================================================
