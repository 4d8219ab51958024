----------------------------- MODULE NamePasses -----------------------------
(***************************************************************************)
(* The passes over a package before it is lowered.  Each takes the state   *)
(* of the resolver, and the passes over globals one global at a time.      *)
(*                                                                         *)
(* The fields of the state: cell, tree, traits (a trait :> the names of    *)
(* its items), items (the associated items that were declared), direct (an *)
(* alias :> the type its right names), alias (an alias :> the type at the  *)
(* end of the chain), impls (the implementations of traits), ids (the impl *)
(* blocks whose items have an id), seen and taken (the implementations and *)
(* the names of their items, to find duplicates), scope (the traits in     *)
(* scope in the module that is resolved).                                  *)
(***************************************************************************)
EXTENDS NameContexts

ValueOf(at, name) == Def("val", In(In(at[1], ToString(at[2])), name))

\* What the metadata of the dependencies says of impl blocks.
DepImpls(p) ==
  {x \in UNION {{<<mod, i>> : i \in DOMAIN p[mod]} : mod \in DOMAIN p \ ToSet(OwnMods)} :
     At(p, x).k = "impl"}
NamedBeside(at, g, tag) == In(at[1], g.paths[tag].segs[1])

DepItems(p) ==
  UNION {{Item(NamedBeside(x, At(p, x), "ty"), f, <<>>, ValueOf(x, f)) :
            f \in DOMAIN At(p, x).items} :
         x \in {x \in DepImpls(p) : ~IsTraitImpl(At(p, x))}}

\* The implementation of a trait in the impl block at.
Implementation(t, trait, args, targs, names, at) ==
  [t |-> t, trait |-> trait, args |-> args, targs |-> targs,
   vals |-> [f \in names |-> ValueOf(at, f)], at |-> at]

DepTraitImpls(p) ==
  {Implementation(NamedBeside(x, At(p, x), "ty"), NamedBeside(x, At(p, x), "trait"), <<>>, <<>>,
                  DOMAIN At(p, x).items, x) :
     x \in {x \in DepImpls(p) : IsTraitImpl(At(p, x))}}

OwnIds(p) ==
  UNION {UNION {{<<mod, i, tag>> : tag \in DOMAIN p[mod][i].paths} : i \in DOMAIN p[mod]} :
         mod \in ToSet(OwnMods)}

\* The items of the traits that are declared in these modules.
TraitItems(p, mods) ==
  LET traits == UNION {{<<mod, i>> : i \in {i \in DOMAIN p[mod] : p[mod][i].k = "trait"}} :
                       mod \in mods}
  IN  [n \in {NameAt(p, x) : x \in traits} |->
         DOMAIN At(p, CHOOSE x \in traits : NameAt(p, x) = n).items]

\* Step 1: the tree of names, the ids.  The passes that collect know only the
\* items of the traits of dependencies.
Collect(p) ==
  [cell |-> [id \in OwnIds(p) |-> [i \in DOMAIN PathOf(p, id).segs |-> Unset]],
   tree |-> NameTree(p), traits |-> TraitItems(p, DOMAIN p \ ToSet(OwnMods)),
   items |-> VariantItems(p) \union DepItems(p), direct |-> <<>>, alias |-> <<>>,
   impls |-> DepTraitImpls(p), ids |-> {}, seen |-> {}, taken |-> {}, scope |-> {},
   ok |-> TRUE, errs |-> \E mod \in ToSet(OwnMods) : HasDuplicates(p, mod), stop |-> ""]

OwnTypes(r) == UNION {{d.n : d \in {d \in Range(r.tree[mod]) : d.k = "ty"}} :
                      mod \in ToSet(OwnMods)}
OwnTraits(r) == UNION {{d.n : d \in {d \in Range(r.tree[mod]) : d.k = "trait"}} :
                       mod \in ToSet(OwnMods)}

-----------------------------------------------------------------------------
(* Step 2: the type that the right of an alias names, without its          *)
(* arguments and not in the context of the alias: its generic types are    *)
(* not known here.                                                         *)

RecordTarget(p, r, at, d) ==
  IF r.ok /\ d.k = "ty" THEN [r EXCEPT !.direct = (NameAt(p, at) :> d.n) @@ @] ELSE r

\* A module whose imports clash is left, and with it its child modules.
LeftOut(p, r, mod) ==
  \E m \in ToSet(OwnMods) : ImportClashes(p, r.tree, m) /\ mod \in ToSet(ModulesUnder(m))

AliasStep(p, r, at) ==
  LET id == IdOf(at, "ty")
      Targeted(s) == RecordTarget(p, Tally(s), at, Last(s.cell[id]))
  IN  IF IsKeyword(PathOf(p, id)) \/ LeftOut(p, r, at[1]) THEN r
      ELSE Targeted(ResolvePath(p, r, at[1], id, {}))

RECURSIVE EndOfChain(_, _, _)
EndOfChain(direct, n, fuel) ==
  IF fuel = 0 \/ n \notin DOMAIN direct THEN n ELSE EndOfChain(direct, direct[n], fuel - 1)

\* The chains of aliases, unless one comes back to itself.
LinkAliases(p, r) ==
  LET ends == [n \in DOMAIN r.direct |->
                 EndOfChain(r.direct, n, Cardinality(DOMAIN r.direct))]
  IN  IF \E n \in DOMAIN ends : ends[n] \in DOMAIN r.direct
      THEN [r EXCEPT !.errs = TRUE]
      ELSE [r EXCEPT !.alias = ends,
                     !.errs = @ \/ \E m \in ToSet(OwnMods) : ImportClashes(p, r.tree, m)]

-----------------------------------------------------------------------------
(* Impl blocks *)

\* The bounds are resolved before the target, and read after it.
EnterImpl(p, r, at) ==
  LET g == At(p, at)
      Target(s) == IF s.ok THEN ResolveTyp(p, s, PreImplCtx(at, g), at, "ty") ELSE s
      Bounded(s) == IF s.ok THEN ReadBounds(s, at, g) ELSE s
  IN  Bounded(Target(ResolveBounds(p, r, PreImplCtx(at, g), at, g)))

TargetOf(p, r, at) == TypeOf(p, r, at, "ty", InferTy)

ImplCtx(p, r, at) ==
  [PreImplCtx(at, At(p, at)) EXCEPT
     !.bounds = BoundTraits(r, at, At(p, at)),
     !.self   = IF TargetOf(p, r, at).k = "def" THEN "impl" ELSE "other"]

\* Two arguments that are one definition applied to different numbers of
\* arguments: to compare them panics.
RECURSIVE ArityPanics(_, _)
ArityPanics(ss, ts) ==
  /\ Len(ss) = Len(ts)
  /\ \E i \in DOMAIN ss :
       /\ \A j \in 1..(i - 1) : Overlaps(ss[j], ts[j])
       /\ ss[i].k = "def" /\ ts[i].k = "def" /\ ss[i].n = ts[i].n
       /\ Len(ss[i].a) # Len(ts[i].a) \/ ArityPanics(ss[i].a, ts[i].a)

ArityPanic == "panic: numbers of generic arguments"

\* Mutant: blocks with other arguments never meet.
ClashOfEquals(x, y) == x.t = y.t /\ x.name = y.name /\ x.args = y.args

\* Two items of that name that a type could have both.
ItemClash(x, y) ==
  /\ x.t = y.t /\ x.name = y.name
  /\ "variant" \in {x.d.k, y.d.k} \/ OverlapAll(x.args, y.args)

RegisterItems(r, new) ==
  IF \E x \in r.items, y \in new :
       /\ x.t = y.t /\ x.name = y.name /\ x.d.k # "variant"
       /\ ArityPanics(x.args, y.args)
  THEN Stop(r, ArityPanic)
  ELSE LET bad == {y \in new : \E x \in r.items : ItemClash(x, y)}
       IN  [r EXCEPT !.items = @ \union (new \ bad), !.errs = @ \/ bad # {}]

\* Step 3: the items of a direct impl block become items of its target.  Of
\* a type of a dependency nothing is registered, and the ids are not set.
DirectTarget(p, r, at, target) ==
  LET t == Canonical(r, target.n)
      new == {Item(t, f, target.a, ValueOf(at, f)) : f \in DOMAIN At(p, at).items}
      s == [r EXCEPT !.ids = @ \union {at}]
  IN  CASE target.k # "def" -> s
        [] target.k = "def" /\ t \notin OwnTypes(r) -> r
        [] OTHER -> RegisterItems(s, new)

ImplStep(p, r, at) ==
  LET Entered(s) == IF s.ok THEN DirectTarget(p, s, at, TargetOf(p, s, at)) ELSE Tally(s)
  IN  Entered(EnterImpl(p, r, at))

-----------------------------------------------------------------------------
(* Step 4: the impl blocks for traits *)

\* Neither the trait nor the type belongs to this package.
IsOrphan(r, t, trait) == t \notin OwnTypes(r) /\ trait \notin OwnTraits(r)

TypeHasItem(r, t, name) == ItemsNamed(r, t, name) # {}

RegisterImpl(r, new) ==
  LET names == DOMAIN new.vals
      clashing == {f \in names : TypeHasItem(r, new.t, f) \/ <<new.t, f>> \in r.taken}
  IN  [r EXCEPT !.impls = @ \union {new}, !.ids = @ \union {new.at},
                !.seen = @ \union {[t |-> new.t, trait |-> new.trait, args |-> new.args]},
                !.taken = @ \union {<<new.t, f>> : f \in names},
                !.errs = @ \/ clashing # {}]

AddTraitImpl(r, new) ==
  LET rivals == {x \in r.seen : x.t = new.t /\ x.trait = new.trait}
  IN  CASE new.t = NoDef \/ IsOrphan(r, new.t, new.trait) -> Tally(Fail(r))
        [] \E x \in rivals : ArityPanics(x.args, new.args) -> Stop(r, ArityPanic)
        [] \E x \in rivals : OverlapAll(x.args, new.args) -> Tally(Fail(r))
        [] OTHER -> RegisterImpl(r, new)

\* The target, an alias standing for the type at the end of its chain; what
\* can have no implementation has none.
TraitTarget(r, target) ==
  IF target.k = "def" THEN Canonical(r, target.n) ELSE DefOf(target)

TraitRef(p, r, at, g, d, target) ==
  CASE d.k # "trait" -> Tally(Fail(r))
    [] d.k = "trait" /\ \E i \in DOMAIN g.args["trait"] : MentionsSelf(g, g.args["trait"][i]) ->
         Stop(r, SelfOutside)
    [] OTHER -> AddTraitImpl(r, Implementation(
                  TraitTarget(r, target), d.n, IF target.k = "def" THEN target.a ELSE <<>>,
                  TypesOf(p, r, at, g.args["trait"], InferTy), DOMAIN g.items, at))

TraitImplStep(p, r, at) ==
  LET id == IdOf(at, "trait")
      Named(s) == IF s.ok THEN ResolveTraitTyp(p, s, ImplCtx(p, s, at), at, "trait") ELSE s
      Checked(s) == IF s.ok THEN TraitRef(p, s, at, At(p, at), KindOf(s, id), TargetOf(p, s, at))
                    ELSE Tally(s)
  IN  Checked(Read(Named(EnterImpl(p, r, at)), id))

-----------------------------------------------------------------------------
(* The resolution of a module.  No trait is in scope while the imports are *)
(* resolved, in an arbitrary order.                                        *)

PrepareScope(p, r, mod, imports) ==
  LET Import(a, s, id) ==
        [r |-> Tally(s),
         traits |-> IF s.ok /\ KindOf(s, id).k = "trait"
                    THEN a.traits \union {KindOf(s, id).n} ELSE a.traits]
      all == FoldLeft(LAMBDA a, i :
                        IF a.r.stop # "" THEN a
                        ELSE Import(a, Read(ResolvePath(p, a.r, mod, <<mod, i, "path">>, {}),
                                            <<mod, i, "path">>), <<mod, i, "path">>),
                      [r |-> [r EXCEPT !.scope = {}],
                       traits |-> {d.n : d \in {d \in Range(r.tree[mod]) : d.k = "trait"}}],
                      imports)
  IN  [all.r EXCEPT !.scope = all.traits]

\* Generic types with one name, or bounds where they are not supported.
BadGens(g)   == Cardinality(ToSet(g.gens)) < Len(g.gens)
HasBounds(g) == BoundTags(g) # <<>>

ResolveTypeDef(p, r, at, c) ==
  IF BadGens(At(p, at)) \/ HasBounds(At(p, at)) THEN Fail(r)
  ELSE ResolveTyps(p, Succeed(r), c, at, At(p, at).typs)

\* The types of the items and the calls in their bodies.
ResolveItems(p, r, c, at) ==
  FoldLeft(LAMBDA s, u : IF s.stop # "" THEN s ELSE And(s, ResolveIn(p, s, c, IdOf(at, u))),
           ResolveTyps(p, r, c, at, At(p, at).typs), At(p, at).uses)

ResolveImpl(p, r, at) ==
  LET Entered(s) == IF s.ok THEN ResolveItems(p, s, ImplCtx(p, s, at), at) ELSE s
  IN  Entered(EnterImpl(p, r, at))

\* The bounds are read even if one was not resolved.
EnterFn(p, r, at) ==
  LET g == At(p, at)
  IN  Failing(ReadBounds(ResolveBounds(p, r, PreFnCtx(at, g), at, g), at, g), BadGens(g))

FnCtx(p, r, at) ==
  [PreFnCtx(at, At(p, at)) EXCEPT !.bounds = BoundTraits(r, at, At(p, at))]

ResolveFn(p, r, at) ==
  LET Entered(s) == IF s.ok THEN ResolveItems(p, s, FnCtx(p, s, at), at) ELSE s
  IN  Entered(EnterFn(p, r, at))

\* There is nothing left to resolve in an import.
ResolveDef(p, r, at) ==
  LET g == At(p, at)
  IN  CASE g.k = "import" -> Succeed(r)
        [] OTHER -> Tally(ResolveTypeDef(p, r, at, IF g.k = "trait" THEN TraitCtx(at, g)
                                                   ELSE TyDefCtx(at, g)))
=============================================================================
