---------------------------- MODULE NameLowering ----------------------------
(***************************************************************************)
(* The lowering of a package whose names are resolved: the expansion of    *)
(* aliases and the check of the implementations of traits.                 *)
(***************************************************************************)
EXTENDS NamePasses

\* The aliases of the package: their generic types and their right.
AliasDefs(p, r) ==
  [n \in {NameAt(p, at) : at \in ToSet(PlacesOf(p, {"alias"}))} |->
     LET at == CHOOSE at \in ToSet(PlacesOf(p, {"alias"})) : NameAt(p, at) = n
     IN  [gens |-> [i \in DOMAIN At(p, at).gens |-> In(n, At(p, at).gens[i])],
          ty |-> TypeOf(p, r, at, "ty", InferTy)]]

\* Generic types beyond the arguments given stay as they are.
AssigningFirst(gens, args) ==
  Assigning(SubSeq(gens, 1, IF Len(gens) < Len(args) THEN Len(gens) ELSE Len(args)), args)

RECURSIVE ExpandTy(_, _)
ExpandAlias(alias, args, aliases) ==
  ExpandTy(SubstTy(alias.ty, "gen", AssigningFirst(alias.gens, args)), aliases)

ExpandTy(t, aliases) ==
  IF t.k = "def" /\ t.n \in DOMAIN aliases
  THEN ExpandAlias(aliases[t.n], [i \in DOMAIN t.a |-> ExpandTy(t.a[i], aliases)], aliases)
  ELSE [t EXCEPT !.a = [i \in DOMAIN t.a |-> ExpandTy(t.a[i], aliases)]]

AliasRefs(t, aliases) == NamesIn(t, "def") \intersect DOMAIN aliases

\* The aliases that are reached from those in ns.
RECURSIVE AliasesFrom(_, _)
AliasesFrom(ns, aliases) ==
  LET more == ns \union UNION {AliasRefs(aliases[n].ty, aliases) : n \in ns}
  IN  IF more = ns THEN ns ELSE AliasesFrom(more, aliases)

IsCyclic(n, aliases) == n \in AliasesFrom(AliasRefs(aliases[n].ty, aliases), aliases)
ExpansionEnds(t, aliases) ==
  \A n \in AliasesFrom(AliasRefs(t, aliases), aliases) : ~IsCyclic(n, aliases)

-----------------------------------------------------------------------------
(* Pass 1: the definitions of types.  Self in one was resolved, but has no *)
(* meaning here.                                                           *)

LowerTypeDefs(p, r) ==
  IF \E at \in ToSet(PlacesOf(p, {"struct", "enum", "alias"})) :
       \E i \in DOMAIN At(p, at).typs : MentionsSelf(At(p, at), At(p, at).typs[i])
  THEN Stop(r, SelfOutside) ELSE r

\* The calls in the bodies of a global have to be of values.
IsValue(d) == d.k \in {"val", "variant", "var", "assoc"}

LowerUses(p, r, at) ==
  LET called == {KindOf(r, IdOf(at, u)) : u \in ToSet(At(p, at).uses)}
  IN  IF Unset \in called THEN Stop(r, Unresolved)
      ELSE [r EXCEPT !.errs = @ \/ \E d \in called : ~IsValue(d)]

\* Pass 2: an impl block.  Its target is expanded first.
NoId == "panic: an item has no id"

LowerImpl(p, r, at, aliases) ==
  CASE ~ExpansionEnds(TargetOf(p, r, at), aliases) -> Stop(r, Overflow)
    [] ExpansionEnds(TargetOf(p, r, at), aliases) /\ at \notin r.ids
         /\ At(p, at).items # <<>> -> Stop(r, NoId)
    [] OTHER -> LowerUses(p, r, at)

-----------------------------------------------------------------------------
(* Pass 2.5: is an implementation what the trait declares?                 *)

Signature(p, r, at, f, self) ==
  [self |-> At(p, at).items[f].self, tys |-> TypesOf(p, r, at, At(p, at).items[f].sig, self)]

SelfGen(trait) == In(trait, "Self")
TraitPlace(p, n) ==
  CHOOSE x \in UNION {{<<mod, i>> : i \in DOMAIN p[mod]} : mod \in DOMAIN p} :
    At(p, x).k = "trait" /\ NameAt(p, x) = n

\* Self is the target, which is taken for a defined type even if it is a
\* primitive one; the generic types of the trait are its arguments.
TraitAssigns(p, x, n, target, targs) ==
  (SelfGen(n) :> Defined(DefOf(target), target.a))
    @@ AssigningFirst([i \in DOMAIN At(p, x).gens |-> In(n, At(p, x).gens[i])], targs)

SubstSignature(sig, assigns) ==
  [sig EXCEPT !.tys = [i \in DOMAIN @ |-> SubstTy(@[i], "gen", assigns)]]

\* Mutant: the types of the two signatures are compared as far as both go.
ConformsZipped(p, r, at, x, n, target, targs) ==
  /\ DOMAIN At(p, at).items = DOMAIN At(p, x).items
  /\ \A f \in DOMAIN At(p, at).items :
       LET mine == Signature(p, r, at, f, target)
           its  == SubstSignature(Signature(p, r, x, f, Gen(SelfGen(n))),
                                  TraitAssigns(p, x, n, target, targs))
       IN  /\ mine.self = its.self
           /\ \A i \in DOMAIN mine.tys \intersect DOMAIN its.tys : mine.tys[i] = its.tys[i]

\* The implementation at, of the trait n declared at x, for the target.
Conforms(p, r, at, x, n, target, targs) ==
  /\ DOMAIN At(p, at).items = DOMAIN At(p, x).items
  /\ \A f \in DOMAIN At(p, at).items :
       Signature(p, r, at, f, target)
         = SubstSignature(Signature(p, r, x, f, Gen(SelfGen(n))),
                          TraitAssigns(p, x, n, target, targs))

CheckTraitImpl(p, r, imp, target) ==
  [r EXCEPT !.errs = @ \/ ~Conforms(p, r, imp.at, TraitPlace(p, imp.trait), imp.trait,
                                    target, imp.targs)]

\* The implementations in dependencies were checked there.
CheckTraitImpls(p, r, aliases) ==
  FoldSet(LAMBDA imp, s : CheckTraitImpl(p, s, imp, ExpandTy(TargetOf(p, s, imp.at), aliases)),
          r, {imp \in r.impls : imp.at[1] \in ToSet(OwnMods)})

-----------------------------------------------------------------------------

Going(r, s) == IF r.stop # "" THEN r ELSE s

LowerImpls(p, r, aliases) ==
  FoldLeft(LAMBDA s, at : Going(s, LowerImpl(p, s, at, aliases)), r, PlacesOf(p, {"impl"}))
LowerFns(p, r) ==
  FoldLeft(LAMBDA s, at : Going(s, LowerUses(p, s, at)), r, PlacesOf(p, {"fn"}))

\* Pass 5: aliases that refer to themselves through arguments.
ExpandAliases(r, aliases) ==
  [r EXCEPT !.errs = @ \/ \E n \in DOMAIN aliases : IsCyclic(n, aliases)]

\* All of the passes.  Pass 2.5 comes before the cycles are looked for, too.
LowerAfter1(p, r, aliases) ==
  LET Checked(s)  == Going(s, CheckTraitImpls(p, s, aliases))
      Lowered(s)  == Going(s, LowerFns(p, s))
      Expanded(s) == IF s.stop # "" \/ s.errs THEN s ELSE ExpandAliases(s, aliases)
  IN  Expanded(Lowered(Checked(LowerImpls(p, r, aliases))))

Lower(p, r) == Going(LowerTypeDefs(p, r), LowerAfter1(p, r, AliasDefs(p, r)))
=============================================================================
