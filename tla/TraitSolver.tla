---------------------------- MODULE TraitSolver ----------------------------
(***************************************************************************)
(* The program that the types of a body are inferred in, as TyCtx sees it, *)
(* and the search for the function that a method names: among the direct   *)
(* implementations, then among those of the traits in scope, and for a     *)
(* receiver of a generic type among the traits it is bounded by.           *)
(*                                                                         *)
(* A declaration of a package is in these tables as it is in its sources;  *)
(* that a dependency's come from its metadata makes no difference here.    *)
(***************************************************************************)
EXTENDS Unification, Hir

CONSTANTS
  TyDefs,     \* name :> [kind, gens, members, variants]
  Fns,        \* function :> [sig, mod, trait, on, name, body]
  Traits,     \* trait :> [gens, items], items being item :> signature
  Impls,      \* sequence of [on, trait, args, targs, vals]
  InScope,    \* module :> the traits declared or imported in it
  Foreign     \* the types and functions of other packages

GenIds(gens) == {gens[i].id : i \in DOMAIN gens}

\* The generic type that stands for Self in the declaration of a trait.
SelfGen(trait) == trait \o ".Self"

BoundsOf(sig, id) ==
  LET with == SelectSeq(AllGens(sig), LAMBDA g : g.id = id)
  IN IF with = <<>> THEN <<>> ELSE with[1].bounds

-----------------------------------------------------------------------------

\* The indices of the implementations of item m for the type.
ImplsWith(t, m) ==
  {i \in DOMAIN Impls : /\ Impls[i].on = DefOf(t)
                        /\ m \in DOMAIN Impls[i].vals
                        /\ OverlapAll(Impls[i].args, t.a)}

\* What a method means: a function, an item of a trait, or an error.
Direct(f)       == [kind |-> "fn", fn |-> f]
ByTrait(tr, m)  == [kind |-> "trait", item |-> <<tr, m>>]
NoMethod(e)     == [kind |-> "error", err |-> e]

\* Of the bounds, those whose trait has the item.
SolveInBounds(with, m) ==
  CASE Len(with) = 1 -> ByTrait(with[1].trait, m)
    [] with = <<>>   -> NoMethod("MethodNotFound")
    [] OTHER         -> NoMethod("AmbiguousMethod")

\* Of the implementations, those of a trait in scope.
SolveInScope(all, scope, m) ==
  CASE Cardinality(scope) = 1 -> Direct(Impls[CHOOSE i \in scope : TRUE].vals[m])
    [] Cardinality(scope) > 1 -> NoMethod("AmbiguousMethod")
    [] OTHER -> NoMethod(IF all = {} THEN "MethodNotFound" ELSE "MethodNotInScope")

SolveMethod(t, m, mod, bounds) ==
  LET inScope(all) == {i \in all : Impls[i].trait \in InScope[mod]}
      solve(all)   == SolveInScope(all, inScope(all), m)
  IN IF t.k = "loc"
     THEN SolveInBounds(SelectSeq(bounds, LAMBDA b : m \in DOMAIN Traits[b.trait].items), m)
     ELSE solve(ImplsWith(t, m))

\* A trait's implementations count only when there is no direct one.
MethodAmong(direct, t, m, mod, bounds) ==
  CASE Cardinality(direct) = 1 -> Direct(CHOOSE f \in direct : TRUE)
    [] Cardinality(direct) > 1 -> NoMethod("panic")
    [] t.k \notin {"loc", "gen"} /\ DefOf(t) = NoDef -> NoMethod("MethodNotFound")
    [] OTHER -> SolveMethod(t, m, mod, bounds)

\* The functions for the type itself that have the name.
DirectFns(t, m) ==
  {f \in DOMAIN Fns : /\ Fns[f].on = DefOf(t) /\ Fns[f].on # NoDef
                      /\ Fns[f].name = m
                      /\ Fns[f].trait = NoDef
                      /\ OverlapAll(Fns[f].sig.implSelf.a, t.a)}

MethodTarget(t, m, mod, bounds) == MethodAmong(DirectFns(t, m), t, m, mod, bounds)

\* A bound at a generic type of the caller is met by the same bound there; at
\* any other type by an implementation of the trait for the definition.  The
\* arguments of the type and of the trait do not count in the second case.
BoundMet(sig, t, bound) ==
  IF t.k = "loc"
  THEN \E b \in ToSet(BoundsOf(sig, t.n)) : b = bound
  ELSE \E i \in DOMAIN Impls : Impls[i].on = DefOf(t) /\ Impls[i].trait = bound.trait
=============================================================================
