---------------------------- MODULE NamePipeline ----------------------------
(***************************************************************************)
(* The name resolution of one package, from the loaded source to the       *)
(* accepted hir: the passes in their order, one global at a time.          *)
(*                                                                         *)
(* Of one function, BodyFn, the body is written while it is resolved: its  *)
(* blocks, declarations and uses, at most MaxEvents of them, over the      *)
(* names in BodyNames.                                                     *)
(***************************************************************************)
EXTENDS NameMeaning, LocalNames

CONSTANTS
  Sources,     \* something :> a package, with what it depends on
  BodyFn,      \* the name of that function, in the root module
  MaxEvents

VARIABLES
  source,
  phase,       \* the pass that is next or under way; "done", "rejected", "stopped"
  todo,        \* the globals that are left in it, <<module, 0>> for its imports
  res          \* the state of the resolver

vars == <<source, phase, todo, res, fnctx>>

Init ==
  /\ \E w \in DOMAIN Sources : source = Sources[w]
  /\ phase = "collect"
  /\ todo = <<>>
  /\ res = NotYet
  /\ fnctx = NotYet

-----------------------------------------------------------------------------

\* A pass that ends with an error is the last one, and a stop is the end.
After(s, next) ==
  CASE s.stop # "" -> "stopped"
    [] s.stop = "" /\ s.errs -> "rejected"
    [] OTHER -> next

\* The next pass, over the places ps.
Begin(s, next, ps) == phase' = After(s, next) /\ todo' = ps /\ res' = s

\* One place is through.
Step(s) ==
  /\ phase' = IF s.stop # "" THEN "stopped" ELSE phase
  /\ todo' = Tail(todo)
  /\ res' = s

Doing(pass)   == phase = pass /\ todo # <<>>
Through(pass) == phase = pass /\ todo = <<>>

CollectDefs ==
  /\ phase = "collect"
  /\ Begin(Collect(source), "aliases", PlacesOf(source, {"alias"}))
  /\ UNCHANGED <<source, fnctx>>

FollowAlias ==
  /\ Doing("aliases")
  /\ Step(AliasStep(source, res, Head(todo)))
  /\ UNCHANGED <<source, fnctx>>

ImplPlaces(forTrait) ==
  SelectSeq(PlacesOf(source, {"impl"}), LAMBDA at : IsTraitImpl(At(source, at)) = forTrait)

ResolveAliasTargets ==
  /\ Through("aliases")
  /\ Begin(LinkAliases(source, res), "impls", ImplPlaces(FALSE))
  /\ UNCHANGED <<source, fnctx>>

CollectImpl ==
  /\ Doing("impls")
  /\ Step(ImplStep(source, res, Head(todo)))
  /\ UNCHANGED <<source, fnctx>>

CollectImpls ==
  /\ Through("impls")
  /\ Begin(res, "traits", ImplPlaces(TRUE))
  /\ UNCHANGED <<source, fnctx>>

CollectTraitImpl ==
  /\ Doing("traits")
  /\ Step(TraitImplStep(source, res, Head(todo)))
  /\ UNCHANGED <<source, fnctx>>

\* The imports of every module and then its globals.
EveryPlace ==
  FoldLeft(LAMBDA ps, mod : ps \o [i \in 1 .. Len(source[mod]) + 1 |-> <<mod, i - 1>>],
           <<>>, OwnMods)

\* From here on the items of all traits are known.
CollectTraitImpls ==
  /\ Through("traits")
  /\ Begin([res EXCEPT !.traits = TraitItems(source, DOMAIN source)], "modules", EveryPlace)
  /\ UNCHANGED <<source, fnctx>>

Orders(S) == {s \in [1 .. Cardinality(S) -> S] : IsInjective(s)}

EnterModule ==
  /\ Doing("modules")
  /\ Head(todo)[2] = 0
  /\ \E order \in Orders(ImportsOf(source, Head(todo)[1])) :
       Step(PrepareScope(source, res, Head(todo)[1], order))
  /\ UNCHANGED <<source, fnctx>>

\* The next global is one of these kinds.
Meets(kinds) ==
  /\ Doing("modules")
  /\ ~InBody
  /\ Head(todo)[2] > 0
  /\ At(source, Head(todo)).k \in kinds

ResolveDefinition ==
  /\ Meets({"struct", "enum", "alias", "trait", "import"})
  /\ Step(ResolveDef(source, res, Head(todo)))
  /\ UNCHANGED <<source, fnctx>>

ResolveImplBlock ==
  /\ Meets({"impl"})
  /\ Step(Tally(ResolveImpl(source, res, Head(todo))))
  /\ UNCHANGED <<source, fnctx>>

\* A function with an error in what it declares is not entered.
HasBody(at, s) == NameAt(source, at) = In(OwnPkg, BodyFn) /\ s.stop = "" /\ s.ok
Enter(s) ==
  \/ HasBody(Head(todo), s) /\ res' = s /\ Enters /\ UNCHANGED <<phase, todo>>
  \/ ~HasBody(Head(todo), s) /\ Step(s) /\ UNCHANGED fnctx

ResolveFunction ==
  /\ Meets({"fn"})
  /\ Enter(Tally(ResolveFn(source, res, Head(todo))))
  /\ UNCHANGED source

-----------------------------------------------------------------------------
(* The body of BodyFn *)

\* What a name means outside of the function: Err if nothing.
Outside(n) ==
  LET mine     == res.tree[OwnPkg]
      imported == {i \in ImportsOf(source, OwnPkg) : ImportedName(source, OwnPkg, i) = n}
  IN  CASE n \in DOMAIN mine -> mine[n]
        [] n \notin DOMAIN mine /\ imported # {} ->
             KindOf(res, <<OwnPkg, CHOOSE i \in imported : TRUE, "path">>)
        [] OTHER -> Err

Globals  == {n \in BodyNames : Outside(n) # Err}
Variants == {n \in Globals : Outside(n).k = "variant"}

Writes ==
  /\ Doing("modules")
  /\ Len(fnctx.log) < MaxEvents
  /\ UNCHANGED <<source, phase, todo, res>>

OpenInBody    == InBody /\ Writes /\ WriteOpen
CloseInBody   == InBody /\ Writes /\ WriteClose
LetInBody     == InBody /\ Writes /\ WriteLet(Globals)
UseInBody     == InBody /\ Writes /\ WriteUse(Globals)
PatternInBody == InBody /\ Writes /\ WritePattern(Variants)

EndBody ==
  /\ Doing("modules")
  /\ Leaves
  /\ Step([res EXCEPT !.errs = @ \/ fnctx.errs])
  /\ UNCHANGED source

-----------------------------------------------------------------------------

ResolveInSelfPackage ==
  /\ Through("modules")
  /\ Begin(res, "lower", <<>>)
  /\ UNCHANGED <<source, fnctx>>

LowerPackage ==
  /\ phase = "lower"
  /\ Begin(Lower(source, res), "done", <<>>)
  /\ UNCHANGED <<source, fnctx>>

Next ==
  \/ CollectDefs
  \/ FollowAlias \/ ResolveAliasTargets
  \/ CollectImpl \/ CollectImpls
  \/ CollectTraitImpl \/ CollectTraitImpls
  \/ EnterModule \/ ResolveDefinition \/ ResolveImplBlock \/ ResolveFunction
  \/ OpenInBody \/ CloseInBody \/ LetInBody \/ UseInBody \/ PatternInBody \/ EndBody
  \/ ResolveInSelfPackage
  \/ LowerPackage

Spec == Init /\ [][Next]_vars

-----------------------------------------------------------------------------
(* Properties *)

PathsAgree(p, m) ==
  \A id \in DOMAIN res.cell : IsKeyword(PathOf(p, id)) \/ KindOf(res, id) = m.path[id]

\* In an accepted package every path, also one inside a type, was resolved to
\* what the declarations say that it means, whatever the passes resolved on
\* the way, through whichever import first, and in whatever order.
ResolvedAsDeclared == phase = "done" => PathsAgree(source, MeaningsOf(source))

StopsAgree(p, m) == IF phase = "stopped" THEN KnownStop(p, m, res.stop) ELSE ~FatalShape(p, m)

\* The process dies for these reasons in the source and for no other, and
\* never accepts a package that has one of them.
StopsAreKnown == phase \in {"stopped", "done"} => StopsAgree(source, MeaningsOf(source))

NoItemTwice(p, m) ==
  \A at \in {at \in OwnPlaces(p, "impl") : ~NamesAlias(p, m, at)} :
    /\ \A by \in OwnPlaces(p, "impl") \ {at} :
         /\ ~NamesAlias(p, m, by)
         /\ ~(IsTraitImpl(At(p, at)) /\ IsTraitImpl(At(p, by)))
         /\ SameType(p, m, at, by)
         => DOMAIN At(p, at).items \intersect DOMAIN At(p, by).items = {}
    /\ \A x \in VariantItems(p) : x.t = TargetMeaning(p, m, at).n => x.name \notin DOMAIN At(p, at).items

\* In an accepted package no type has two associated items of one name by
\* impl blocks for itself, nor one by such a block and one by a trait, nor
\* one that is named like a variant: a path through it is never ambiguous in
\* a way that the checks missed.  Blocks that name a type by an alias are
\* left out: of an alias the checks see only what its head leads to.
OneItemPerName == phase = "done" => NoItemTwice(source, MeaningsOf(source))

AllImplement(p, m) == \A at \in TraitImpls(p) : Implements(p, m, at)

\* In an accepted package an implementation of a trait has the items that the
\* trait declares, with the types it declares where Self is the target and
\* the generic types of the trait are what the block gives it.
TraitImplsConform == phase = "done" => AllImplement(source, MeaningsOf(source))
=============================================================================
