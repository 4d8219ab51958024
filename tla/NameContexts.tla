---------------------------- MODULE NameContexts ----------------------------
(***************************************************************************)
(* The contexts that the paths inside a global are resolved in: what its   *)
(* generic types, the ones of the function in it, and Self mean there.     *)
(*                                                                         *)
(* A context is [mod, gens, once, fn, bounds, self]: gens and fn are the   *)
(* generic types of the global and of the function, once whether the       *)
(* context writes the cell of a path that names one of gens without        *)
(* looking whether it is set, bounds the traits by which T::item can be    *)
(* found, and self what Self is: "none", "ty" or "trait" in a definition,  *)
(* "impl" in a block for a defined type, "other" in one for another.       *)
(*                                                                         *)
(* r.traits has the names of the items of every trait that is known.       *)
(***************************************************************************)
EXTENDS Names

GensAs(k, owner, gens) == [t \in ToSet(gens) |-> Def(k, In(owner, t))]

ModCtx(mod) ==
  [mod |-> mod, gens |-> <<>>, once |-> FALSE, fn |-> <<>>, bounds |-> <<>>, self |-> "none"]

\* A struct, an enum or an alias writes the cell unseen, a trait does not.
TyDefCtx(at, g) ==
  [ModCtx(at[1]) EXCEPT !.gens = GensAs("gen", In(at[1], g.name), g.gens),
                        !.once = TRUE, !.self = "ty"]
TraitCtx(at, g) ==
  [ModCtx(at[1]) EXCEPT !.gens = GensAs("gen", In(at[1], g.name), g.gens), !.self = "trait"]

\* An impl block has no name; its place tells it from the others.
PreImplCtx(at, g) ==
  [ModCtx(at[1]) EXCEPT !.gens = GensAs("loc", In(at[1], ToString(at[2])), g.gens)]

PreFnCtx(at, g) ==
  [ModCtx(at[1]) EXCEPT !.fn = GensAs("loc", In(at[1], g.name), g.gens),
                        !.bounds = [t \in ToSet(g.gens) |-> <<>>]]

-----------------------------------------------------------------------------

\* T::item, by the traits that bound the generic type d.
ByBound(r, id, d, name, traits) ==
  LET hits == {i \in DOMAIN traits : /\ traits[i] \in DOMAIN r.traits
                                     /\ name \in r.traits[traits[i]]}
  IN  SetCell(IF r.cell[id][1] = Unset THEN SetCell(r, id, 1, d) ELSE r, id, 2,
              IF Cardinality(hits) = 1
              THEN Def("assoc", In(traits[CHOOSE i \in hits : TRUE], name)) ELSE Err)

\* A path that begins with Self is done with Self, if there is one: what follows
\* it is left unset.
ResolveIn(p, r, c, id) ==
  LET path == PathOf(p, id)
      head == path.segs[1]
      one == path.abs = "" /\ Len(path.segs) = 1
      two == path.abs = "" /\ Len(path.segs) = 2
  IN  CASE one /\ head \in DOMAIN c.fn -> SetCell(r, id, 1, c.fn[head])
        [] one /\ head \notin DOMAIN c.fn /\ head \in DOMAIN c.gens ->
             IF c.once \/ r.cell[id][1] = Unset THEN SetCell(r, id, 1, c.gens[head])
             ELSE Succeed(r)
        [] two /\ head \in DOMAIN c.bounds ->
             ByBound(r, id, IF head \in DOMAIN c.fn THEN c.fn[head] ELSE c.gens[head],
                     path.segs[2], c.bounds[head])
        [] path.abs = "Self" /\ c.self \in {"ty", "impl"} -> Succeed(r)
        [] path.abs = "Self" /\ c.self = "other" -> Stop(r, SelfOfOther)
        [] OTHER -> ResolvePath(p, r, c.mod, id, {})

\* s, reached from r; it succeeded if both did.
And(r, s) == [s EXCEPT !.ok = @ /\ r.ok]
Failing(r, bad) == IF r.ok /\ bad THEN Fail(r) ELSE r

\* A trait can be named, but is not a type.
RECURSIVE ResolveTyp(_, _, _, _, _)
ResolveTyps(p, r, c, at, tags) ==
  FoldLeft(LAMBDA s, t : IF s.stop # "" THEN s ELSE And(s, ResolveTyp(p, s, c, at, t)), r, tags)

ResolveHead(p, r, c, at, tag, wantsTrait) ==
  LET s == ResolveIn(p, r, c, IdOf(at, tag))
      t == IF wantsTrait THEN s ELSE Read(s, IdOf(at, tag))
  IN  ResolveTyps(p, Failing(t, ~wantsTrait /\ KindOf(t, IdOf(at, tag)).k = "trait"),
                  c, at, At(p, at).args[tag])

ResolveTyp(p, r, c, at, tag) ==
  LET path == At(p, at).paths[tag]
  IN  IF IsKeyword(path) THEN Failing(Succeed(r), path.segs[1] = "Self" /\ c.self = "none")
      ELSE ResolveHead(p, r, c, at, tag, FALSE)

ResolveTraitTyp(p, r, c, at, tag) == ResolveHead(p, r, c, at, tag, TRUE)

-----------------------------------------------------------------------------
(* Bounds *)

BoundTags(g) ==
  FoldLeft(LAMBDA ts, t : ts \o g.bounds[t], <<>>, g.gens)

ResolveBounds(p, r, c, at, g) ==
  FoldLeft(LAMBDA s, t : IF s.stop # "" THEN s ELSE And(s, ResolveTraitTyp(p, s, c, at, t)),
           Succeed(r), BoundTags(g))

\* The bounds are read, even the ones that were not resolved.
ReadBounds(r, at, g) ==
  FoldLeft(LAMBDA s, t : IF KindOf(s, IdOf(at, t)) = Unset THEN Stop(s, Unresolved) ELSE s,
           r, BoundTags(g))

BoundTraits(r, at, g) ==
  [t \in ToSet(g.gens) |->
     FoldLeft(LAMBDA ns, b : IF KindOf(r, IdOf(at, b)).k = "trait"
                             THEN Append(ns, KindOf(r, IdOf(at, b)).n) ELSE ns,
              <<>>, g.bounds[t])]

-----------------------------------------------------------------------------
(* The type that is written at a tag.  What is not a type becomes one that *)
(* is still to be inferred.                                                *)

InferTy == TyVar(0)

RECURSIVE TypeOf(_, _, _, _, _)
TypeAt(p, r, at, tag, d, self) ==
  CASE d.k = "ty" -> Defined(d.n, [i \in DOMAIN At(p, at).args[tag] |->
                                     TypeOf(p, r, at, At(p, at).args[tag][i], self)])
    [] d.k \in {"gen", "loc"} -> Ty(d.k, d.n, <<>>)
    [] OTHER -> InferTy

TypeOf(p, r, at, tag, self) ==
  LET head == At(p, at).paths[tag].segs[1]
  IN  CASE head \in Primitives -> Ty("prim", head, <<>>)
        [] head = "Self" -> self
        [] OTHER -> TypeAt(p, r, at, tag, KindOf(r, IdOf(at, tag)), self)

TypesOf(p, r, at, tags, self) == [i \in DOMAIN tags |-> TypeOf(p, r, at, tags[i], self)]

RECURSIVE MentionsSelf(_, _)
MentionsSelf(g, tag) ==
  \/ g.paths[tag].segs[1] = "Self"
  \/ \E i \in DOMAIN g.args[tag] : MentionsSelf(g, g.args[tag][i])
=============================================================================
