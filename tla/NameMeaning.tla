---------------------------- MODULE NameMeaning ----------------------------
(***************************************************************************)
(* What the paths of a package mean, said without cells, passes or orders: *)
(* the least solution of what the declarations say of each other.          *)
(*                                                                         *)
(* A solution m gives the meaning of the imports (im), of what aliases     *)
(* name (alias), and the items that types have by themselves (items) and   *)
(* by traits (impls).                                                      *)
(***************************************************************************)
EXTENDS NameLowering

RECURSIVE EndMeaning(_, _, _)
EndMeaning(m, n, fuel) ==
  IF fuel = 0 \/ n \notin DOMAIN m.alias THEN n ELSE EndMeaning(m, m.alias[n], fuel - 1)
EndOf(m, n) == EndMeaning(m, n, Cardinality(DOMAIN m.alias))

TraitsInScope(p, m, mod) ==
  {In(mod, g.name) : g \in {g \in ToSet(p[mod]) : g.k = "trait"}}
    \union {m.im[x].n : x \in {x \in DOMAIN m.im : x[1] = mod /\ m.im[x].k = "trait"}}

\* The only element of a set, Err if it has none or more.
Only(ds) == IF Cardinality(ds) = 1 THEN CHOOSE d \in ds : TRUE ELSE Err

\* What a type has by itself hides what it has by a trait.
ItemMeaning(p, m, mod, t, name) ==
  LET own == {x.d : x \in {x \in m.items : x.t = t /\ x.name = name}}
      given == {i.vals[name] : i \in {i \in m.impls : i.t = t /\ name \in DOMAIN i.vals
                                        /\ i.trait \in TraitsInScope(p, m, mod)}}
  IN  IF own = {} THEN Only(given) ELSE Only(own)

MemberMeaning(p, m, mod, d, name) ==
  CASE d.k = "mod" /\ name \in DOMAIN ChildrenOf(p, d.n) -> ChildrenOf(p, d.n)[name]
    [] d.k = "ty" -> ItemMeaning(p, m, mod, EndOf(m, d.n), name)
    [] OTHER -> Err

\* The first name: a declaration of the module, an import, a package.
HeadMeaning(p, m, mod, head) ==
  LET imported == {i \in ImportsOf(p, mod) : ImportedName(p, mod, i) = head}
  IN  CASE head \in DOMAIN ChildrenOf(p, mod) -> ChildrenOf(p, mod)[head]
        [] head \notin DOMAIN ChildrenOf(p, mod) /\ imported # {} ->
             m.im[<<mod, CHOOSE i \in imported : TRUE>>]
        [] head \in Deps \union {OwnPkg} -> Def("package", head)
        [] OTHER -> Err

MeaningOf(p, m, mod, path) ==
  LET head == path.segs[1]
      Rest(d, names) == FoldLeft(LAMBDA e, s : MemberMeaning(p, m, mod, e, s), d, names)
      inPackage == /\ head \in Deps
                   /\ HeadMeaning(p, m, mod, head) = Def("package", head)
                   /\ \A i \in ImportsOf(p, mod) : ImportedName(p, mod, i) # head
  IN  CASE path.abs = "package" -> Rest(Def("mod", OwnPkg), path.segs)
        [] path.abs = "" /\ inPackage /\ Len(path.segs) > 1 -> Rest(Def("mod", head), Tail(path.segs))
        [] OTHER -> Rest(HeadMeaning(p, m, mod, head), Tail(path.segs))

-----------------------------------------------------------------------------

Nothing(p) == [im |-> [x \in {} |-> Err], alias |-> [n \in {} |-> ""], items |-> {}, impls |-> {}]

OwnPlaces(p, kind) == ToSet(PlacesOf(p, {kind}))

TypeNamed(p, m, at, tag) ==
  IF IsKeyword(At(p, at).paths[tag]) THEN Def("prim", At(p, at).paths[tag].segs[1])
  ELSE MeaningOf(p, m, at[1], At(p, at).paths[tag])

\* What follows if the meanings so far are m.
Further(p, m) ==
  LET direct == {at \in OwnPlaces(p, "impl") : ~IsTraitImpl(At(p, at))}
      EndNamed(at) == EndOf(m, TypeNamed(p, m, at, "ty").n)
  IN  [im |-> [x \in UNION {{<<mod, i>> : i \in ImportsOf(p, mod)} : mod \in ToSet(OwnMods)} |->
                 IF x \in DOMAIN m.im THEN MeaningOf(p, m, x[1], At(p, x).paths["path"]) ELSE Err],
       alias |-> LET ends == {at \in OwnPlaces(p, "alias") : TypeNamed(p, m, at, "ty").k = "ty"}
                 IN  [n \in {NameAt(p, at) : at \in ends} |->
                        TypeNamed(p, m, CHOOSE at \in ends : NameAt(p, at) = n, "ty").n],
       items |-> VariantItems(p) \union DepItems(p)
                   \union UNION {{Item(EndNamed(at), f, <<>>, ValueOf(at, f)) :
                                    f \in DOMAIN At(p, at).items} : at \in direct},
       impls |-> DepTraitImpls(p)
                   \union {Implementation(EndNamed(at), TypeNamed(p, m, at, "trait").n, <<>>, <<>>,
                                          DOMAIN At(p, at).items, at) :
                             at \in OwnPlaces(p, "impl") \ direct}]

RECURSIVE Solve(_, _, _)
Solve(p, m, fuel) == IF fuel = 0 THEN m ELSE Solve(p, Further(p, m), fuel - 1)

\* A generic type hides what is outside of its global.
IsGeneric(g, path) == path.abs = "" /\ path.segs[1] \in ToSet(g.gens)
OwnerOf(at, g) == In(at[1], IF g.k = "impl" THEN ToString(at[2]) ELSE g.name)

PathMeaning(p, m, id) ==
  LET at == <<id[1], id[2]>>
      g == At(p, at)
      path == PathOf(p, id)
      traits == TraitItems(p, DOMAIN p)
      bounds == {MeaningOf(p, m, at[1], g.paths[b]).n :
                   b \in IF IsGeneric(g, path) THEN ToSet(g.bounds[path.segs[1]]) ELSE {}}
                  \intersect DOMAIN traits
  IN  CASE IsGeneric(g, path) /\ Len(path.segs) = 1 ->
             Def(IF g.k \in {"fn", "impl"} THEN "loc" ELSE "gen", In(OwnerOf(at, g), path.segs[1]))
        [] IsGeneric(g, path) /\ Len(path.segs) > 1 ->
             Only({Def("assoc", In(n, path.segs[2])) : n \in {n \in bounds : path.segs[2] \in traits[n]}})
        [] OTHER -> MeaningOf(p, m, at[1], path)


\* What is meant in the package by its paths, by its aliases followed to the
\* end, and by the right of an alias read outside of it.  Each round settles
\* at least one path.
Meant(p, m) ==
  [path  |-> [id \in OwnIds(p) |-> PathMeaning(p, m, id)],
   alias |-> [n \in DOMAIN m.alias |-> EndOf(m, n)],
   right |-> [at \in OwnPlaces(p, "alias") |->
                MeaningOf(p, m, at[1], At(p, at).paths["ty"])]]

MeaningsOf(p) == Meant(p, Solve(p, Nothing(p), Cardinality(OwnIds(p))))

-----------------------------------------------------------------------------
(* What the types mean that are written, d being the meaning of the path   *)
(* and args those of the arguments                                         *)

AliasPlace(p, n) == CHOOSE x \in OwnPlaces(p, "alias") : NameAt(p, x) = n
GensOf(n, g) == [i \in DOMAIN g.gens |-> In(n, g.gens[i])]

RECURSIVE TypeMeaning(_, _, _, _, _)
MeaningAt(p, m, head, d, args, self) ==
  CASE head \in Primitives -> Ty("prim", head, <<>>)
    [] head = "Self" -> self
    [] d.k = "ty" /\ d.n \in DOMAIN m.alias ->
         SubstTy(TypeMeaning(p, m, AliasPlace(p, d.n), "ty", self), "gen",
                 AssigningFirst(GensOf(d.n, At(p, AliasPlace(p, d.n))), args))
    [] d.k = "ty" /\ d.n \notin DOMAIN m.alias -> Defined(d.n, args)
    [] d.k \in {"gen", "loc"} -> Ty(d.k, d.n, <<>>)
    [] OTHER -> InferTy

TypeMeaning(p, m, at, tag, self) ==
  MeaningAt(p, m, At(p, at).paths[tag].segs[1], m.path[IdOf(at, tag)],
            [i \in DOMAIN At(p, at).args[tag] |->
               TypeMeaning(p, m, at, At(p, at).args[tag][i], self)], self)

TargetMeaning(p, m, at) == TypeMeaning(p, m, at, "ty", InferTy)

RECURSIVE TagsIn(_, _)
TagsIn(g, tag) == {tag} \union UNION {TagsIn(g, t) : t \in ToSet(g.args[tag])}

\* The definitions that are written in the type, as they are written.
NamedIn(p, m, at, tag) ==
  {m.path[IdOf(at, t)].n : t \in {t \in TagsIn(At(p, at), tag) : ~IsKeyword(At(p, at).paths[t])}}

NamesAlias(p, m, at) == NamedIn(p, m, at, "ty") \intersect DOMAIN m.alias # {}

\* Some type without generic ones in it is a target of both.
Ground(p) ==
  LET ds == {NameAt(p, at) : at \in ToSet(PlacesOf(p, {"struct", "enum"}))}
      atoms == {IntTy, FloatTy} \union {Defined(n, <<>>) : n \in ds}
      ones == atoms \union {Defined(n, <<t>>) : n \in ds, t \in atoms}
  IN  ones \union {Defined(n, <<s, t>>) : n \in ds, s \in atoms, t \in atoms}

SomeTypeIs(p, s, t) ==
  \E u \in Ground(p) : \A v \in {s, t} : MatchTy([ok |-> TRUE, s |-> NoSubst], v, u).ok

SameType(p, m, at, by) == SomeTypeIs(p, TargetMeaning(p, m, at), TargetMeaning(p, m, by))

\* The types of the items of the global at, where Self is self.
Declared(p, m, at, self) ==
  [f \in DOMAIN At(p, at).items |->
     [self |-> At(p, at).items[f].self,
      tys |-> [i \in DOMAIN At(p, at).items[f].sig |->
                 TypeMeaning(p, m, at, At(p, at).items[f].sig[i], self)]]]

\* The items of the block are those of the trait n, which is declared at x,
\* for its target.
ImplementsAs(p, m, at, n, x, target) ==
  LET targs == At(p, at).args["trait"]
      given == [i \in DOMAIN targs |-> TypeMeaning(p, m, at, targs[i], target)]
  IN  Declared(p, m, at, target)
        = [f \in DOMAIN At(p, x).items |->
             SubstSignature(Declared(p, m, x, target)[f],
                            AssigningFirst(GensOf(n, At(p, x)), given))]

Implements(p, m, at) ==
  ImplementsAs(p, m, at, m.path[IdOf(at, "trait")].n,
               TraitPlace(p, m.path[IdOf(at, "trait")].n), TargetMeaning(p, m, at))

-----------------------------------------------------------------------------
(* What ends the process, by the shape of the source *)

\* The i-th global is an import, resolved through the import j.
ThroughOther(p, mod, i, j) ==
  LET path == p[mod][i].paths["path"]
  IN  /\ path.abs = ""
      /\ path.segs[1] \notin DOMAIN ChildrenOf(p, mod)
      /\ path.segs[1] = ImportedName(p, mod, j)

RECURSIVE ImportsFrom(_, _, _)
ImportsFrom(p, mod, is) ==
  LET more == is \union {j \in ImportsOf(p, mod) : \E i \in is : ThroughOther(p, mod, i, j)}
  IN  IF more = is THEN is ELSE ImportsFrom(p, mod, more)

ImportLoop(p) ==
  \E mod \in ToSet(OwnMods) : \E i \in ImportsOf(p, mod) :
    i \in ImportsFrom(p, mod, {j \in ImportsOf(p, mod) : ThroughOther(p, mod, i, j)})

\* The aliases in ns, and those their rights lead to.
RECURSIVE AliasesBelow(_, _, _)
AliasesBelow(p, m, ns) ==
  LET more == ns \union UNION {NamedIn(p, m, at, "ty") \intersect DOMAIN m.alias :
                               at \in {at \in OwnPlaces(p, "alias") : NameAt(p, at) \in ns}}
  IN  IF more = ns THEN ns ELSE AliasesBelow(p, m, more)

Below(p, m, at) == AliasesBelow(p, m, NamedIn(p, m, at, "ty") \intersect DOMAIN m.alias)

\* An impl block for a type that leads to an alias that leads back to itself.
CircularTarget(p, m) ==
  LET loops == {NameAt(p, at) : at \in {at \in OwnPlaces(p, "alias") :
                                          NameAt(p, at) \in Below(p, m, at)}}
  IN  \E at \in OwnPlaces(p, "impl") : Below(p, m, at) \intersect loops # {}

\* A path through the name of the package itself into it.
OwnNamed(p) ==
  \E id \in OwnIds(p) :
    LET path == PathOf(p, id)
    IN  /\ path.abs = "" /\ path.segs[1] = OwnPkg /\ Len(path.segs) > 1
        /\ OwnPkg \notin DOMAIN ChildrenOf(p, id[1])
        /\ ~IsGeneric(At(p, id), path)
        /\ \A i \in ImportsOf(p, id[1]) : ImportedName(p, id[1], i) # OwnPkg

SelfCall(p) == \E id \in OwnIds(p) : PathOf(p, id).abs = "Self"

\* A path through Self in a block for what is not a defined type.
SelfCallOfOther(p, m) ==
  \E at \in OwnPlaces(p, "impl") :
    /\ TargetMeaning(p, m, at).k # "def"
    /\ \E tag \in DOMAIN At(p, at).paths : PathOf(p, IdOf(at, tag)).abs = "Self"

\* The right of an alias is a generic type of it, and outside a type, too.
ShadowedRight(p, m) ==
  \E at \in OwnPlaces(p, "alias") :
    LET path == At(p, at).paths["ty"]
    IN  IsGeneric(At(p, at), path) /\ Len(path.segs) = 1 /\ m.right[at] # Err

SelfInDef(p) ==
  \E at \in ToSet(PlacesOf(p, {"struct", "enum", "alias"})) :
    \E tag \in ToSet(At(p, at).typs) : MentionsSelf(At(p, at), tag)

TraitImpls(p) == {at \in OwnPlaces(p, "impl") : IsTraitImpl(At(p, at))}

SelfInTraitArgs(p) ==
  \E at \in TraitImpls(p) : \E t \in ToSet(At(p, at).args["trait"]) : MentionsSelf(At(p, at), t)

\* A block with items of its own for a type of a dependency.
IsForeign(p, m, d) ==
  /\ d.k = "ty"
  /\ (IF d.n \in DOMAIN m.alias THEN m.alias[d.n] ELSE d.n)
       \notin {NameAt(p, x) : x \in ToSet(PlacesOf(p, {"struct", "enum", "alias"}))}

ImplOnForeign(p, m) ==
  \E at \in OwnPlaces(p, "impl") \ TraitImpls(p) :
    /\ At(p, at).items # <<>>
    /\ ~IsKeyword(At(p, at).paths["ty"])
    /\ IsForeign(p, m, m.path[IdOf(at, "ty")])

\* Two blocks, with one definition given different numbers of arguments.
Uneven(p, m) ==
  LET written == UNION {ToSet(DefinedIn(TargetMeaning(p, m, at))) : at \in OwnPlaces(p, "impl")}
  IN  \E s, t \in written : s.n = t.n /\ Len(s.a) # Len(t.a)

KnownStop(p, m, why) ==
  CASE why = Overflow -> ImportLoop(p) \/ CircularTarget(p, m)
    [] why = SetTwice -> ShadowedRight(p, m)
    [] why = Unresolved -> OwnNamed(p) \/ SelfCall(p)
    [] why = SelfOutside -> SelfInDef(p) \/ SelfInTraitArgs(p)
    [] why = NoId -> ImplOnForeign(p, m)
    [] why = SelfOfOther -> SelfCallOfOther(p, m)
    [] OTHER -> why = ArityPanic /\ Uneven(p, m)

\* Whatever has one of these shapes stops, if it is not rejected before.
Fatal == {SetTwice, SelfOutside, SelfOfOther, Unresolved, Overflow, NoId}
FatalShape(p, m) == \E why \in Fatal : KnownStop(p, m, why)
=============================================================================
