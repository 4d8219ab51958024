------------------------------- MODULE Names -------------------------------
(***************************************************************************)
(* What a path written in a package is resolved to.                        *)
(*                                                                         *)
(* A package is a function from the names of modules to the globals that   *)
(* are written there, in source order; so is a dependency.  A path of a    *)
(* global is known by its place in it, its tag, and a path of the package  *)
(* by <<module, index of the global, tag>>.                                *)
(*                                                                         *)
(* Each segment of a path is a cell in the syntax tree that is written     *)
(* once, with the definition it was resolved to or with Err; to write it   *)
(* again panics.  All passes share the cells.                              *)
(*                                                                         *)
(* The state r of the resolver is a record: the cells, what the passes     *)
(* collect (their modules list the fields), ok (how the last operation     *)
(* ended), errs (an error was reported) and stop ("" or what ended the     *)
(* process, a panic or a stack overflow).                                  *)
(***************************************************************************)
EXTENDS Types

CONSTANTS
  OwnPkg,    \* the package, and the name of its root module
  Deps,      \* the packages it depends on directly
  Children   \* module :> the names of its child modules, in order

Def(k, n) == [k |-> k, n |-> n]
Unset == Def("unset", "")
Err   == Def("err", "")

In(n, name) == n \o "." \o name

RECURSIVE ModulesUnder(_)
ModulesUnder(mod) ==
  FoldLeft(LAMBDA ms, c : ms \o ModulesUnder(In(mod, c)), <<mod>>, Children[mod])

OwnMods == ModulesUnder(OwnPkg)

-----------------------------------------------------------------------------
(* Globals.  A type is written at a tag: the path of its head, and in args *)
(* the tags of its arguments.  typs are the tags of the types inside the   *)
(* global, in source order.  "ty" is the member of a struct, the right of  *)
(* an alias and the target of an impl block, "trait" the trait an impl     *)
(* block is for.  An item is [self, sig]: whether it takes self, and the   *)
(* tags of its arguments and its result; a variant is an item, too.        *)
(* bounds has the tags of the bounds of each generic type, uses those of   *)
(* the calls in the bodies.                                                *)

Global(k, name, gens, bounds, paths, args, typs, items, uses) ==
  [k |-> k, name |-> name, gens |-> gens, bounds |-> bounds, paths |-> paths,
   args |-> args, typs |-> typs, items |-> items, uses |-> uses]

Path(abs, segs) == [abs |-> abs, segs |-> segs]

Primitives == {"Int", "Float"}

\* Int, Float and Self are keywords, not paths.
IsKeyword(path) == path.segs[1] \in Primitives \union {"Self"}

Declares(g)    == g.k \notin {"import", "impl"}
IsTraitImpl(g) == g.k = "impl" /\ "trait" \in DOMAIN g.paths

DeclaredKind(g) ==
  CASE g.k \in {"struct", "enum", "alias"} -> "ty"
    [] g.k = "fn" -> "val"
    [] OTHER -> g.k

\* The globals of these kinds, in the order every pass takes them in: those
\* of a module before those of its child modules.
PlacesOf(p, kinds) ==
  FoldLeft(LAMBDA ps, mod :
             ps \o FoldLeftDomain(LAMBDA qs, i :
                                    IF p[mod][i].k \in kinds THEN Append(qs, <<mod, i>>)
                                    ELSE qs, <<>>, p[mod]),
           <<>>, OwnMods)

At(p, at)     == p[at[1]][at[2]]
NameAt(p, at) == In(at[1], At(p, at).name)
PathOf(p, id) == p[id[1]][id[2]].paths[id[3]]
IdOf(at, tag) == <<at[1], at[2], tag>>

-----------------------------------------------------------------------------
(* The tree of names *)

\* What is declared in the module, and its child modules.
ChildrenOf(p, mod) ==
  LET here == {i \in DOMAIN p[mod] : Declares(p[mod][i])}
      subs == ToSet(Children[mod])
  IN  [n \in {p[mod][i].name : i \in here} \union subs |->
         IF n \in subs THEN Def("mod", In(mod, n))
         ELSE Def(DeclaredKind(p[mod][CHOOSE i \in here : p[mod][i].name = n]), In(mod, n))]

NameTree(p) == [mod \in DOMAIN p |-> ChildrenOf(p, mod)]

\* Two declarations of a module have one name, or one and a child module.
HasDuplicates(p, mod) ==
  \E i \in DOMAIN p[mod] :
    /\ Declares(p[mod][i])
    /\ \/ p[mod][i].name \in ToSet(Children[mod])
       \/ \E j \in DOMAIN p[mod] \ {i} :
            Declares(p[mod][j]) /\ p[mod][j].name = p[mod][i].name

\* The associated item d, named name, of the types t with these arguments.
Item(t, name, args, d) == [t |-> t, name |-> name, args |-> args, d |-> d]

\* The variants of an enum are associated items of it.
VariantItems(p) ==
  UNION {UNION {{Item(In(mod, g.name), v, <<>>, Def("variant", In(In(mod, g.name), v))) :
                  v \in DOMAIN g.items} :
                g \in {g \in ToSet(p[mod]) : g.k = "enum"}} :
         mod \in DOMAIN p}

ImportsOf(p, mod) == {i \in DOMAIN p[mod] : p[mod][i].k = "import"}
ImportedName(p, mod, i) == Last(p[mod][i].paths["path"].segs)

ImportClashes(p, tree, mod) ==
  \E i \in ImportsOf(p, mod) :
    \/ ImportedName(p, mod, i) \in DOMAIN tree[mod]
    \/ \E j \in ImportsOf(p, mod) \ {i} : ImportedName(p, mod, j) = ImportedName(p, mod, i)

-----------------------------------------------------------------------------
(* Members.  r.alias has the type at the end of every chain of aliases.    *)

Canonical(r, n) == IF n \in DOMAIN r.alias THEN r.alias[n] ELSE n

\* The item of the one trait in scope that is implemented for the type and
\* has an item of that name.
ViaTraits(hits, name) ==
  IF Cardinality(hits) = 1 THEN (CHOOSE i \in hits : TRUE).vals[name] ELSE Err

\* Mutant: a trait counts wherever it was imported.
MemberByAnyTrait(r, t, own, name) ==
  CASE own = {} -> ViaTraits({i \in r.impls : i.t = t /\ name \in DOMAIN i.vals}, name)
    [] Cardinality(own) = 1 -> (CHOOSE x \in own : TRUE).d
    [] OTHER -> Err

\* A trait is looked at only if the type itself has nothing of that name.
MemberOfType(r, t, own, name) ==
  CASE own = {} -> ViaTraits({i \in r.impls : i.t = t /\ name \in DOMAIN i.vals
                                              /\ i.trait \in r.scope}, name)
    [] Cardinality(own) = 1 -> (CHOOSE x \in own : TRUE).d
    [] OTHER -> Err

ItemsNamed(r, t, name) == {x \in r.items : x.t = t /\ x.name = name}

Member(r, d, name) ==
  CASE d.k = "mod" /\ name \in DOMAIN r.tree[d.n] -> r.tree[d.n][name]
    [] d.k = "ty" -> MemberOfType(r, Canonical(r, d.n),
                                  ItemsNamed(r, Canonical(r, d.n), name), name)
    [] OTHER -> Err

-----------------------------------------------------------------------------
(* Paths *)

Stop(r, why) == [r EXCEPT !.stop = why, !.ok = FALSE]
Fail(r)      == [r EXCEPT !.ok = FALSE]
Succeed(r)   == [r EXCEPT !.ok = TRUE]
Tally(r)     == [r EXCEPT !.errs = @ \/ ~r.ok]

SetTwice    == "panic: a cell is set twice"
SelfOutside == "panic: Self outside of an impl block"
Unresolved  == "panic: a path was not resolved"
SelfOfOther == "panic: Self is not a defined type"
Overflow    == "stack overflow"

SetCell(r, id, i, d) ==
  IF r.cell[id][i] # Unset THEN Stop(r, SetTwice)
  ELSE [r EXCEPT !.cell[id][i] = d, !.ok = d # Err]

\* The segments from the i-th on, within d.
RECURSIVE Walk(_, _, _, _, _)
Walk(p, r, id, i, d) ==
  IF ~r.ok \/ i > Len(r.cell[id]) THEN r
  ELSE Walk(p, SetCell(r, id, i, Member(r, d, PathOf(p, id).segs[i])), id, i + 1,
            Member(r, d, PathOf(p, id).segs[i]))

WalkFrom(p, r, id, i, d) == Walk(p, Succeed(r), id, i, d)

\* The first segment that is not resolved, 0 if all are.
FirstOpen(cells) == SelectInSeq(cells, LAMBDA c : c \in {Unset, Err})

\* What the path was resolved to.
KindIn(cells, open) == IF open = 0 THEN Last(cells) ELSE cells[open]
KindOf(r, id) == KindIn(r.cell[id], FirstOpen(r.cell[id]))

\* Mutant: what an operation that failed was to set is read, too.
ReadAnyway(r, id) == IF KindOf(r, id) = Unset THEN Stop(r, Unresolved) ELSE r

\* To read Unset panics.
Read(r, id) == IF r.ok /\ KindOf(r, id) = Unset THEN Stop(r, Unresolved) ELSE r

\* The path id, whose first segment names the import imp.
ThroughImport(p, r, id, imp) ==
  CASE r.stop # "" -> r
    [] r.stop = "" /\ ~r.ok -> SetCell(r, id, 1, Err)
    [] OTHER -> Walk(p, SetCell(r, id, 1, KindOf(r, imp)), id, 2, KindOf(r, imp))

\* The path id in the module mod.  busy are the imports being resolved: the
\* recursion that comes back to one of them does not end.
RECURSIVE ResolvePath(_, _, _, _, _)
ResolveByHead(p, r, mod, id, head, busy) ==
  LET imported == {i \in ImportsOf(p, mod) : ImportedName(p, mod, i) = head}
      imp == <<mod, CHOOSE i \in imported : TRUE, "path">>
  IN  CASE head \in DOMAIN r.tree[mod] -> WalkFrom(p, r, id, 1, Def("mod", mod))
        [] head \notin DOMAIN r.tree[mod] /\ imported # {} ->
             IF imp \in busy THEN Stop(r, Overflow)
             ELSE ThroughImport(p, Read(ResolvePath(p, r, mod, imp, busy \union {imp}), imp),
                                id, imp)
        [] head = OwnPkg /\ Len(r.cell[id]) > 1 -> WalkFrom(p, r, id, 2, Def("mod", OwnPkg))
        [] head \in Deps \union {OwnPkg} ->
             Walk(p, SetCell(r, id, 1, Def("package", head)), id, 2, Def("mod", head))
        [] OTHER -> SetCell(r, id, 1, Err)

\* A path that was resolved before is left as it is.
ResolvePath(p, r, mod, id, busy) ==
  CASE KindOf(r, id) = Err -> Fail(r)
    [] KindOf(r, id) \notin {Unset, Err} -> Succeed(r)
    [] OTHER -> CASE PathOf(p, id).abs = "Self" -> Fail(r)
                  [] PathOf(p, id).abs = "package" -> WalkFrom(p, r, id, 1, Def("mod", OwnPkg))
                  [] OTHER -> ResolveByHead(p, r, mod, id, PathOf(p, id).segs[1], busy)
=============================================================================
