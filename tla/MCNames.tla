------------------------------ MODULE MCNames ------------------------------
(***************************************************************************)
(* Small packages for TLC.  The package app has a child module m, and      *)
(* depends on dep, which declares a struct D with an item d, a trait Q     *)
(* with an item q, and implements Q for D.  Each family below is the set   *)
(* of the packages that have one kind of thing written in them in every    *)
(* way that the passes could confuse.                                      *)
(***************************************************************************)
EXTENDS NamePipeline

P(s)  == Path("", s)
PP(s) == Path("package", s)

\* A type is its path and its arguments, which have no arguments of their own
\* unless they are [path, args], too.
T(s)      == [path |-> P(s), args |-> <<>>]
Of(s, as) == [path |-> P(s), args |-> as]
IntT  == T(<<"Int">>)
FltT  == T(<<"Float">>)
SelfT == T(<<"Self">>)

\* The paths and arguments of the type t at a tag; a type two levels below a
\* tag has the tag with two more letters.
Letters == <<"a", "b", "c">>
RECURSIVE PathsAt(_, _)
PathsAt(tag, t) ==
  FoldLeftDomain(LAMBDA f, i : f @@ PathsAt(tag \o Letters[i], t.args[i]), tag :> t.path, t.args)
RECURSIVE ArgsAt(_, _)
ArgsAt(tag, t) ==
  FoldLeftDomain(LAMBDA f, i : f @@ ArgsAt(tag \o Letters[i], t.args[i]),
                 tag :> [i \in DOMAIN t.args |-> tag \o Letters[i]], t.args)

\* The global with the types ts, a function from tags.
Written(k, name, gens, bounds, ts, typs, items, uses) ==
  Global(k, name, gens, bounds,
         FoldSet(LAMBDA x, f : f @@ PathsAt(x, ts[x]), <<>>, DOMAIN ts),
         FoldSet(LAMBDA x, f : f @@ ArgsAt(x, ts[x]), <<>>, DOMAIN ts), typs, items, uses)

NoBounds(gens) == [x \in ToSet(gens) |-> <<>>]
ItemOf(self, sig) == [self |-> self, sig |-> sig]
Plain == ItemOf(FALSE, <<"i">>)    \* an item that returns Int

Struct(name, gens, t) == Written("struct", name, gens, NoBounds(gens), "ty" :> t, <<"ty">>, <<>>, <<>>)
Alias(name, gens, t)  == Written("alias", name, gens, NoBounds(gens), "ty" :> t, <<"ty">>, <<>>, <<>>)
EnumE  == Written("enum", "E", <<>>, <<>>, <<>>, <<>>, [V |-> ItemOf(FALSE, <<>>)], <<>>)
Trait(name, f) == Written("trait", name, <<>>, <<>>, "i" :> IntT, <<"i">>, f :> Plain, <<>>)
Import(path) == Global("import", Last(path.segs), <<>>, <<>>, "path" :> path, "path" :> <<>>,
                       <<>>, <<>>, <<>>)

Impl(gens, t, f) ==
  Written("impl", "", gens, NoBounds(gens), "ty" :> t @@ "i" :> IntT, <<"i">>, f :> Plain, <<>>)
ImplFor(gens, t, trait, f) ==
  Written("impl", "", gens, NoBounds(gens), "ty" :> t @@ "i" :> IntT @@ "trait" :> trait, <<"i">>,
          f :> Plain, <<>>)

\* fn name[gens: bounds]() -> Int, which calls what the path names.
FnWith(name, gens, bounds, ts, path) ==
  Written("fn", name, gens, bounds, ts @@ "i" :> IntT @@ "u" :> [path |-> path, args |-> <<>>],
          <<"i">>, <<>>, <<"u">>)
Calls(name, path) == FnWith(name, <<>>, <<>>, <<>>, path)

MCChildren == "app" :> <<"m">> @@ "app.m" :> <<>> @@ "dep" :> <<>>
Dep == <<Struct("D", <<>>, IntT), Trait("Q", "q"), Impl(<<>>, T(<<"D">>), "d"),
         ImplFor(<<>>, T(<<"D">>), T(<<"Q">>), "q")>>
Package(root, child) == "app" :> root @@ "app.m" :> child @@ "dep" :> Dep

Seqs(S, n) == UNION {{s \in [1 .. k -> S] : IsInjective(s)} : k \in 0 .. n}

-----------------------------------------------------------------------------
(* Imports, and a path in a function of the root or of the child *)

ImportPaths ==
  {PP(<<"m", "S">>), PP(<<"m", "N">>), P(<<"dep", "D">>), P(<<"dep", "Q">>), P(<<"dep">>),
   P(<<"m">>), P(<<"N", "n">>), P(<<"D", "d">>), P(<<"D", "q">>), P(<<"app", "E">>),
   P(<<"d", "D">>), P(<<"no">>), P(<<"E", "V">>)}

UsePaths ==
  {P(<<"S", "f">>), P(<<"S", "n">>), P(<<"E", "V">>), P(<<"V">>), P(<<"m", "g">>), P(<<"D", "d">>),
   P(<<"D", "q">>), P(<<"d">>), P(<<"dep", "D", "q">>), PP(<<"m", "S", "f">>), PP(<<"E">>),
   P(<<"app", "m", "g">>)}

Child ==
  <<Struct("S", <<>>, IntT), Trait("N", "n"), Impl(<<>>, T(<<"S">>), "f"),
    ImplFor(<<>>, T(<<"S">>), T(<<"N">>), "n"), Calls("g", P(<<"g">>))>>

Importing(s) == [i \in DOMAIN s |-> Import(s[i])]

PathPackage(s, u) == Package(Importing(s) \o <<EnumE, Calls("f", u)>>, Child)
PathWorlds == {"path"} \X Seqs(ImportPaths, 2) \X UsePaths

-----------------------------------------------------------------------------
(* Aliases: what they name, and an impl block that names one *)

Rights ==
  {T(<<"A">>), Of(<<"A">>, <<IntT>>), T(<<"B">>), T(<<"X">>), Of(<<"S">>, <<T(<<"X">>)>>),
   Of(<<"S">>, <<T(<<"B">>)>>), Of(<<"S">>, <<IntT>>), T(<<"dep", "D">>), SelfT, T(<<"no">>)}
Targets ==
  {T(<<"A">>), T(<<"B">>), Of(<<"S">>, <<T(<<"A">>)>>), Of(<<"A">>, <<IntT>>), T(<<"dep", "D">>)}

AliasPackage(x, s, t, target) ==
  Package(<<Struct("S", <<"T">>, T(<<"T">>)), Alias("A", <<x>>, s), Alias("B", <<>>, t),
            Impl(<<>>, target, "f"), Calls("f", P(<<"A", "f">>))>>, <<>>)
AliasWorlds ==
  {"alias"} \X {"X", "S"} \X (Rights \union {T(<<"S">>)}) \X Rights \X Targets

-----------------------------------------------------------------------------
(* Two impl blocks, and a path through their targets *)

Pair(s, t) == Of(<<"S">>, <<s, t>>)
H == T(<<"H">>)
ImplTargets ==
  {Pair(IntT, FltT), Pair(H, IntT), Pair(IntT, H), Pair(H, H), T(<<"E">>), T(<<"A">>), T(<<"dep", "D">>),
   Pair(Of(<<"S">>, <<IntT>>), FltT), Pair(Pair(IntT, IntT), FltT)}

Block(t, how) ==
  CASE how \in {"f", "V"} -> Impl(<<"H">>, t, how)
    [] how = "T" -> ImplFor(<<"H">>, t, T(<<"T">>), "f")
    [] OTHER -> ImplFor(<<"H">>, t, T(<<"dep", "Q">>), "q")

ImplPackage(s, t, x, y, u) ==
  Package(<<Struct("S", <<"K", "L">>, T(<<"K">>)), EnumE, Trait("T", "f"),
            Alias("A", <<>>, Pair(IntT, FltT)), Block(s, x), Block(t, y)>>
            \o IF u = "" THEN <<>> ELSE <<Calls("g", P(<<u, "f">>))>>, <<>>)
ImplWorlds ==
  {"impl"} \X ImplTargets \X ImplTargets \X {"f", "V", "T", "Q"} \X {"f", "V", "T"}
    \X {"", "S", "E"}

-----------------------------------------------------------------------------
(* The signature of an item of a trait, and that of its implementation *)

SigTypes == {SelfT, IntT, Of(<<"S">>, <<IntT>>), T(<<"G">>)}
ImplSigTypes == {SelfT, IntT, Of(<<"S">>, <<IntT>>), Of(<<"S">>, <<FltT>>), T(<<"A">>)}
SigTargets == {Of(<<"S">>, <<IntT>>), IntT, T(<<"A">>), Of(<<"S">>, <<H>>)}

SigTrait(t, self) ==
  Written("trait", "T", <<"G">>, "G" :> <<>>, "i" :> IntT @@ "p" :> t, <<"p", "i">>,
          "t" :> ItemOf(self, <<"p", "i">>), <<>>)
SigImpl(target, arg, t, items) ==
  Written("impl", "", <<"H">>, "H" :> <<>>,
          "ty" :> target @@ "trait" :> Of(<<"T">>, <<arg>>) @@ "i" :> IntT @@ "p" :> t,
          <<"p", "i">>, items, <<>>)

SigItems ==
  <<"t" :> ItemOf(TRUE, <<"p", "i">>), "t" :> ItemOf(FALSE, <<"p", "i">>),
    "t" :> ItemOf(TRUE, <<"p">>), "t" :> ItemOf(TRUE, <<"p", "i">>) @@ "s" :> Plain, <<>> >>

SignaturePackage(s, t, target, arg, items) ==
  Package(<<Struct("S", <<"K">>, T(<<"K">>)), Alias("A", <<>>, Of(<<"S">>, <<IntT>>)),
            SigTrait(s, TRUE), SigImpl(target, arg, t, SigItems[items])>>, <<>>)
SignatureWorlds ==
  {"signature"} \X SigTypes \X ImplSigTypes \X SigTargets
    \X {IntT, SelfT, Of(<<"S">>, <<IntT>>)} \X (1 .. Len(SigItems))

-----------------------------------------------------------------------------
(* Generic types, their bounds, and items found through those *)

BoundTypes == {T(<<"T">>), T(<<"m", "T">>), T(<<"dep", "Q">>), T(<<"S">>), T(<<"H">>)}
BoundsOf(s) == [i \in DOMAIN s |-> <<"x", "y">>[i]]
BoundTypesOf(s) == [b \in ToSet(BoundsOf(s)) |-> IF b = "x" THEN s[1] ELSE s[2]]
GenericUses == {P(<<"H", "t">>), P(<<"H", "q">>), P(<<"H">>), P(<<"S", "f">>), Path("Self", <<"f">>)}

\* A function, an impl block for S[H], or one for Int.
Bounded(k, s, u, gens) ==
  LET target == CASE k = "fn" -> <<>>
                  [] k = "impl" -> "ty" :> Of(<<"S">>, <<H>>)
                  [] OTHER -> "ty" :> IntT
  IN Written(IF k = "fn" THEN "fn" ELSE "impl", IF k = "fn" THEN "f" ELSE "", gens,
             [g \in ToSet(gens) |-> BoundsOf(s)],
             BoundTypesOf(s) @@ "i" :> H @@ "u" :> [path |-> u, args |-> <<>>] @@ target,
             <<"i">>, IF k = "fn" THEN <<>> ELSE "f" :> Plain, <<"u">>)

BoundPackage(k, s, u, gens) ==
  Package(<<Struct("S", <<"K">>, T(<<"K">>)), Trait("T", "t"), Bounded(k, s, u, gens)>>,
          <<Trait("T", "t")>>)
BoundWorlds ==
  {"bound"} \X {"fn", "impl"} \X Seqs(BoundTypes, 2) \X GenericUses \X {<<"H">>}
    \union {"bound"} \X {"fn", "impl"} \X {<<>>} \X GenericUses \X {<<"H", "H">>}
    \union {"bound"} \X {"block for Int"} \X Seqs({T(<<"T">>)}, 1) \X GenericUses \X {<<"H">>}

\* A definition with bounds, or with generic types of one name, is refused.
DefinitionPackage(k, gens, s, t) ==
  Package(<<Written(k, "S", gens, [g \in ToSet(gens) |-> BoundsOf(s)],
                    BoundTypesOf(s) @@ "ty" :> t, <<"ty">>,
                    IF k = "enum" THEN [V |-> ItemOf(FALSE, <<"ty">>)] ELSE <<>>, <<>>),
            Trait("T", "t")>>, <<>>)
DefinitionWorlds ==
  {"definition"} \X {"struct", "enum"} \X {<<"H">>, <<"H", "H">>} \X Seqs({T(<<"T">>)}, 1)
    \X {H, SelfT, T(<<"T">>), T(<<"S">>), T(<<"S", "H">>)}

-----------------------------------------------------------------------------

BodyPackage == Package(<<Import(P(<<"E", "V">>)), EnumE, Calls("main", P(<<"V">>))>>, <<>>)

PackageOf(w) ==
  CASE w[1] = "path" -> PathPackage(w[2], w[3])
    [] w[1] = "alias" -> AliasPackage(w[2], w[3], w[4], w[5])
    [] w[1] = "impl" -> ImplPackage(w[2], w[3], w[4], w[5], w[6])
    [] w[1] = "signature" -> SignaturePackage(w[2], w[3], w[4], w[5], w[6])
    [] w[1] = "bound" -> BoundPackage(w[2], w[3], w[4], w[5])
    [] w[1] = "definition" -> DefinitionPackage(w[2], w[3], w[4], w[5])
    [] OTHER -> BodyPackage

MCSources ==
  [w \in PathWorlds \union AliasWorlds \union ImplWorlds \union SignatureWorlds
           \union BoundWorlds \union DefinitionWorlds \union {<<"body">>} |-> PackageOf(w)]
MCDeps == {"dep"}
MCBodyParams == <<"x">>
MCBodyNames == {"x", "V"}
=============================================================================
