------------------------------- MODULE Types -------------------------------
(***************************************************************************)
(* The types of biwac_hir and the operations on them that need no context: *)
(* substitution, overlap of implementations, matching, and the subject of  *)
(* the import statements that a type causes.                               *)
(*                                                                         *)
(* A type is [k |-> kind, n |-> name, a |-> arguments].  The kinds: "prim" *)
(* (Int, Float, Bool, Void), "def" (a struct, an enum, a native type),     *)
(* "fn" (the arguments and then the result), "gen" (a generic type of a    *)
(* type definition or a trait), "loc" (one of a function or an impl block) *)
(* and "var" (a variable of the inference).  A function type that a        *)
(* program writes declares no generic types of its own, so they are left   *)
(* out, and so are the spans, which equality does not look at.             *)
(***************************************************************************)
EXTENDS Naturals, Sequences, FiniteSets, SequencesExt, TLC

Ty(k, n, a) == [k |-> k, n |-> n, a |-> a]

IntTy   == Ty("prim", "Int", <<>>)
FloatTy == Ty("prim", "Float", <<>>)
BoolTy  == Ty("prim", "Bool", <<>>)
VoidTy  == Ty("prim", "Void", <<>>)

Defined(n, args) == Ty("def", n, args)
Fn(args, rty)    == Ty("fn", "", Append(args, rty))
Gen(n)           == Ty("gen", n, <<>>)
LocGen(n)        == Ty("loc", n, <<>>)
TyVar(i)         == Ty("var", "?" \o ToString(i), <<>>)

\* The definition that implementations for the type belong to, NoDef for none.
NoDef == "-"
DefOf(t) == IF t.k \in {"prim", "def"} THEN t.n ELSE NoDef

NoSubst == <<>>

-----------------------------------------------------------------------------

\* The type with s[n] for every name n of kind k that s is defined on.
RECURSIVE SubstTy(_, _, _)
SubstTy(t, k, s) ==
  IF t.k = k /\ t.n \in DOMAIN s THEN s[t.n]
  ELSE [t EXCEPT !.a = [i \in DOMAIN t.a |-> SubstTy(t.a[i], k, s)]]

RECURSIVE NamesIn(_, _)
NamesIn(t, k) ==
  (IF t.k = k THEN {t.n} ELSE {}) \union UNION {NamesIn(t.a[i], k) : i \in DOMAIN t.a}

NamesInAll(ts, k) == UNION {NamesIn(ts[i], k) : i \in DOMAIN ts}

IsConcrete(t) == \A k \in {"gen", "loc", "var"} : NamesIn(t, k) = {}

\* The substitution of args for the names, one by one.
Assigning(names, args) ==
  [n \in ToSet(names) |-> args[CHOOSE i \in DOMAIN names : names[i] = n]]

\* Could the two be one type?  A generic type or a variable could be any.
RECURSIVE Overlaps(_, _)
Overlaps(s, t) ==
  \/ {s.k, t.k} \intersect {"gen", "loc", "var"} # {}
  \/ /\ s.k = t.k
     /\ s.n = t.n
     /\ Len(s.a) = Len(t.a)
     /\ \A i \in DOMAIN s.a : Overlaps(s.a[i], t.a[i])

OverlapAll(ss, ts) ==
  Len(ss) = Len(ts) /\ \A i \in DOMAIN ss : Overlaps(ss[i], ts[i])

-----------------------------------------------------------------------------
(* Matching the type of an impl block against a concrete type: m is        *)
(* [ok |-> BOOLEAN, s |-> what its generic types stand for so far].        *)

RECURSIVE MatchTy(_, _, _)
MatchAll(m, ps, ts) ==
  IF Len(ps) # Len(ts) THEN [m EXCEPT !.ok = FALSE]
  ELSE FoldLeftDomain(LAMBDA r, i : MatchTy(r, ps[i], ts[i]), m, ps)

MatchTy(m, p, t) ==
  CASE ~m.ok -> m
    [] p.k = "loc" /\ p.n \in DOMAIN m.s -> [m EXCEPT !.ok = m.s[p.n] = t]
    [] p.k = "loc" -> [m EXCEPT !.s = (p.n :> t) @@ @]
    [] p.k = "def" /\ t.k = "def" /\ p.n = t.n -> MatchAll(m, p.a, t.a)
    [] OTHER -> [m EXCEPT !.ok = p = t]

-----------------------------------------------------------------------------

\* The defined types in a type, those inside first.
RECURSIVE DefinedIn(_)
DefinedIn(t) ==
  FoldLeftDomain(LAMBDA s, i : s \o DefinedIn(t.a[i]), <<>>, t.a)
    \o (IF t.k = "def" THEN <<t>> ELSE <<>>)

\* The types of other packages that an import is needed for.
DependedTys(t, foreign) == {d.n : d \in ToSet(DefinedIn(t))} \intersect foreign
=============================================================================
