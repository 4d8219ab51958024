---------------------------- MODULE Unification ----------------------------
(***************************************************************************)
(* Unification in the type inference of one function body, and the         *)
(* instantiation of what a callee declares.                                *)
(*                                                                         *)
(* The context of the inference is a record c: subst (what the type        *)
(* variables stand for), next (the next variable), err ("" or the error    *)
(* that ends it), asg (what the generic types of the callee or of the type *)
(* in hand stand for), and the result of the last operation, a type in ty  *)
(* and a sequence of types in tys.  The other fields belong to             *)
(* TypeInference.                                                          *)
(***************************************************************************)
EXTENDS Types

Fail(c, e) == [c EXCEPT !.err = e]

\* The ? operator of the code: an error ends everything.
Then(c, Do(_)) == IF c.err # "" THEN c ELSE Do(c)

Yield(c, t) == [c EXCEPT !.ty = t]

Fresh(c) == [c EXCEPT !.next = @ + 1, !.ty = TyVar(c.next)]

-----------------------------------------------------------------------------

\* What the type stands for, at its head and inside of function types only.
RECURSIVE Apply(_, _)
Apply(c, t) ==
  CASE t.k = "var" /\ t.n \in DOMAIN c.subst -> Apply(c, c.subst[t.n])
    [] t.k = "fn" -> [t EXCEPT !.a = [i \in DOMAIN t.a |-> Apply(c, t.a[i])]]
    [] OTHER -> t

\* What it stands for all through.
RECURSIVE Resolve(_, _)
Resolve(c, t) ==
  IF t.k = "var" /\ t.n \in DOMAIN c.subst THEN Resolve(c, c.subst[t.n])
  ELSE [t EXCEPT !.a = [i \in DOMAIN t.a |-> Resolve(c, t.a[i])]]

RECURSIVE Occurs(_, _)
Occurs(v, t) ==
  \/ t = v
  \/ t.k = "fn" /\ \E i \in DOMAIN t.a : Occurs(v, t.a[i])

\* v is to stand for t.  The check for a variable inside its own type does not
\* look into defined types; v would then stand for itself, and resolving it at
\* the end of the inference, if nothing does so before, overflows the stack.
Bind(c, v, t) ==
  CASE t = v -> Yield(c, t)
    [] Occurs(v, t) -> Fail(c, "OccursCheckFailed")
    [] v.n \in NamesIn(Resolve(c, t), "var") -> Fail(c, "stack overflow")
    [] OTHER -> [c EXCEPT !.subst = (v.n :> t) @@ @, !.ty = t]

-----------------------------------------------------------------------------
(* Instantiation: a generic type in which becomes what it is assigned, and *)
(* a fresh variable is assigned to it first if there is nothing yet.       *)

RECURSIVE Embody(_, _, _)
Embody(c, t, which) ==
  CASE t.k = "loc" /\ t.n \in which /\ t.n \in DOMAIN c.asg -> Yield(c, c.asg[t.n])
    [] t.k = "loc" /\ t.n \in which ->
         LET d == Fresh(c) IN [d EXCEPT !.asg = (t.n :> d.ty) @@ @]
    [] t.k \in {"def", "fn"} ->
         LET embodied ==
               FoldLeft(LAMBDA d, s : LET r == Embody(d, s, which)
                                      IN [r EXCEPT !.tys = Append(d.tys, r.ty)],
                        [c EXCEPT !.tys = <<>>], t.a)
         IN Yield(embodied, [t EXCEPT !.a = embodied.tys])
    [] OTHER -> Yield(c, t)

CallEmbody(c, t) == Embody(c, t, NamesIn(t, "loc"))

-----------------------------------------------------------------------------
(* One unification in three modes: "plain" of two types of the body,       *)
(* "call" of what a callee declares with what is at the call, and "defn"   *)
(* of what a type definition declares with what is at its use.             *)

\* The kind of generic type that the declaring side may contain.
GenericOf(mode) == CASE mode = "call" -> "loc" [] mode = "defn" -> "gen" [] OTHER -> "none"

RECURSIVE UnifyBy(_, _, _, _)

\* Mutant: what the generic type stood for is forgotten, not compared.
AssignAnew(c, n, t) == [c EXCEPT !.asg = (n :> t) @@ @, !.ty = t]

\* A generic type stands for one type, whatever is unified with it.
AssignGen(c, n, t) ==
  IF n \notin DOMAIN c.asg THEN [c EXCEPT !.asg = (n :> t) @@ @, !.ty = t]
  ELSE LET r == UnifyBy("plain", c, c.asg[n], t)
       IN [r EXCEPT !.asg = (n :> r.ty) @@ @]

UnifyAll(mode, c, ss, ts) ==
  FoldLeftDomain(LAMBDA d, i :
                   Then(d, LAMBDA d1 : LET r == UnifyBy(mode, d1, ss[i], ts[i])
                                       IN [r EXCEPT !.tys = Append(d1.tys, r.ty)]),
                 [c EXCEPT !.tys = <<>>], ss)

\* The two types are known at their heads.
UnifyHeads(mode, c, s, t) ==
  LET embodied(d, u) == IF mode = "call" THEN CallEmbody(d, u) ELSE Yield(d, u)
      bound(v, d) == Bind(d, v, d.ty)
  IN CASE s.k = "var" -> bound(s, embodied(c, t))
       [] t.k = "var" -> bound(t, embodied(c, s))
       [] s.k = "fn" /\ t.k = "fn" /\ Len(s.a) # Len(t.a) ->
            Fail(c, "FnArgLenMismatched")
       [] s.k = t.k /\ s.k \in {"fn", "def"} /\ s.n = t.n ->
            IF Len(s.a) # Len(t.a) THEN Fail(c, "panic")
            ELSE Then(UnifyAll(mode, c, s.a, t.a), LAMBDA d : Yield(d, [s EXCEPT !.a = d.tys]))
       [] s.k = GenericOf(mode) -> AssignGen(c, s.n, t)
       [] mode # "defn" /\ "gen" \in {s.k, t.k} -> Fail(c, "panic")
       [] s = t -> embodied(c, s)
       [] OTHER -> Fail(c, "TypeConfliced")

UnifyBy(mode, c, s, t) == UnifyHeads(mode, c, Apply(c, s), Apply(c, t))

Unify(c, s, t) == Then(c, LAMBDA d : UnifyBy("plain", d, s, t))
=============================================================================
