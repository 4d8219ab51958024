---------------------------- MODULE TypePipeline ----------------------------
(***************************************************************************)
(* The parameters of Collector, from the inference of types and from what  *)
(* Monomorphize says of MIR: what is written in the package itself is      *)
(* prog, where main is the body of Main and reversed is the order in which *)
(* the hash tables of this process give back the members of struct         *)
(* literals.  The bodies of a dependency were inferred when it was built;  *)
(* they never change here.                                                 *)
(***************************************************************************)
EXTENDS Monomorphize

CONSTANTS
  Mains,     \* name :> body
  Lost       \* functions whose body the .biwamir on disk does not have

ProgsOf == [main : DOMAIN Mains, reversed : BOOLEAN]

BodyOf(p, f) == IF f = Main THEN Mains[p.main] ELSE Fns[f].body

InferIn(p, f) == InferFnBody(f, BodyOf(p, f), p.reversed)

\* The MIR of the dependencies; native code has no tables.
DepFnsOf == DOMAIN Fns \ (Own \union Lost)

NoTab == <<>>
DepTabs ==
  [f \in DepFnsOf |-> IF Fns[f].native THEN NoTab ELSE InferFnBody(f, Fns[f].body, FALSE)]
DepItemsOf == [f \in DepFnsOf |-> ItemOf(f, DepTabs[f])]

PackageOf(f) == Fns[f].pkg

ContentsOf == [n \in DOMAIN TyDefs |-> ContentOf(n)]

-----------------------------------------------------------------------------
(* Properties *)

KeyOk(k) ==
  /\ DOMAIN k = {"fn", "args"}
  /\ k.fn \in DOMAIN Fns
  /\ DOMAIN k.args \subseteq GenIds(AllGens(Fns[k.fn].sig))

\* A body that the inference accepts is well typed: the types it leaves behind
\* satisfy the rule of every construct in it.  The rules leave out what is not
\* looked at: an operator that was met when its operand was a variable (its
\* two sides are of one type, but that may come out as any), and whether a
\* bound is met by more than the head of a type.  The tables do not change
\* again, so it is enough to look when the last is there and nothing is made.
AcceptedIsWellTyped ==
  phase # "infer" /\ m.seen = {} => \A f \in DOMAIN tabs :
    tabs[f].err = "" => WellTyped(tabs[f], Fns[f].sig, BodyOf(prog, f))

\* At every call in an accepted body, of the package or of a dependency, the
\* head of a type decides as the type itself would: no bound is met by an
\* implementation for other arguments of the type or the trait only.
HeadsDecide ==
  /\ \A f \in {f \in DOMAIN tabs : tabs[f].err = ""} : HeadsDecideIn(tabs[f], Fns[f].sig)
  /\ \A f \in {f \in DepFnsOf : ~Fns[f].native} : HeadsDecideIn(DepTabs[f], Fns[f].sig)

\* In the finished program every call leads to an instance that was made, one
\* whose key assigns the function's own generic types, and passes and gets back
\* exactly the types that the instance has.  Left out are programs where heads
\* do not decide: where an implementation gives the trait other arguments than
\* the bound does, the call is made of its function all the same.
InstancesAreWellTyped ==
  phase = "done" /\ HeadsDecide =>
    \A i \in DOMAIN m.instances :
      \A c \in m.instances[i].calls :
        \E j \in DOMAIN m.instances :
          /\ m.instances[j].key = c.to
          /\ m.instances[j].params = c.args
          /\ m.instances[j].rty = c.dest
          /\ KeyOk(c.to)

\* In the finished program every concrete type that an instance or a type
\* mentions, at any depth, has its definition, and has it once.
TypesAreComplete ==
  phase = "done" =>
    LET mentioned == UNION {m.instances[i].locals : i \in DOMAIN m.instances}
                       \union UNION {m.types[i].members : i \in DOMAIN m.types}
        defined   == {d \in UNION {ToSet(DefinedIn(t)) : t \in mentioned} : IsConcrete(d)}
    IN \A d \in defined : Cardinality({i \in DOMAIN m.types : m.types[i].ty = d}) = 1

\* A call through a trait finds no implementation only where an accepted body
\* has a call whose bound is met by the head of a type alone: what is demanded
\* by a bound was checked for the trait and the head when the types became
\* known, and through instances of instances nothing else gets lost.
BoundsSuffice == HeadsDecide => [e |-> "UnresolvedTraitCall"] \notin m.errors
=============================================================================
