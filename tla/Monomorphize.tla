---------------------------- MODULE Monomorphize ----------------------------
(***************************************************************************)
(* What Collector of biwac_mir_transform makes of MIR, of types and of     *)
(* calls.  Of an item of MIR what is kept is its parameters and result,    *)
(* the types of its locals, its calls and its string constants.  The order *)
(* in which types are found is left open where nothing hangs on it: locals *)
(* and members are sets.                                                   *)
(***************************************************************************)
EXTENDS TypeRules, Collector

TyPart(t)       == [part |-> "ty", ty |-> t]
StrPart(id)     == [part |-> "str", id |-> id]

\* The defined types written in some types.
TyParts(ts) ==
  LET found == UNION {ToSet(DefinedIn(t)) : t \in ts}
  IN [i \in 1 .. Cardinality(found) |-> TyPart(SetToSeq(found)[i])]

-----------------------------------------------------------------------------
(* The MIR of a function, from the tables of its inference *)

\* The types that MIR mentions: of the parameters, the result, the locals.
TypesIn(tab, sig) ==
  {tab.exprs[p] : p \in DOMAIN tab.exprs} \union {tab.vars[x] : x \in DOMAIN tab.vars}
    \union {sig.rty}

Params(sig) == (IF sig.self = NoTy THEN <<>> ELSE <<sig.self>>) \o sig.args

CallPart(tab, s) ==
  [part |-> "call", to |-> s.to, self |-> s.self, genargs |-> CallGenargs(tab, s.path),
   args |-> [j \in DOMAIN s.args |-> tab.exprs[s.args[j]]], dest |-> tab.exprs[s.path]]

\* The types of a call are gone through, then the call itself.
CallParts(tab, s) ==
  LET call == CallPart(tab, s)
  IN Append(TyParts({call.genargs[g] : g \in DOMAIN call.genargs}
                      \union (IF call.to.kind = "trait" THEN {call.self} ELSE {})), call)

\* A body without tables is native code.
ItemOf(f, tab) ==
  LET sig    == Fns[f].sig
      locals == IF Fns[f].native THEN ToSet(Params(sig)) \union {sig.rty} ELSE TypesIn(tab, sig)
      strs   == [i \in DOMAIN Fns[f].strs |-> StrPart(Fns[f].strs[i])]
      calls  == [i \in DOMAIN tab.sites |-> CallParts(tab, tab.sites[i])]
  IN [params |-> Params(sig), rty |-> sig.rty, locals |-> locals,
      parts  |-> TyParts(locals) \o (IF Fns[f].native THEN <<>> ELSE FlattenSeq(calls)) \o strs]

-----------------------------------------------------------------------------
(* Types *)

\* The types of the members or of the fields.
MembersOf(def) ==
  CASE def.kind = "struct" -> {def.members[f] : f \in DOMAIN def.members}
    [] def.kind = "enum"   -> UNION {{def.variants[v].fields[i].ty :
                                        i \in DOMAIN def.variants[v].fields} :
                                      v \in DOMAIN def.variants}
    [] OTHER -> {}

\* Mutant: the types of the members are not looked at.
ContentAlone(n) == [members |-> MembersOf(TyDefs[n]), parts |-> <<>>]

ContentOf(n) ==
  LET members == MembersOf(TyDefs[n])
  IN [members |-> members, parts |-> TyParts(members)]

\* What stands for the generic types of the definition of t.
ArgsOf(t) == Assigning(TyDefs[t.n].gens, t.a)

-----------------------------------------------------------------------------
(* Calls *)

SubstAll(genargs, s) == [g \in DOMAIN genargs |-> SubstTy(genargs[g], "loc", s)]

\* Mutant: the generic types of the item are counted from the first one.
ImplKeyFromFirst(impl, item, t, genargs) ==
  LET matched == MatchAll([ok |-> TRUE, s |-> NoSubst], impl.args, t.a)
      f       == impl.vals[item[2]]
      params  == AllGens(Fns[f].sig)
      own     == Traits[item[1]].items[item[2]].gens
  IN Key(f, [g \in {params[i].id : i \in DOMAIN own} |->
               genargs[own[CHOOSE i \in DOMAIN own : params[i].id = g].id]]
             @@ matched.s)

\* What an implementation makes of a call: the generic types of its block from
\* the match with the type, those of the item by their position.
ImplKey(impl, item, t, genargs) ==
  LET matched == MatchAll([ok |-> TRUE, s |-> NoSubst], impl.args, t.a)
      f       == impl.vals[item[2]]
      params  == AllGens(Fns[f].sig)
      own     == Traits[item[1]].items[item[2]].gens
      before  == Len(params) - Len(own)
  IN Key(f, [g \in {params[before + i].id : i \in DOMAIN own} |->
               genargs[own[CHOOSE i \in DOMAIN own : params[before + i].id = g].id]]
             @@ matched.s)

\* The first implementation of the trait that fits the type.
ResolveTraitAssoc(item, t, genargs) ==
  LET fits(i) == /\ Impls[i].trait = item[1]
                 /\ Impls[i].on = DefOf(t)
                 /\ MatchAll([ok |-> TRUE, s |-> NoSubst], Impls[i].args, t.a).ok
                 /\ item[2] \in DOMAIN Impls[i].vals
      those   == SelectSeq([i \in DOMAIN Impls |-> i], fits)
  IN IF those = <<>> THEN NoInstance ELSE ImplKey(Impls[those[1]], item, t, genargs)

\* The instance that a call of an instance is of, NoInstance for none.
CalleeOf(call, s) ==
  CASE call.to.kind = "fn"    -> Key(call.to.fn, SubstAll(call.genargs, s))
    [] call.to.kind = "trait" -> ResolveTraitAssoc(call.to.item, SubstTy(call.self, "loc", s),
                                                   SubstAll(call.genargs, s))
    [] OTHER -> NoInstance
=============================================================================
