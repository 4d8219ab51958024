----------------------------- MODULE Collector -----------------------------
(***************************************************************************)
(* A playable package from its resolved bodies to the monomorphic program: *)
(* the types of its own functions are inferred, then Collector of          *)
(* biwac_mir_transform instantiates what scene main leads to, across all   *)
(* packages.  What the inference and the substitution of types compute are *)
(* parameters here (TypePipeline gives them); this module is the control.  *)
(*                                                                         *)
(* The collector m has instances and types (what is made, in the order it  *)
(* is found), seen and seenTys, the stacks fnWork and tyWork, strings (one *)
(* pool for the whole program) with remap (where a constant of a package   *)
(* went), and errors.  A key [fn, args] names an instance: args is a       *)
(* function from the generic types of fn to types.                         *)
(***************************************************************************)
EXTENDS Naturals, Sequences, SequencesExt

CONSTANTS
  Progs,           \* what may be written in the package itself
  Own,             \* the functions of the package itself
  DepFns,          \* the functions whose MIR the dependencies have
  DepItems,        \* DepFns :> MIR
  Main,            \* scene main, one of Own
  InstanceLimit,   \* INSTANCE_LIMIT
  Pools,           \* package :> the strings of its MIR
  Contents,        \* type :> [members, parts], the definition of its content
  Infer(_, _),     \* the tables of an own function of a program
  Item(_, _),      \* the MIR of an own function, from its tables
  PkgOf(_),        \* the package of a function
  Callee(_, _),    \* the key of the instance that a call is of, NoInstance for none
  Put(_, _, _),    \* a type with types put in for its generic types of a kind
  GenSubst(_),     \* what stands for the generic types of the definition of a type
  Concrete(_)

\* The MIR of function f, tab being its tables if it is an own one.
MirOf(f, tab) == IF f \in Own THEN Item(f, tab) ELSE DepItems[f]

HasMir(f) == f \in Own \union DepFns

\* MIR is a list of types, string constants and calls, and what is written in
\* the definition of a type is a list of types.
IsListOf(parts, kinds) ==
  Len(parts) \in Nat /\ \A i \in 1 .. Len(parts) : parts[i].part \in kinds

PartKinds == {"ty", "str", "call"}

ASSUME ListAssumption ==
  /\ \A p \in Progs : \A f \in Own :
       LET tab == Infer(p, f) IN tab.err = "" => IsListOf(Item(f, tab).parts, PartKinds)
  /\ \A f \in DepFns : IsListOf(DepItems[f].parts, PartKinds)
  /\ \A n \in DOMAIN Contents : IsListOf(Contents[n].parts, {"ty"})

ASSUME LimitAssumption == InstanceLimit \in Nat

VARIABLES
  prog,      \* one of Progs
  phase,     \* "infer", "mono", "done", "rejected"
  tabs,      \* the tables of the own functions inferred so far
  m          \* the collector

vars == <<prog, phase, tabs, m>>

-----------------------------------------------------------------------------

Key(f, args) == [fn |-> f, args |-> args]
MainKey == Key(Main, <<>>)
NoInstance == Key("-", <<>>)

NewCollector ==
  [instances |-> <<>>, seen |-> {}, fnWork |-> <<MainKey>>,
   types |-> <<>>, seenTys |-> {}, tyWork |-> <<>>,
   strings |-> <<>>, remap |-> <<>>, errors |-> {}]

Blame(c, e) == [c EXCEPT !.errors = @ \union {e}]

\* Mutant: what is queued is not remembered.
NoteTyAgain(c, t) ==
  IF Concrete(t) THEN [c EXCEPT !.tyWork = Append(@, t)] ELSE c

\* A defined type that is written somewhere is queued, once, if it is concrete.
NoteTy(c, t) ==
  IF Concrete(t) /\ t \notin c.seenTys
  THEN [c EXCEPT !.seenTys = @ \union {t}, !.tyWork = Append(@, t)]
  ELSE c

\* Mutant: the constants of the packages are not kept apart.
RemapStringShared(c, owner, id) ==
  IF \E k \in DOMAIN c.remap : k[2] = id
  THEN [c EXCEPT !.remap = [x \in DOMAIN @ \union {<<owner, id>>} |->
                              IF x = <<owner, id>> THEN @[CHOOSE k \in DOMAIN @ : k[2] = id]
                              ELSE @[x]]]
  ELSE [c EXCEPT !.strings = Append(@, Pools[owner][id]),
                 !.remap = [x \in DOMAIN @ \union {<<owner, id>>} |->
                              IF x = <<owner, id>> THEN Len(c.strings) + 1 ELSE @[x]]]

\* The pool with the text in it.
Interned(strings, text) ==
  IF \E i \in 1 .. Len(strings) : strings[i] = text THEN strings ELSE Append(strings, text)

PlaceOf(strings, text) == CHOOSE i \in 1 .. Len(strings) : strings[i] = text

\* A constant of a package goes where its text is, or is added.
RemapString(c, owner, id) ==
  LET strings == Interned(c.strings, Pools[owner][id])
      place   == PlaceOf(strings, Pools[owner][id])
  IN IF <<owner, id>> \in DOMAIN c.remap THEN c
     ELSE [c EXCEPT !.strings = strings,
                    !.remap = [x \in DOMAIN @ \union {<<owner, id>>} |->
                                 IF x = <<owner, id>> THEN place ELSE @[x]]]

\* Mutant: what a call through a trait comes to is not made.
LowerCallDirect(c, call, s) ==
  IF call.to.kind = "fn" THEN [c EXCEPT !.fnWork = Append(@, Callee(call, s))] ELSE c

\* What is called is queued.
LowerCallTo(c, kind, key) ==
  LET isOpen == kind = "fn" /\ \E g \in DOMAIN key.args : ~Concrete(key.args[g])
      queued == [c EXCEPT !.fnWork = Append(@, key)]
  IN CASE key = NoInstance ->
            Blame(c, [e |-> IF kind = "indirect" THEN "IndirectCall" ELSE "UnresolvedTraitCall"])
       [] key # NoInstance /\ isOpen ->
            Blame(queued, [e |-> "UnresolvedGenericArg", callee |-> key.fn])
       [] key # NoInstance /\ ~isOpen -> queued

LowerCall(c, call, s) == LowerCallTo(c, call.to.kind, Callee(call, s))

\* A part of a body or of the content of a type: a defined type written in it,
\* a string constant or a call.  s is put in for generic types of kind k.
Visit(c, part, k, s, owner) ==
  CASE part.part = "ty"   -> NoteTy(c, Put(part.ty, k, s))
    [] part.part = "str"  -> RemapString(c, owner, part.id)
    [] part.part = "call" -> LowerCall(c, part, s)

\* The parts are gone through from the first to the last.
Walk(c, parts, k, s, owner) ==
  LET after[n \in 0 .. Len(parts)] ==
        IF n = 0 THEN c ELSE Visit(after[n - 1], parts[n], k, s, owner)
  IN after[Len(parts)]

PartsOf(parts, part) == {p \in {parts[n] : n \in 1 .. Len(parts)} : p.part = part}

\* A call of an instance.
Linked(call, s) ==
  [to   |-> Callee(call, s),
   args |-> [j \in DOMAIN call.args |-> Put(call.args[j], "loc", s)],
   dest |-> Put(call.dest, "loc", s)]

\* An instance, its strings being where remap has them.
InstanceOf(key, item, remap) ==
  LET put(t) == Put(t, "loc", key.args)
  IN [key    |-> key,
      params |-> [i \in DOMAIN item.params |-> put(item.params[i])],
      rty    |-> put(item.rty),
      locals |-> {put(t) : t \in item.locals},
      strs   |-> [id \in {p.id : p \in PartsOf(item.parts, "str")} |-> remap[<<PkgOf(key.fn), id>>]],
      calls  |-> {Linked(p, key.args) : p \in PartsOf(item.parts, "call")}]

\* The body of a function becomes an instance.
Instantiate(c, key, item) ==
  LET walked == Walk(c, item.parts, "loc", key.args, PkgOf(key.fn))
  IN [walked EXCEPT !.instances = Append(@, InstanceOf(key, item, walked.remap))]

\* A type gets its definition.
InstantiateTy(c, t, content) ==
  LET walked == Walk(c, content.parts, "gen", GenSubst(t), "")
  IN [walked EXCEPT !.types = Append(@,
       [ty |-> t, members |-> {Put(u, "gen", GenSubst(t)) : u \in content.members}])]

-----------------------------------------------------------------------------

Init ==
  /\ prog \in Progs
  /\ phase = "infer"
  /\ tabs = <<>>
  /\ m = NewCollector

\* The functions are in a hash table.  The first error ends the build.
InferFn(f) ==
  /\ phase = "infer"
  /\ f \in Own \ DOMAIN tabs
  /\ tabs' = [g \in DOMAIN tabs \union {f} |-> IF g = f THEN Infer(prog, f) ELSE tabs[g]]
  /\ phase' = CASE tabs'[f].err # "" -> "rejected"
                [] tabs'[f].err = "" /\ DOMAIN tabs' = Own -> "mono"
                [] OTHER -> "infer"
  /\ UNCHANGED <<prog, m>>

IsCut == \E e \in m.errors : e.e = "TooManyInstances"

\* A function is taken from the stack.
Pops ==
  /\ phase = "mono"
  /\ m.fnWork # <<>>
  /\ ~IsCut

Top == Last(m.fnWork)

SkipSeen ==
  /\ Pops
  /\ Top \in m.seen
  /\ m' = [m EXCEPT !.fnWork = Front(@)]
  /\ UNCHANGED <<prog, phase, tabs>>

Popped == [m EXCEPT !.fnWork = Front(m.fnWork), !.seen = m.seen \union {Top}]

TooManyInstances ==
  /\ Pops
  /\ Top \notin m.seen
  /\ Len(m.instances) >= InstanceLimit
  /\ m' = Blame(Popped, [e |-> "TooManyInstances"])
  /\ UNCHANGED <<prog, phase, tabs>>

MissBody ==
  /\ Pops
  /\ Top \notin m.seen
  /\ Len(m.instances) < InstanceLimit
  /\ ~HasMir(Top.fn)
  /\ m' = Blame(Popped, [e |-> "MissingBody", fn |-> Top.fn])
  /\ UNCHANGED <<prog, phase, tabs>>

MakeInstance ==
  /\ Pops
  /\ Top \notin m.seen
  /\ Len(m.instances) < InstanceLimit
  /\ HasMir(Top.fn)
  /\ m' = Instantiate(Popped, Top, MirOf(Top.fn, tabs[Top.fn]))
  /\ UNCHANGED <<prog, phase, tabs>>

\* The types come when the functions are through.
TypesOnly == phase = "mono" /\ (m.fnWork = <<>> \/ IsCut)

TopTy == Last(m.tyWork)

MissTyDef ==
  /\ TypesOnly
  /\ m.tyWork # <<>>
  /\ TopTy.n \notin DOMAIN Contents
  /\ m' = Blame([m EXCEPT !.tyWork = Front(@)], [e |-> "MissingTyDef", ty |-> TopTy.n])
  /\ UNCHANGED <<prog, phase, tabs>>

\* The type on top of the stack gets its definition.
MakeType ==
  /\ TypesOnly
  /\ m.tyWork # <<>>
  /\ TopTy.n \in DOMAIN Contents
  /\ m' = InstantiateTy([m EXCEPT !.tyWork = Front(@)], TopTy, Contents[TopTy.n])
  /\ UNCHANGED <<prog, phase, tabs>>

Finish ==
  /\ TypesOnly
  /\ m.tyWork = <<>>
  /\ phase' = IF m.errors = {} THEN "done" ELSE "rejected"
  /\ UNCHANGED <<prog, tabs, m>>

Next ==
  \/ \E f \in Own : InferFn(f)
  \/ SkipSeen
  \/ TooManyInstances
  \/ MissBody
  \/ MakeInstance
  \/ MissTyDef
  \/ MakeType
  \/ Finish

Spec == Init /\ [][Next]_vars

-----------------------------------------------------------------------------
(* Properties *)

MadeKeys == {m.instances[i].key : i \in 1 .. Len(m.instances)}
MadeTypes == {m.types[i].ty : i \in 1 .. Len(m.types)}

\* The state has its shape: what is made was seen and is made once, there are
\* no more instances than the limit, and strings are where remap says.
TypeOK ==
  /\ prog \in Progs
  /\ phase \in {"infer", "mono", "done", "rejected"}
  /\ DOMAIN tabs \subseteq Own
  /\ Len(m.instances) <= InstanceLimit
  /\ MadeKeys \subseteq m.seen
  /\ \A i, j \in 1 .. Len(m.instances) : m.instances[i].key = m.instances[j].key => i = j
  /\ MadeTypes \union ToSet(m.tyWork) \subseteq m.seenTys
  /\ \A t \in m.seenTys : t.n \in DOMAIN Contents => t \in MadeTypes \union ToSet(m.tyWork)
  /\ \A i, j \in 1 .. Len(m.types) : m.types[i].ty = m.types[j].ty => i = j
  /\ \A x \in DOMAIN m.remap : m.remap[x] \in 1 .. Len(m.strings)

\* Every string constant of an instance is still the text its package wrote.
StringsKept ==
  \A i \in 1 .. Len(m.instances) :
    LET inst == m.instances[i]
    IN \A id \in DOMAIN inst.strs : m.strings[inst.strs[id]] = Pools[PkgOf(inst.key.fn)][id]

\* In the finished program every call of an instance leads to an instance, and
\* to just one.
CallsAreLinked ==
  phase = "done" =>
    \A i \in 1 .. Len(m.instances) : \A c \in m.instances[i].calls :
      /\ c.to \in MadeKeys
      /\ \A j, k \in 1 .. Len(m.instances) :
           m.instances[j].key = c.to /\ m.instances[k].key = c.to => j = k

\* In the finished program every concrete defined type that is written in the
\* MIR of an instance, or in the definition of a type, has its definition, and
\* just one.
IsDefinedOnce(t) ==
  /\ t \in MadeTypes
  /\ \A i, j \in 1 .. Len(m.types) : m.types[i].ty = t /\ m.types[j].ty = t => i = j

TypesAreDefined ==
  phase = "done" =>
    /\ \A k \in MadeKeys : \A p \in PartsOf(MirOf(k.fn, tabs[k.fn]).parts, "ty") :
         LET t == Put(p.ty, "loc", k.args) IN Concrete(t) => IsDefinedOnce(t)
    /\ \A u \in MadeTypes : \A p \in PartsOf(Contents[u.n].parts, "ty") :
         LET t == Put(p.ty, "gen", GenSubst(u)) IN Concrete(t) => IsDefinedOnce(t)

-----------------------------------------------------------------------------
(* The functions are a worklist: the instances made are the closure of     *)
(* scene main under calls.  A node carries the program, for its calls are  *)
(* those of that program's bodies.                                         *)

Node(p, k) == [prog |-> p, key |-> k]

Calls(n) ==
  IF HasMir(n.key.fn)
  THEN {Node(n.prog, Callee(c, n.key.args)) : c \in PartsOf(MirOf(n.key.fn, Infer(n.prog, n.key.fn)).parts, "call")}
         \ {Node(n.prog, NoInstance)}
  ELSE {}

\* What is through: made, or known to have no body.  The one that comes when
\* there are too many stays to be done.
Through ==
  {k \in m.seen : \/ k \in MadeKeys
                  \/ ~HasMir(k.fn) /\ [e |-> "MissingBody", fn |-> k.fn] \in m.errors}

Worklist == INSTANCE Closure WITH
  Succ  <- Calls,
  Roots <- [prog : Progs, key : {MainKey}],
  root  <- Node(prog, MainKey),
  done  <- {Node(prog, k) : k \in Through},
  todo  <- {Node(prog, k) : k \in (m.seen \union ToSet(m.fnWork)) \ Through}

\* The detailed collector implements the worklist.
IsWorklist == Worklist!Spec
=============================================================================
