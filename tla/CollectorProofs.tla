-------------------------- MODULE CollectorProofs --------------------------
(***************************************************************************)
(* What Collector promises holds for every program, whatever the inference *)
(* and the substitution of types compute: the instances are the closure of *)
(* scene main under calls, every call of the finished program leads to its *)
(* instance and every written type to its definition, once each, and every *)
(* string constant keeps its text.                                         *)
(***************************************************************************)
EXTENDS Collector, Induction

-----------------------------------------------------------------------------
(* Lists *)

IsList(s) == Len(s) \in Nat /\ s = [i \in 1 .. Len(s) |-> s[i]]

\* They are sequences.
LEMMA ListIsSeq ==
  ASSUME NEW s, IsList(s)
  PROVE  s \in Seq(ToSet(s)) /\ DOMAIN s = 1 .. Len(s)
<1>1. DOMAIN s = 1 .. Len(s)
  BY DEF IsList
<1>2. \A i \in 1 .. Len(s) : s[i] \in ToSet(s)
  BY <1>1 DEF ToSet
<1>3. s \in [1 .. Len(s) -> ToSet(s)]
  BY <1>2 DEF IsList
<1> QED
  BY <1>1, <1>3 DEF IsList

LEMMA SeqIsList ==
  ASSUME NEW S, NEW s \in Seq(S)
  PROVE  IsList(s)
  BY DEF IsList

\* One more at the end.
LEMMA AppendIsList ==
  ASSUME NEW s, IsList(s), NEW x
  PROVE  /\ IsList(Append(s, x))
         /\ Len(Append(s, x)) = Len(s) + 1
         /\ ToSet(Append(s, x)) = ToSet(s) \union {x}
         /\ \A i \in 1 .. Len(s) : Append(s, x)[i] = s[i]
         /\ Append(s, x)[Len(s) + 1] = x
<1> DEFINE T == ToSet(s) \union {x}
           a == Append(s, x)
<1>1. s \in Seq(ToSet(s)) /\ DOMAIN s = 1 .. Len(s) /\ Len(s) \in Nat
  BY ListIsSeq DEF IsList
<1> HIDE DEF T
<1>2. s \in Seq(T) /\ x \in T
  BY <1>1 DEF T
<1>3. a \in Seq(T) /\ Len(a) = Len(s) + 1 /\ a[Len(s) + 1] = x
      /\ \A i \in 1 .. Len(s) : a[i] = s[i]
  BY <1>2
<1>4. DOMAIN a = 1 .. Len(s) + 1
  BY <1>1, <1>3
<1> HIDE DEF a
<1>5. ToSet(a) \subseteq ToSet(s) \union {x}
  <2>1. ASSUME NEW i \in 1 .. Len(s) + 1 PROVE a[i] \in ToSet(s) \union {x}
    <3>1. CASE i = Len(s) + 1
      BY <1>3, <3>1
    <3>2. CASE i \in 1 .. Len(s)
      BY <1>1, <1>3, <3>2 DEF ToSet
    <3> QED
      BY <1>1, <3>1, <3>2
  <2> QED
    BY <1>4, <2>1 DEF ToSet
<1>6. ToSet(s) \union {x} \subseteq ToSet(a)
  <2>1. \A i \in 1 .. Len(s) : i \in DOMAIN a
    BY <1>1, <1>4
  <2>2. Len(s) + 1 \in DOMAIN a
    BY <1>1, <1>4
  <2>3. x \in ToSet(a)
    BY <2>2, <1>3 DEF ToSet
  <2>4. ToSet(s) \subseteq ToSet(a)
    BY <2>1, <1>1, <1>3 DEF ToSet
  <2> QED
    BY <2>3, <2>4
<1>7. IsList(a)
  BY <1>3, SeqIsList
<1> QED
  BY <1>3, <1>5, <1>6, <1>7 DEF a

\* One less at the end.
LEMMA FrontIsList ==
  ASSUME NEW s, IsList(s), s # <<>>
  PROVE  /\ IsList(Front(s))
         /\ Len(Front(s)) = Len(s) - 1
         /\ Len(s) >= 1
         /\ \A i \in 1 .. Len(s) - 1 : Front(s)[i] = s[i]
         /\ Last(s) = s[Len(s)]
         /\ ToSet(s) = ToSet(Front(s)) \union {Last(s)}
<1> DEFINE a == Front(s)
<1>1. s \in Seq(ToSet(s)) /\ DOMAIN s = 1 .. Len(s) /\ Len(s) \in Nat
  BY ListIsSeq DEF IsList
<1>2. Len(s) >= 1
  BY <1>1
<1>3. a \in Seq(ToSet(s)) /\ Len(a) = Len(s) - 1 /\ \A i \in 1 .. Len(s) - 1 : a[i] = s[i]
  BY <1>1, <1>2 DEF Front
<1>4. Last(s) = s[Len(s)]
  BY DEF Last
<1>5. DOMAIN a = 1 .. Len(s) - 1
  BY <1>1, <1>2, <1>3
<1> HIDE DEF a
<1>6. ToSet(s) = ToSet(a) \union {s[Len(s)]}
  <2>1. ASSUME NEW i \in 1 .. Len(s) PROVE s[i] \in ToSet(a) \union {s[Len(s)]}
    <3>1. CASE i = Len(s)
      BY <3>1
    <3>2. CASE i # Len(s)
      <4>1. Len(s) \in Nat
        BY DEF IsList
      <4>2. i \in 1 .. Len(s) - 1
        BY <4>1, <3>2
      <4> QED
        BY <4>2, <1>3, <1>5 DEF ToSet
    <3> QED
      BY <3>1, <3>2
  <2>2. ASSUME NEW i \in 1 .. Len(s) - 1 PROVE a[i] \in ToSet(s)
    <3>1. i \in 1 .. Len(s)
      BY <1>1
    <3> QED
      BY <3>1, <1>1, <1>3 DEF ToSet
  <2>3. s[Len(s)] \in ToSet(s)
    BY <1>1, <1>2 DEF ToSet
  <2> QED
    BY <2>1, <2>2, <2>3, <1>1, <1>5 DEF ToSet
<1>7. IsList(a)
  BY <1>3, SeqIsList
<1> QED
  BY <1>2, <1>3, <1>4, <1>6, <1>7 DEF a

-----------------------------------------------------------------------------
(* Walking through the parts of a body *)

\* The collectors on the way.
Walks(f, c, parts, k, s, owner) ==
  /\ f[0] = c
  /\ \A n \in 1 .. Len(parts) : f[n] = Visit(f[n - 1], parts[n], k, s, owner)

\* Walk follows such a function.
LEMMA WalkSteps ==
  ASSUME NEW c, NEW parts, Len(parts) \in Nat, NEW k, NEW s, NEW owner
  PROVE  \E f : Walks(f, c, parts, k, s, owner) /\ Walk(c, parts, k, s, owner) = f[Len(parts)]
<1> DEFINE Upto(f, M) ==
             f = [n \in 0 .. M |-> IF n = 0 THEN c ELSE Visit(f[n - 1], parts[n], k, s, owner)]
           S == {M \in Nat : \E f : Upto(f, M)}
<1>1. 0 \in S
  <2>1. Upto([n \in 0 .. 0 |-> c], 0)
    OBVIOUS
  <2> QED
    BY <2>1
<1>2. ASSUME NEW M \in Nat, M \in S PROVE M + 1 \in S
  <2>1. PICK f : Upto(f, M)
    BY <1>2
  <2> DEFINE g == [n \in 0 .. M + 1 |->
                     IF n = M + 1 THEN Visit(f[M], parts[M + 1], k, s, owner) ELSE f[n]]
  <2>2. \A n \in 0 .. M : f[n] = IF n = 0 THEN c ELSE Visit(f[n - 1], parts[n], k, s, owner)
    BY <2>1
  <2>3. ASSUME NEW n \in 0 .. M + 1
        PROVE  g[n] = IF n = 0 THEN c ELSE Visit(g[n - 1], parts[n], k, s, owner)
    <3>1. CASE n = M + 1
      <4>1. n - 1 = M /\ n # 0 /\ n - 1 \in 0 .. M + 1 /\ M # M + 1
        BY <3>1
      <4> QED
        BY <3>1, <4>1
    <3>2. CASE n # M + 1
      <4>1. n \in 0 .. M /\ (n # 0 => n - 1 \in 0 .. M + 1 /\ n - 1 # M + 1)
        BY <3>2
      <4> QED
        BY <3>2, <4>1, <2>2
    <3> QED
      BY <3>1, <3>2
  <2>4. Upto(g, M + 1)
    <3>1. g = [n \in 0 .. M + 1 |-> g[n]]
      OBVIOUS
    <3> HIDE DEF g
    <3>2. [n \in 0 .. M + 1 |-> g[n]]
            = [n \in 0 .. M + 1 |-> IF n = 0 THEN c ELSE Visit(g[n - 1], parts[n], k, s, owner)]
      BY <2>3
    <3> QED
      BY <3>1, <3>2
  <2> HIDE DEF Upto, g
  <2> QED
    BY <2>4
<1>3. Nat \subseteq S
  <2> HIDE DEF S
  <2> QED
    BY <1>1, <1>2, SetInduction
<1> DEFINE N == Len(parts)
           f == CHOOSE f : Upto(f, N)
<1>4. Upto(f, N)
  <2>1. \E g : Upto(g, N)
    BY <1>3
  <2> HIDE DEF Upto
  <2> QED
    BY <2>1
<1>5. Walk(c, parts, k, s, owner) = f[N]
  BY DEF Walk
<1> HIDE DEF f
<1>6. \A n \in 0 .. N : f[n] = IF n = 0 THEN c ELSE Visit(f[n - 1], parts[n], k, s, owner)
  BY <1>4
<1>7. Walks(f, c, parts, k, s, owner)
  BY <1>6 DEF Walks
<1> QED
  BY <1>5, <1>7

-----------------------------------------------------------------------------
(* One part *)

\* A collector has its nine fields, and lists in five of them.
IsCollector(c) ==
  /\ c = [instances |-> c.instances, seen |-> c.seen, fnWork |-> c.fnWork,
          types |-> c.types, seenTys |-> c.seenTys, tyWork |-> c.tyWork,
          strings |-> c.strings, remap |-> c.remap, errors |-> c.errors]
  /\ IsList(c.instances) /\ IsList(c.fnWork) /\ IsList(c.types)
  /\ IsList(c.tyWork) /\ IsList(c.strings)

\* What a visit leaves alone.
SameMade(c, d) == d.instances = c.instances /\ d.types = c.types /\ d.seen = c.seen

SameWork(c, d) == d.fnWork = c.fnWork /\ d.errors = c.errors

SameTypes(c, d) == d.seenTys = c.seenTys /\ d.tyWork = c.tyWork

SameTexts(c, d) == d.strings = c.strings /\ d.remap = c.remap

\* A type.
LEMMA NoteTyDoes ==
  ASSUME NEW c, IsCollector(c), NEW t
  PROVE  LET d == NoteTy(c, t) IN
         /\ IsCollector(d) /\ SameMade(c, d) /\ SameWork(c, d) /\ SameTexts(c, d)
         /\ IF Concrete(t) /\ t \notin c.seenTys
            THEN d.seenTys = c.seenTys \union {t} /\ d.tyWork = Append(c.tyWork, t)
            ELSE SameTypes(c, d)
<1>1. CASE Concrete(t) /\ t \notin c.seenTys
  <2>1. NoteTy(c, t) =
          [instances |-> c.instances, seen |-> c.seen, fnWork |-> c.fnWork,
           types |-> c.types, seenTys |-> c.seenTys \union {t}, tyWork |-> Append(c.tyWork, t),
           strings |-> c.strings, remap |-> c.remap, errors |-> c.errors]
    BY <1>1 DEF NoteTy, IsCollector
  <2>2. IsList(Append(c.tyWork, t))
    BY AppendIsList DEF IsCollector
  <2> QED
    BY <1>1, <2>1, <2>2 DEF IsCollector, SameMade, SameWork, SameTexts
<1>2. CASE ~(Concrete(t) /\ t \notin c.seenTys)
  <2>1. NoteTy(c, t) = c
    BY <1>2 DEF NoteTy
  <2> QED
    BY <1>2, <2>1 DEF SameMade, SameWork, SameTexts, SameTypes
<1> QED
  BY <1>1, <1>2

\* A string constant.
LEMMA RemapStringDoes ==
  ASSUME NEW c, IsCollector(c), NEW owner, NEW id
  PROVE  LET d == RemapString(c, owner, id)
             x == <<owner, id>>
             text == Pools[owner][id]
         IN
         /\ IsCollector(d) /\ SameMade(c, d) /\ SameWork(c, d) /\ SameTypes(c, d)
         /\ IF x \in DOMAIN c.remap THEN SameTexts(c, d)
            ELSE /\ d.strings = Interned(c.strings, text)
                 /\ d.remap = [y \in DOMAIN c.remap \union {x} |->
                                 IF y = x THEN PlaceOf(Interned(c.strings, text), text)
                                 ELSE c.remap[y]]
<1> DEFINE x == <<owner, id>>
           text == Pools[owner][id]
           strings == Interned(c.strings, text)
           remap == [y \in DOMAIN c.remap \union {x} |->
                       IF y = x THEN PlaceOf(strings, text) ELSE c.remap[y]]
<1>1. CASE x \notin DOMAIN c.remap
  <2>1. RemapString(c, owner, id) =
          [c EXCEPT !.strings = strings,
                    !.remap = [y \in DOMAIN @ \union {x} |->
                                 IF y = x THEN PlaceOf(strings, text) ELSE @[y]]]
    BY <1>1 DEF RemapString
  <2>2. IsList(strings)
    BY AppendIsList DEF IsCollector, Interned
  <2> HIDE DEF strings, text, x
  <2>3. RemapString(c, owner, id) =
          [instances |-> c.instances, seen |-> c.seen, fnWork |-> c.fnWork,
           types |-> c.types, seenTys |-> c.seenTys, tyWork |-> c.tyWork,
           strings |-> strings, remap |-> remap, errors |-> c.errors]
    BY <2>1 DEF IsCollector
  <2> HIDE DEF remap
  <2>4. LET d == RemapString(c, owner, id) IN
        /\ IsCollector(d) /\ SameMade(c, d) /\ SameWork(c, d) /\ SameTypes(c, d)
        /\ d.strings = strings /\ d.remap = remap
    BY <2>2, <2>3 DEF IsCollector, SameMade, SameWork, SameTypes
  <2> QED
    BY <1>1, <2>4 DEF remap, strings, text, x
<1>2. CASE x \in DOMAIN c.remap
  <2>1. RemapString(c, owner, id) = c
    BY <1>2 DEF RemapString
  <2> QED
    BY <1>2, <2>1 DEF SameMade, SameWork, SameTexts, SameTypes
<1> QED
  BY <1>1, <1>2

LEMMA RemapStringLeaves ==
  ASSUME NEW c, IsCollector(c), NEW owner, NEW id
  PROVE  /\ IsCollector(RemapString(c, owner, id))
         /\ SameMade(c, RemapString(c, owner, id))
         /\ SameWork(c, RemapString(c, owner, id))
         /\ SameTypes(c, RemapString(c, owner, id))
  BY RemapStringDoes

\* The errors that a call can make.
CallErrors == {"IndirectCall", "UnresolvedTraitCall", "UnresolvedGenericArg"}

\* The errors are those there were and some of calls.
OnlyCallErrors(c, d) ==
  c.errors \subseteq d.errors /\ \A e \in d.errors \ c.errors : e.e \in CallErrors

\* A call.
LEMMA LowerCallDoes ==
  ASSUME NEW c, IsCollector(c), NEW call, NEW s
  PROVE  LET d == LowerCall(c, call, s)
             key == Callee(call, s)
         IN
         /\ IsCollector(d) /\ SameMade(c, d) /\ SameTypes(c, d) /\ SameTexts(c, d)
         /\ OnlyCallErrors(c, d)
         /\ IF key = NoInstance THEN d.fnWork = c.fnWork /\ d.errors # {}
            ELSE d.fnWork = Append(c.fnWork, key)
<1> DEFINE key == Callee(call, s)
           kind == call.to.kind
           isOpen == kind = "fn" /\ \E g \in DOMAIN key.args : ~Concrete(key.args[g])
           work == Append(c.fnWork, key)
           Out(w, es) ==
             [instances |-> c.instances, seen |-> c.seen, fnWork |-> w,
              types |-> c.types, seenTys |-> c.seenTys, tyWork |-> c.tyWork,
              strings |-> c.strings, remap |-> c.remap, errors |-> es]
           bad == [e |-> IF kind = "indirect" THEN "IndirectCall" ELSE "UnresolvedTraitCall"]
           vague == [e |-> "UnresolvedGenericArg", callee |-> key.fn]
<1>1. IsList(work)
  BY AppendIsList DEF IsCollector
<1>2. bad.e \in CallErrors /\ vague.e \in CallErrors
  BY DEF CallErrors
<1>3. ASSUME key = NoInstance
      PROVE  LowerCall(c, call, s) = Out(c.fnWork, c.errors \union {bad})
  BY <1>3 DEF LowerCall, LowerCallTo, Blame, IsCollector
<1>4. ASSUME key # NoInstance, isOpen
      PROVE  LowerCall(c, call, s) = Out(work, c.errors \union {vague})
  <2>1. LowerCall(c, call, s) =
          Blame([c EXCEPT !.fnWork = Append(@, key)], vague)
    BY <1>4 DEF LowerCall, LowerCallTo
  <2> HIDE DEF vague, key
  <2> QED
    BY <2>1 DEF Blame, IsCollector
<1>5. ASSUME key # NoInstance, ~isOpen
      PROVE  LowerCall(c, call, s) = Out(work, c.errors)
  <2>1. LowerCall(c, call, s) = [c EXCEPT !.fnWork = Append(@, key)]
    BY <1>5 DEF LowerCall, LowerCallTo
  <2> HIDE DEF key
  <2> QED
    BY <2>1 DEF IsCollector
<1>6. \A w, es : IsList(w) =>
        LET d == Out(w, es) IN
        /\ IsCollector(d) /\ SameMade(c, d) /\ SameTypes(c, d) /\ SameTexts(c, d)
        /\ d.fnWork = w /\ d.errors = es
  BY DEF IsCollector, SameMade, SameTypes, SameTexts
<1>7. IsList(c.fnWork)
  BY DEF IsCollector
<1> HIDE DEF Out, work, bad, vague, isOpen
<1> DEFINE d == LowerCall(c, call, s)
<1> HIDE DEF key, d
<1>8. CASE key = NoInstance
  <2>1. /\ IsCollector(d) /\ SameMade(c, d) /\ SameTypes(c, d) /\ SameTexts(c, d)
        /\ d.fnWork = c.fnWork /\ d.errors = c.errors \union {bad}
    BY <1>3, <1>6, <1>7, <1>8 DEF d
  <2>2. OnlyCallErrors(c, d) /\ d.errors # {}
    BY <1>2, <2>1 DEF OnlyCallErrors
  <2> QED
    BY <1>8, <2>1, <2>2 DEF d, key
<1>9. CASE key # NoInstance /\ isOpen
  <2>1. /\ IsCollector(d) /\ SameMade(c, d) /\ SameTypes(c, d) /\ SameTexts(c, d)
        /\ d.fnWork = work /\ d.errors = c.errors \union {vague}
    BY <1>1, <1>4, <1>6, <1>9 DEF d
  <2>2. OnlyCallErrors(c, d)
    BY <1>2, <2>1 DEF OnlyCallErrors
  <2> QED
    BY <1>9, <2>1, <2>2 DEF d, key, work
<1>10. CASE key # NoInstance /\ ~isOpen
  <2>1. /\ IsCollector(d) /\ SameMade(c, d) /\ SameTypes(c, d) /\ SameTexts(c, d)
        /\ d.fnWork = work /\ d.errors = c.errors
    BY <1>1, <1>5, <1>6, <1>10 DEF d
  <2>2. OnlyCallErrors(c, d)
    BY <2>1 DEF OnlyCallErrors
  <2> QED
    BY <1>10, <2>1, <2>2 DEF d, key, work
<1> QED
  BY <1>8, <1>9, <1>10

-----------------------------------------------------------------------------
(* All parts *)

\* The instances that calls among the parts in P are of.
CalledBy(P, s) == {Callee(p, s) : p \in {q \in P : q.part = "call"}} \ {NoInstance}

\* The concrete types written in P.
WrittenIn(P, k, s) == {t \in {Put(p.ty, k, s) : p \in {q \in P : q.part = "ty"}} : Concrete(t)}

WalkedWork(c, d, P, s) ==
  /\ SameMade(c, d)
  /\ OnlyCallErrors(c, d)
  /\ ToSet(d.fnWork) = ToSet(c.fnWork) \union CalledBy(P, s)
  /\ (\E p \in P : p.part = "call" /\ Callee(p, s) = NoInstance) => d.errors # {}

\* The queue of types: nothing is in it twice, and what was seen is in it but
\* for the types that are through.
TypesKept(c, through) ==
  /\ \A i, j \in 1 .. Len(c.tyWork) : c.tyWork[i] = c.tyWork[j] => i = j
  /\ ToSet(c.tyWork) \intersect through = {}
  /\ c.seenTys = through \union ToSet(c.tyWork)

WalkedTypes(c, d, P, k, s) ==
  /\ d.seenTys = c.seenTys \union WrittenIn(P, k, s)
  /\ \A through : TypesKept(c, through) => TypesKept(d, through)

\* Strings are where remap has them.
TextsOk(c) ==
  \A x \in DOMAIN c.remap :
    c.remap[x] \in 1 .. Len(c.strings) /\ c.strings[c.remap[x]] = Pools[x[1]][x[2]]

Longer(old, new) ==
  Len(old) <= Len(new) /\ \A i \in 1 .. Len(old) : new[i] = old[i]

WalkedTexts(c, d, P, owner) ==
  /\ Longer(c.strings, d.strings)
  /\ \A p \in P : p.part = "str" => <<owner, p.id>> \in DOMAIN d.remap
  /\ TextsOk(c) => TextsOk(d)

Walked(c, d, P, k, s, owner) ==
  /\ IsCollector(d)
  /\ WalkedWork(c, d, P, s)
  /\ WalkedTypes(c, d, P, k, s)
  /\ WalkedTexts(c, d, P, owner)

\* The queue is still right after a type is noted.
LEMMA NoteTyKeeps ==
  ASSUME NEW d, IsCollector(d), NEW t, NEW through, TypesKept(d, through)
  PROVE  TypesKept(NoteTy(d, t), through)
<1> DEFINE e == NoteTy(d, t)
<1>1. CASE Concrete(t) /\ t \notin d.seenTys
  <2>1. e.seenTys = d.seenTys \union {t} /\ e.tyWork = Append(d.tyWork, t)
    BY <1>1, NoteTyDoes
  <2>2. IsList(d.tyWork) /\ Len(d.tyWork) \in Nat
    BY DEF IsCollector, IsList
  <2> HIDE DEF e
  <2>3. /\ Len(e.tyWork) = Len(d.tyWork) + 1
        /\ ToSet(e.tyWork) = ToSet(d.tyWork) \union {t}
        /\ \A i \in 1 .. Len(d.tyWork) : e.tyWork[i] = d.tyWork[i]
        /\ e.tyWork[Len(d.tyWork) + 1] = t
    BY <2>1, <2>2, AppendIsList
  <2>4. \A i \in 1 .. Len(d.tyWork) : d.tyWork[i] # t
    <3>1. \A i \in 1 .. Len(d.tyWork) : d.tyWork[i] \in ToSet(d.tyWork)
      BY <2>2, ListIsSeq DEF ToSet
    <3> QED
      BY <3>1, <1>1 DEF TypesKept
  <2>5. ASSUME NEW i \in 1 .. Len(e.tyWork), NEW j \in 1 .. Len(e.tyWork),
               e.tyWork[i] = e.tyWork[j]
        PROVE  i = j
    <3>1. \A n \in 1 .. Len(e.tyWork) : n \in 1 .. Len(d.tyWork) \/ n = Len(d.tyWork) + 1
      BY <2>2, <2>3
    <3> QED
      BY <3>1, <2>3, <2>4, <2>5 DEF TypesKept
  <2>6. ToSet(e.tyWork) \intersect through = {} /\ e.seenTys = through \union ToSet(e.tyWork)
    BY <1>1, <2>1, <2>3 DEF TypesKept
  <2> QED
    BY <2>5, <2>6 DEF TypesKept, e
<1>2. CASE ~(Concrete(t) /\ t \notin d.seenTys)
  BY <1>2 DEF NoteTy
<1> QED
  BY <1>1, <1>2

\* The pool is still right after a string is put in.
LEMMA RemapStringKeeps ==
  ASSUME NEW d, IsCollector(d), NEW owner, NEW id
  PROVE  LET e == RemapString(d, owner, id) IN
         /\ Longer(d.strings, e.strings)
         /\ DOMAIN e.remap = DOMAIN d.remap \union {<<owner, id>>}
         /\ TextsOk(d) => TextsOk(e)
<1> DEFINE e == RemapString(d, owner, id)
           x == <<owner, id>>
           text == Pools[owner][id]
           strings == Interned(d.strings, text)
           place == PlaceOf(strings, text)
<1>1. IsList(d.strings) /\ Len(d.strings) \in Nat
  BY DEF IsCollector, IsList
<1>2. CASE x \in DOMAIN d.remap
  <2>1. e.strings = d.strings /\ e.remap = d.remap
    BY <1>2, RemapStringDoes DEF SameTexts
  <2> QED
    BY <1>1, <1>2, <2>1 DEF Longer, TextsOk
<1>3. CASE x \notin DOMAIN d.remap
  <2>1. /\ e.strings = strings
        /\ e.remap = [y \in DOMAIN d.remap \union {x} |-> IF y = x THEN place ELSE d.remap[y]]
    BY <1>3, RemapStringDoes
  <2>2. Longer(d.strings, strings) /\ \E i \in 1 .. Len(strings) : strings[i] = text
    <3>1. CASE \E i \in 1 .. Len(d.strings) : d.strings[i] = text
      BY <1>1, <3>1 DEF Interned, Longer
    <3>2. CASE ~ \E i \in 1 .. Len(d.strings) : d.strings[i] = text
      <4>1. strings = Append(d.strings, text)
        BY <3>2 DEF Interned
      <4> HIDE DEF strings
      <4>2. /\ Len(strings) = Len(d.strings) + 1
            /\ \A i \in 1 .. Len(d.strings) : strings[i] = d.strings[i]
            /\ strings[Len(d.strings) + 1] = text
        BY <1>1, <4>1, AppendIsList
      <4>3. Len(d.strings) + 1 \in 1 .. Len(strings)
        BY <1>1, <4>2
      <4> QED
        BY <1>1, <4>2, <4>3 DEF Longer
    <3> QED
      BY <3>1, <3>2
  <2>3. place \in 1 .. Len(strings) /\ strings[place] = text
    BY <2>2 DEF PlaceOf
  <2> HIDE DEF place, strings, e, text
  <2>4. ASSUME TextsOk(d), NEW y \in DOMAIN e.remap
        PROVE  e.remap[y] \in 1 .. Len(e.strings) /\ e.strings[e.remap[y]] = Pools[y[1]][y[2]]
    <3>1. CASE y = x
      BY <2>1, <2>3, <3>1 DEF text
    <3>2. CASE y # x
      <4>1. y \in DOMAIN d.remap /\ e.remap[y] = d.remap[y]
        BY <2>1, <2>4, <3>2
      <4>2. d.remap[y] \in 1 .. Len(d.strings) /\ d.strings[d.remap[y]] = Pools[y[1]][y[2]]
        BY <2>4, <4>1 DEF TextsOk
      <4>3. Len(d.strings) \in Nat
        BY <1>1
      <4> QED
        BY <2>1, <2>2, <4>1, <4>2 DEF Longer
    <3> QED
      BY <3>1, <3>2
  <2>5. DOMAIN e.remap = DOMAIN d.remap \union {x}
    BY <2>1
  <2> QED
    BY <2>1, <2>2, <2>4, <2>5 DEF TextsOk, e
<1> QED
  BY <1>2, <1>3

\* Nothing is walked through at first.
LEMMA WalkedNothing ==
  ASSUME NEW c, IsCollector(c), NEW k, NEW s, NEW owner
  PROVE  Walked(c, c, {}, k, s, owner)
<1>1. CalledBy({}, s) = {} /\ WrittenIn({}, k, s) = {}
  BY DEF CalledBy, WrittenIn
<1>2. Len(c.strings) \in Nat
  BY DEF IsCollector, IsList
<1>3. WalkedWork(c, c, {}, s)
  BY <1>1 DEF WalkedWork, SameMade, OnlyCallErrors
<1>4. WalkedTypes(c, c, {}, k, s)
  BY <1>1 DEF WalkedTypes
<1>5. WalkedTexts(c, c, {}, owner)
  BY <1>2 DEF WalkedTexts, Longer
<1> QED
  BY <1>3, <1>4, <1>5 DEF Walked

\* A walk that goes on to a part that is no call leaves the work as it was.
LEMMA WorkStays ==
  ASSUME NEW c, NEW d, NEW e, NEW P, NEW s, NEW p, p.part # "call",
         WalkedWork(c, d, P, s), SameMade(d, e), SameWork(d, e)
  PROVE  WalkedWork(c, e, P \union {p}, s)
<1>1. CalledBy(P \union {p}, s) = CalledBy(P, s)
  BY DEF CalledBy
<1> QED
  BY <1>1 DEF WalkedWork, SameMade, SameWork, OnlyCallErrors

LEMMA TypesStay ==
  ASSUME NEW c, NEW d, NEW e, NEW P, NEW k, NEW s, NEW p, p.part # "ty",
         WalkedTypes(c, d, P, k, s), SameTypes(d, e)
  PROVE  WalkedTypes(c, e, P \union {p}, k, s)
<1>1. WrittenIn(P \union {p}, k, s) = WrittenIn(P, k, s)
  BY DEF WrittenIn
<1> QED
  BY <1>1 DEF WalkedTypes, SameTypes, TypesKept

LEMMA TextsStay ==
  ASSUME NEW c, NEW d, NEW e, NEW P, NEW p, p.part # "str", NEW owner,
         WalkedTexts(c, d, P, owner), SameTexts(d, e)
  PROVE  WalkedTexts(c, e, P \union {p}, owner)
  BY DEF WalkedTexts, SameTexts, TextsOk

\* A pool that is longer than a longer one is longer.
LEMMA LongerStill ==
  ASSUME NEW r, NEW s, NEW t, Len(r) \in Nat, Len(s) \in Nat, Len(t) \in Nat,
         Longer(r, s), Longer(s, t)
  PROVE  Longer(r, t)
  BY DEF Longer

\* One more part.
LEMMA VisitWalks ==
  ASSUME NEW c, IsCollector(c), NEW d, NEW P, NEW k, NEW s, NEW owner, NEW p,
         Walked(c, d, P, k, s, owner), p.part \in PartKinds
  PROVE  Walked(c, Visit(d, p, k, s, owner), P \union {p}, k, s, owner)
<1> DEFINE e == Visit(d, p, k, s, owner)
<1>1. /\ IsCollector(d) /\ WalkedWork(c, d, P, s)
      /\ WalkedTypes(c, d, P, k, s) /\ WalkedTexts(c, d, P, owner)
  BY DEF Walked
<1>2. CASE p.part = "ty"
  <2> DEFINE t == Put(p.ty, k, s)
  <2>1. e = NoteTy(d, t)
    BY <1>2 DEF Visit
  <2>2. /\ IsCollector(e) /\ SameMade(d, e) /\ SameWork(d, e) /\ SameTexts(d, e)
        /\ IF Concrete(t) /\ t \notin d.seenTys THEN e.seenTys = d.seenTys \union {t}
           ELSE e.seenTys = d.seenTys
    BY <1>1, <2>1, NoteTyDoes DEF SameTypes
  <2>3. \A through : TypesKept(d, through) => TypesKept(e, through)
    BY <1>1, <2>1, NoteTyKeeps
  <2>4. WrittenIn(P \union {p}, k, s)
          = WrittenIn(P, k, s) \union (IF Concrete(t) THEN {t} ELSE {})
    BY <1>2 DEF WrittenIn
  <2> HIDE DEF e, t
  <2>5. e.seenTys = d.seenTys \union (IF Concrete(t) THEN {t} ELSE {})
    BY <2>2
  <2>6. WalkedTypes(c, e, P \union {p}, k, s)
    BY <1>1, <2>3, <2>4, <2>5 DEF WalkedTypes
  <2>7. p.part # "call" /\ p.part # "str"
    BY <1>2
  <2>8. WalkedWork(c, e, P \union {p}, s) /\ WalkedTexts(c, e, P \union {p}, owner)
    BY <1>1, <2>2, <2>7, WorkStays, TextsStay
  <2> QED
    BY <2>2, <2>6, <2>8 DEF Walked, e
<1>3. CASE p.part = "str"
  <2>1. e = RemapString(d, owner, p.id)
    BY <1>3 DEF Visit
  <2>2. IsCollector(e) /\ SameMade(d, e) /\ SameWork(d, e) /\ SameTypes(d, e)
    BY <1>1, <2>1, RemapStringLeaves
  <2>3. /\ Longer(d.strings, e.strings)
        /\ DOMAIN e.remap = DOMAIN d.remap \union {<<owner, p.id>>}
        /\ TextsOk(d) => TextsOk(e)
    BY <1>1, <2>1, RemapStringKeeps
  <2> HIDE DEF e
  <2>4. Longer(c.strings, e.strings)
    <3>1. Len(c.strings) \in Nat /\ Len(d.strings) \in Nat /\ Len(e.strings) \in Nat
      BY <1>1, <2>2 DEF IsCollector, IsList
    <3>2. Longer(c.strings, d.strings)
      BY <1>1 DEF WalkedTexts
    <3> QED
      BY <2>3, <3>1, <3>2, LongerStill
  <2>5. WalkedTexts(c, e, P \union {p}, owner)
    BY <1>1, <2>3, <2>4 DEF WalkedTexts
  <2>6. p.part # "call" /\ p.part # "ty"
    BY <1>3
  <2>7. WalkedWork(c, e, P \union {p}, s) /\ WalkedTypes(c, e, P \union {p}, k, s)
    BY <1>1, <2>2, <2>6, WorkStays, TypesStay
  <2> QED
    BY <2>2, <2>5, <2>7 DEF Walked, e
<1>4. CASE p.part = "call"
  <2> DEFINE key == Callee(p, s)
  <2>1. e = LowerCall(d, p, s)
    BY <1>4 DEF Visit
  <2>2. /\ IsCollector(e) /\ SameMade(d, e) /\ SameTypes(d, e) /\ SameTexts(d, e)
        /\ OnlyCallErrors(d, e)
        /\ IF key = NoInstance THEN e.fnWork = d.fnWork /\ e.errors # {}
           ELSE e.fnWork = Append(d.fnWork, key)
    BY <1>1, <2>1, LowerCallDoes
  <2>3. IsList(d.fnWork)
    BY <1>1 DEF IsCollector
  <2> HIDE DEF e
  <2>4. ToSet(e.fnWork) = ToSet(d.fnWork) \union ({key} \ {NoInstance})
    <3>1. CASE key = NoInstance
      BY <2>2, <3>1
    <3>2. CASE key # NoInstance
      <4>1. e.fnWork = Append(d.fnWork, key)
        BY <2>2, <3>2
      <4> HIDE DEF key
      <4>2. ToSet(e.fnWork) = ToSet(d.fnWork) \union {key}
        BY <2>3, <4>1, AppendIsList
      <4> QED
        BY <3>2, <4>2
    <3> QED
      BY <3>1, <3>2
  <2>5. CalledBy(P \union {p}, s) = CalledBy(P, s) \union ({key} \ {NoInstance})
    BY <1>4 DEF CalledBy
  <2>6. (\E q \in P \union {p} : q.part = "call" /\ Callee(q, s) = NoInstance) => e.errors # {}
    <3>1. CASE key = NoInstance
      BY <2>2, <3>1
    <3>2. CASE key # NoInstance
      BY <1>1, <2>2, <3>2 DEF WalkedWork, OnlyCallErrors
    <3> QED
      BY <3>1, <3>2
  <2>7. SameMade(c, e) /\ OnlyCallErrors(c, e)
    BY <1>1, <2>2 DEF WalkedWork, SameMade, OnlyCallErrors
  <2>8. WalkedWork(c, e, P \union {p}, s)
    <3> HIDE DEF key
    <3> QED
      BY <1>1, <2>4, <2>5, <2>6, <2>7 DEF WalkedWork
  <2>9. p.part # "str" /\ p.part # "ty"
    BY <1>4
  <2>10. WalkedTypes(c, e, P \union {p}, k, s) /\ WalkedTexts(c, e, P \union {p}, owner)
    BY <1>1, <2>2, <2>9, TypesStay, TextsStay
  <2> QED
    BY <2>2, <2>8, <2>10 DEF Walked, e
<1> QED
  BY <1>2, <1>3, <1>4 DEF PartKinds

\* The parts of a list.
Parts(parts) == {parts[n] : n \in 1 .. Len(parts)}

\* A walk goes through all parts.
LEMMA WalkWalks ==
  ASSUME NEW c, IsCollector(c), NEW parts, IsListOf(parts, PartKinds), NEW k, NEW s, NEW owner
  PROVE  Walked(c, Walk(c, parts, k, s, owner), Parts(parts), k, s, owner)
<1> DEFINE N == Len(parts)
           P(n) == {parts[i] : i \in 1 .. n}
<1>1. N \in Nat /\ \A n \in 1 .. N : parts[n].part \in PartKinds
  BY DEF IsListOf
<1>2. PICK f : Walks(f, c, parts, k, s, owner) /\ Walk(c, parts, k, s, owner) = f[N]
  BY <1>1, WalkSteps
<1> DEFINE S == {n \in 0 .. N : Walked(c, f[n], P(n), k, s, owner)}
<1>3. 0 \in S
  <2>1. P(0) = {}
    OBVIOUS
  <2>2. f[0] = c
    BY <1>2 DEF Walks
  <2>3. Walked(c, f[0], P(0), k, s, owner)
    <3> HIDE DEF P
    <3> QED
      BY <2>1, <2>2, WalkedNothing
  <2>4. 0 \in 0 .. N
    BY <1>1
  <2> QED
    BY <2>3, <2>4
<1>4. ASSUME NEW n \in 1 .. N, n - 1 \in S PROVE n \in S
  <2>1. f[n] = Visit(f[n - 1], parts[n], k, s, owner)
    BY <1>2 DEF Walks
  <2>2. P(n) = P(n - 1) \union {parts[n]}
    <3>1. 1 .. n = (1 .. n - 1) \union {n}
      BY <1>1
    <3> QED
      BY <3>1
  <2>3. Walked(c, f[n - 1], P(n - 1), k, s, owner)
    BY <1>4
  <2>4. parts[n].part \in PartKinds
    BY <1>1
  <2>5. Walked(c, f[n], P(n), k, s, owner)
    <3> HIDE DEF P
    <3> QED
      BY <2>1, <2>2, <2>3, <2>4, VisitWalks
  <2>6. n \in 0 .. N
    BY <1>1
  <2> HIDE DEF P
  <2> QED
    BY <2>5, <2>6
<1>5. 0 .. N \subseteq S
  <2> HIDE DEF S, N
  <2> QED
    BY <1>1, <1>3, <1>4, IntervalInduction
<1>6. N \in S
  <2> HIDE DEF S, N
  <2> QED
    BY <1>1, <1>5
<1> QED
  BY <1>2, <1>6 DEF Parts

-----------------------------------------------------------------------------
(* The actions *)

\* What was inferred is what the inference makes of the program, and nothing
\* is collected before it is through.
TabsInv ==
  /\ prog \in Progs
  /\ phase \in {"infer", "mono", "done", "rejected"}
  /\ DOMAIN tabs \subseteq Own
  /\ \A f \in DOMAIN tabs : tabs[f] = Infer(prog, f)
  /\ phase # "rejected" => \A f \in DOMAIN tabs : tabs[f].err = ""
  /\ phase \in {"mono", "done"} => DOMAIN tabs = Own
  /\ phase = "infer" => m = NewCollector

\* While the collector runs, the MIR of a function is a list.
LEMMA MirIsList ==
  ASSUME TabsInv, phase = "mono", NEW f, HasMir(f)
  PROVE  IsListOf(MirOf(f, tabs[f]).parts, PartKinds)
<1>1. CASE f \in Own
  <2>1. tabs[f] = Infer(prog, f) /\ tabs[f].err = "" /\ prog \in Progs
    BY <1>1 DEF TabsInv
  <2> QED
    BY <1>1, <2>1, ListAssumption DEF MirOf
<1>2. CASE f \notin Own
  BY <1>2, ListAssumption DEF MirOf, HasMir
<1> QED
  BY <1>1, <1>2

\* The first function is taken from the stack.
Takes(c, d) ==
  /\ IsCollector(d)
  /\ d.instances = c.instances /\ d.types = c.types
  /\ SameTypes(c, d) /\ SameTexts(c, d)
  /\ IsList(d.fnWork) /\ ToSet(c.fnWork) = ToSet(d.fnWork) \union {Top}

LEMMA TopIsTaken ==
  ASSUME IsCollector(m), Pops
  PROVE  /\ Takes(m, [m EXCEPT !.fnWork = Front(@)])
         /\ [m EXCEPT !.fnWork = Front(@)].seen = m.seen
         /\ [m EXCEPT !.fnWork = Front(@)].errors = m.errors
         /\ Takes(m, Popped)
         /\ Popped.seen = m.seen \union {Top}
         /\ Popped.errors = m.errors
<1> DEFINE Out(seen) ==
             [instances |-> m.instances, seen |-> seen, fnWork |-> Front(m.fnWork),
              types |-> m.types, seenTys |-> m.seenTys, tyWork |-> m.tyWork,
              strings |-> m.strings, remap |-> m.remap, errors |-> m.errors]
<1>1. [m EXCEPT !.fnWork = Front(@)] = Out(m.seen)
  BY DEF IsCollector
<1>2. Popped = Out(m.seen \union {Top})
  <2> DEFINE seen == m.seen \union {Top}
             front == Front(m.fnWork)
  <2>1. Popped = [m EXCEPT !.fnWork = front, !.seen = seen]
    BY DEF Popped
  <2> HIDE DEF seen, front
  <2>2. Popped =
          [instances |-> m.instances, seen |-> seen, fnWork |-> front,
           types |-> m.types, seenTys |-> m.seenTys, tyWork |-> m.tyWork,
           strings |-> m.strings, remap |-> m.remap, errors |-> m.errors]
    BY <2>1 DEF IsCollector
  <2> QED
    BY <2>2 DEF seen, front
<1>3. IsList(Front(m.fnWork)) /\ ToSet(m.fnWork) = ToSet(Front(m.fnWork)) \union {Top}
  BY FrontIsList DEF IsCollector, Pops, Top
<1>4. \A seen : /\ Takes(m, Out(seen)) /\ Out(seen).seen = seen
                /\ Out(seen).errors = m.errors
  BY <1>3 DEF Takes, IsCollector, SameTypes, SameTexts
<1> HIDE DEF Out
<1> QED
  BY <1>1, <1>2, <1>4

\* An error.
LEMMA BlameDoes ==
  ASSUME NEW c, IsCollector(c), NEW e
  PROVE  /\ IsCollector(Blame(c, e)) /\ SameMade(c, Blame(c, e)) /\ SameTypes(c, Blame(c, e))
         /\ SameTexts(c, Blame(c, e))
         /\ Blame(c, e).fnWork = c.fnWork
         /\ Blame(c, e).errors = c.errors \union {e}
<1>1. Blame(c, e) =
        [instances |-> c.instances, seen |-> c.seen, fnWork |-> c.fnWork,
         types |-> c.types, seenTys |-> c.seenTys, tyWork |-> c.tyWork,
         strings |-> c.strings, remap |-> c.remap, errors |-> c.errors \union {e}]
  BY DEF Blame, IsCollector
<1> HIDE DEF Blame
<1> QED
  BY <1>1 DEF IsCollector, SameMade, SameTypes, SameTexts

\* What a new instance comes from: c is walked to w, and then it is there.
Makes(c, d, w, inst, P) ==
  /\ Walked(c, w, P, "loc", inst.key.args, PkgOf(inst.key.fn))
  /\ IsCollector(d)
  /\ d.instances = Append(c.instances, inst)
  /\ d.seen = c.seen /\ d.types = c.types
  /\ SameWork(w, d) /\ SameTypes(w, d) /\ SameTexts(w, d)

LEMMA InstantiateMakes ==
  ASSUME NEW c, IsCollector(c), NEW key, NEW item, IsListOf(item.parts, PartKinds)
  PROVE  \E w : Makes(c, Instantiate(c, key, item), w, InstanceOf(key, item, w.remap),
                      Parts(item.parts))
<1> DEFINE w == Walk(c, item.parts, "loc", key.args, PkgOf(key.fn))
           inst == InstanceOf(key, item, w.remap)
           d == Instantiate(c, key, item)
<1>1. Walked(c, w, Parts(item.parts), "loc", key.args, PkgOf(key.fn))
  BY WalkWalks
<1>2. d = [w EXCEPT !.instances = Append(@, inst)]
  BY DEF Instantiate
<1>3. inst.key = key
  BY DEF InstanceOf
<1> HIDE DEF w, inst, d
<1>4. d = [instances |-> Append(w.instances, inst), seen |-> w.seen, fnWork |-> w.fnWork,
           types |-> w.types, seenTys |-> w.seenTys, tyWork |-> w.tyWork,
           strings |-> w.strings, remap |-> w.remap, errors |-> w.errors]
  BY <1>1, <1>2 DEF Walked, IsCollector
<1>5. w.instances = c.instances /\ w.seen = c.seen /\ w.types = c.types
  BY <1>1 DEF Walked, WalkedWork, SameMade
<1>6. IsList(Append(w.instances, inst))
  BY <1>1, AppendIsList DEF Walked, IsCollector
<1>7. IsCollector(d) /\ d.instances = Append(w.instances, inst) /\ d.seen = w.seen
      /\ d.types = w.types /\ SameWork(w, d) /\ SameTypes(w, d) /\ SameTexts(w, d)
  BY <1>1, <1>4, <1>6 DEF Walked, IsCollector, SameWork, SameTypes, SameTexts
<1>8. Makes(c, d, w, inst, Parts(item.parts))
  BY <1>1, <1>3, <1>5, <1>7 DEF Makes
<1> QED
  BY <1>8 DEF d, inst

\* A type is taken from the stack.
TakesTy(c, d, t) ==
  /\ IsCollector(d)
  /\ SameMade(c, d) /\ SameWork(c, d) /\ SameTexts(c, d)
  /\ d.seenTys = c.seenTys
  /\ ToSet(c.tyWork) = ToSet(d.tyWork) \union {t} /\ t \notin ToSet(d.tyWork)
  /\ \A i, j \in 1 .. Len(d.tyWork) : d.tyWork[i] = d.tyWork[j] => i = j

LEMMA TopTyIsTaken ==
  ASSUME NEW c, IsCollector(c), c.tyWork # <<>>,
         \A i, j \in 1 .. Len(c.tyWork) : c.tyWork[i] = c.tyWork[j] => i = j
  PROVE  TakesTy(c, [c EXCEPT !.tyWork = Front(@)], Last(c.tyWork))
<1> DEFINE q == c.tyWork
           f == Front(q)
           d == [c EXCEPT !.tyWork = Front(@)]
<1>1. d = [c EXCEPT !.tyWork = f]
  OBVIOUS
<1>2. IsList(q) /\ Len(q) \in Nat
  BY DEF IsCollector, IsList
<1>3. /\ IsList(f) /\ Len(f) = Len(q) - 1 /\ Len(q) >= 1
      /\ \A i \in 1 .. Len(q) - 1 : f[i] = q[i]
      /\ Last(q) = q[Len(q)] /\ ToSet(q) = ToSet(f) \union {Last(q)}
  <2> HIDE DEF q
  <2> QED
    BY <1>2, FrontIsList DEF q
<1> HIDE DEF f
<1>4. d = [instances |-> c.instances, seen |-> c.seen, fnWork |-> c.fnWork,
           types |-> c.types, seenTys |-> c.seenTys, tyWork |-> f,
           strings |-> c.strings, remap |-> c.remap, errors |-> c.errors]
  BY <1>1 DEF IsCollector
<1> HIDE DEF d
<1>5. IsCollector(d) /\ SameMade(c, d) /\ SameWork(c, d) /\ SameTexts(c, d)
      /\ d.seenTys = c.seenTys /\ d.tyWork = f
  BY <1>3, <1>4 DEF IsCollector, SameMade, SameWork, SameTexts
<1>6. Last(q) \notin ToSet(f)
  <2>1. \A i \in 1 .. Len(f) : i \in 1 .. Len(q) /\ i # Len(q) /\ f[i] = q[i]
    BY <1>2, <1>3
  <2>2. DOMAIN f = 1 .. Len(f) /\ Len(q) \in 1 .. Len(q)
    BY <1>2, <1>3, ListIsSeq
  <2> QED
    BY <1>3, <2>1, <2>2 DEF ToSet
<1>7. \A i, j \in 1 .. Len(f) : f[i] = f[j] => i = j
  BY <1>2, <1>3
<1> QED
  BY <1>3, <1>5, <1>6, <1>7 DEF TakesTy, d

\* What a new definition comes from.
MakesTy(c, d, w, def, P) ==
  /\ Walked(c, w, P, "gen", GenSubst(def.ty), "")
  /\ IsCollector(d)
  /\ d.types = Append(c.types, def)
  /\ d.seen = c.seen /\ d.instances = c.instances
  /\ SameWork(w, d) /\ SameTypes(w, d) /\ SameTexts(w, d)

LEMMA InstantiateTyMakes ==
  ASSUME NEW c, IsCollector(c), NEW t, NEW content, IsListOf(content.parts, {"ty"})
  PROVE  \E w, def : def.ty = t /\ MakesTy(c, InstantiateTy(c, t, content), w, def,
                                           Parts(content.parts))
<1> DEFINE w == Walk(c, content.parts, "gen", GenSubst(t), "")
           def == [ty |-> t, members |-> {Put(u, "gen", GenSubst(t)) : u \in content.members}]
           d == InstantiateTy(c, t, content)
<1>1. Walked(c, w, Parts(content.parts), "gen", GenSubst(t), "")
  <2>1. IsListOf(content.parts, PartKinds)
    BY DEF IsListOf, PartKinds
  <2> QED
    BY <2>1, WalkWalks
<1>2. d = [w EXCEPT !.types = Append(@, def)]
  BY DEF InstantiateTy
<1>3. def.ty = t
  OBVIOUS
<1> HIDE DEF w, def, d
<1>4. d = [instances |-> w.instances, seen |-> w.seen, fnWork |-> w.fnWork,
           types |-> Append(w.types, def), seenTys |-> w.seenTys, tyWork |-> w.tyWork,
           strings |-> w.strings, remap |-> w.remap, errors |-> w.errors]
  BY <1>1, <1>2 DEF Walked, IsCollector
<1>5. w.instances = c.instances /\ w.seen = c.seen /\ w.types = c.types
  BY <1>1 DEF Walked, WalkedWork, SameMade
<1>6. IsList(Append(w.types, def))
  BY <1>1, AppendIsList DEF Walked, IsCollector
<1>7. IsCollector(d) /\ d.types = Append(w.types, def) /\ d.seen = w.seen
      /\ d.instances = w.instances /\ SameWork(w, d) /\ SameTypes(w, d) /\ SameTexts(w, d)
  BY <1>1, <1>4, <1>6 DEF Walked, IsCollector, SameWork, SameTypes, SameTexts
<1>8. MakesTy(c, d, w, def, Parts(content.parts))
  BY <1>1, <1>3, <1>5, <1>7 DEF MakesTy
<1> QED
  BY <1>3, <1>8 DEF d

\* The first function is taken from the stack, and the instances in called come.
FnStep(called) ==
  /\ IsCollector(m')
  /\ m'.seen = m.seen \union {Top}
  /\ m'.types = m.types
  /\ Top \in ToSet(m.fnWork)
  /\ ToSet(m'.fnWork) \union {Top} = ToSet(m.fnWork) \union called

\* It comes to no instance.
DropsTop(errors) ==
  /\ FnStep({})
  /\ m'.instances = m.instances
  /\ SameTypes(m, m') /\ SameTexts(m, m')
  /\ m'.errors = m.errors \union errors

LEMMA TopIsDropped ==
  ASSUME IsCollector(m)
  PROVE  /\ SkipSeen => DropsTop({})
         /\ TooManyInstances => DropsTop({[e |-> "TooManyInstances"]})
         /\ MissBody => DropsTop({[e |-> "MissingBody", fn |-> Top.fn]})
<1>1. ASSUME SkipSeen PROVE DropsTop({})
  <2>1. Pops /\ Top \in m.seen /\ m' = [m EXCEPT !.fnWork = Front(@)]
    BY <1>1 DEF SkipSeen
  <2>2. Takes(m, m') /\ m'.seen = m.seen /\ m'.errors = m.errors
    BY <2>1, TopIsTaken
  <2> QED
    BY <2>1, <2>2 DEF DropsTop, FnStep, Takes
<1>2. ASSUME NEW e, Pops, m' = Blame(Popped, e) PROVE DropsTop({e})
  <2>1. Takes(m, Popped) /\ Popped.seen = m.seen \union {Top} /\ Popped.errors = m.errors
    BY <1>2, TopIsTaken
  <2>2. /\ IsCollector(m') /\ SameMade(Popped, m') /\ SameTypes(Popped, m')
        /\ SameTexts(Popped, m') /\ m'.fnWork = Popped.fnWork
        /\ m'.errors = Popped.errors \union {e}
    BY <1>2, <2>1, BlameDoes DEF Takes
  <2> QED
    BY <2>1, <2>2 DEF DropsTop, FnStep, Takes, SameMade, SameTypes, SameTexts
<1> QED
  BY <1>1, <1>2 DEF TooManyInstances, MissBody

\* What is written in the function on top.
TopParts == Parts(MirOf(Top.fn, tabs[Top.fn]).parts)

TopInstance == InstanceOf(Top, MirOf(Top.fn, tabs[Top.fn]), m'.remap)

\* It becomes an instance.
MakesTop ==
  /\ FnStep(CalledBy(TopParts, Top.args))
  /\ m'.instances = Append(m.instances, TopInstance)
  /\ OnlyCallErrors(m, m')
  /\ (\E p \in TopParts : p.part = "call" /\ Callee(p, Top.args) = NoInstance) => m'.errors # {}
  /\ m'.seenTys = m.seenTys \union WrittenIn(TopParts, "loc", Top.args)
  /\ \A through : TypesKept(m, through) => TypesKept(m', through)
  /\ Longer(m.strings, m'.strings)
  /\ \A p \in TopParts : p.part = "str" => <<PkgOf(Top.fn), p.id>> \in DOMAIN m'.remap
  /\ TextsOk(m) => TextsOk(m')

LEMMA TopIsMade ==
  ASSUME TabsInv, IsCollector(m), MakeInstance
  PROVE  MakesTop
<1> DEFINE item == MirOf(Top.fn, tabs[Top.fn])
           top == Top
           c == Popped
<1>1. Pops /\ HasMir(Top.fn) /\ m' = Instantiate(c, top, item)
  BY DEF MakeInstance
<1>2. IsListOf(item.parts, PartKinds)
  BY <1>1, MirIsList DEF Pops
<1>3. /\ IsCollector(c) /\ c.instances = m.instances /\ c.types = m.types
      /\ c.seen = m.seen \union {top} /\ c.errors = m.errors
      /\ SameTypes(m, c) /\ SameTexts(m, c)
      /\ ToSet(m.fnWork) = ToSet(c.fnWork) \union {top}
  BY <1>1, TopIsTaken DEF Takes
<1> HIDE DEF item, top, c
<1>4. PICK w : Makes(c, m', w, InstanceOf(top, item, w.remap), Parts(item.parts))
  BY <1>1, <1>2, <1>3, InstantiateMakes
<1>5. w.remap = m'.remap
  BY <1>4 DEF Makes, SameTexts
<1> DEFINE inst == InstanceOf(top, item, m'.remap)
           P == Parts(item.parts)
<1>6. inst.key = top
  BY DEF InstanceOf
<1> HIDE DEF inst, P
<1>7. Makes(c, m', w, inst, P)
  BY <1>4, <1>5 DEF inst, P
<1>8. Walked(c, w, P, "loc", top.args, PkgOf(top.fn))
  BY <1>6, <1>7 DEF Makes
<1>9. /\ IsCollector(m') /\ m'.instances = Append(c.instances, inst)
      /\ m'.seen = c.seen /\ m'.types = c.types
      /\ SameWork(w, m') /\ SameTypes(w, m') /\ SameTexts(w, m')
  BY <1>7 DEF Makes
<1>10. /\ OnlyCallErrors(c, w)
       /\ ToSet(w.fnWork) = ToSet(c.fnWork) \union CalledBy(P, top.args)
       /\ (\E p \in P : p.part = "call" /\ Callee(p, top.args) = NoInstance) => w.errors # {}
  BY <1>8 DEF Walked, WalkedWork
<1>11. FnStep(CalledBy(P, top.args))
  BY <1>3, <1>9, <1>10 DEF FnStep, SameWork, top
<1>12. /\ OnlyCallErrors(m, m')
       /\ (\E p \in P : p.part = "call" /\ Callee(p, top.args) = NoInstance) => m'.errors # {}
  BY <1>3, <1>9, <1>10 DEF OnlyCallErrors, SameWork
<1>13. /\ m'.seenTys = m.seenTys \union WrittenIn(P, "loc", top.args)
       /\ \A through : TypesKept(m, through) => TypesKept(m', through)
  <2>1. /\ w.seenTys = c.seenTys \union WrittenIn(P, "loc", top.args)
        /\ \A through : TypesKept(c, through) => TypesKept(w, through)
    BY <1>8 DEF Walked, WalkedTypes
  <2> QED
    BY <2>1, <1>3, <1>9 DEF SameTypes, TypesKept
<1>14. /\ Longer(m.strings, m'.strings)
       /\ \A p \in P : p.part = "str" => <<PkgOf(top.fn), p.id>> \in DOMAIN m'.remap
       /\ TextsOk(m) => TextsOk(m')
  <2>1. /\ Longer(c.strings, w.strings)
        /\ \A p \in P : p.part = "str" => <<PkgOf(top.fn), p.id>> \in DOMAIN w.remap
        /\ TextsOk(c) => TextsOk(w)
    BY <1>8 DEF Walked, WalkedTexts
  <2> QED
    BY <2>1, <1>3, <1>9 DEF SameTexts, TextsOk
<1>15. P = TopParts /\ inst = TopInstance
  BY DEF TopParts, TopInstance, P, inst, item, top
<1> QED
  BY <1>3, <1>9, <1>11, <1>12, <1>13, <1>14, <1>15 DEF MakesTop, top

\* The first type is taken from the stack.
TyStep ==
  /\ IsCollector(m')
  /\ m'.instances = m.instances /\ m'.seen = m.seen
  /\ ToSet(m'.fnWork) = ToSet(m.fnWork)
  /\ TopTy \in ToSet(m.tyWork)
  /\ \A through : TypesKept(m, through) => TypesKept(m', through \union {TopTy})
  /\ Longer(m.strings, m'.strings)
  /\ TextsOk(m) => TextsOk(m')

\* It is known that it has no definition.
DropsTy ==
  /\ TyStep
  /\ m'.types = m.types
  /\ m'.seenTys = m.seenTys
  /\ m'.errors = m.errors \union {[e |-> "MissingTyDef", ty |-> TopTy.n]}

\* Without the one on top the queue is right, and that one is through.
LEMMA TakenTyIsThrough ==
  ASSUME NEW c, NEW d, NEW t, TakesTy(c, d, t), NEW through, TypesKept(c, through)
  PROVE  TypesKept(d, through \union {t})
<1> QED
  BY DEF TakesTy, TypesKept

LEMMA TopTyIsDropped ==
  ASSUME IsCollector(m), MissTyDef,
         \A i, j \in 1 .. Len(m.tyWork) : m.tyWork[i] = m.tyWork[j] => i = j
  PROVE  DropsTy
<1> DEFINE c == [m EXCEPT !.tyWork = Front(@)]
           e == [e |-> "MissingTyDef", ty |-> TopTy.n]
<1>1. m.tyWork # <<>> /\ m' = Blame(c, e)
  BY DEF MissTyDef
<1>2. TakesTy(m, c, TopTy)
  BY <1>1, TopTyIsTaken DEF TopTy
<1> HIDE DEF c, e
<1>3. /\ IsCollector(m') /\ SameMade(c, m') /\ SameTypes(c, m') /\ SameTexts(c, m')
      /\ m'.fnWork = c.fnWork /\ m'.errors = c.errors \union {e}
  BY <1>1, <1>2, BlameDoes DEF TakesTy
<1>4. \A through : TypesKept(m, through) => TypesKept(m', through \union {TopTy})
  <2>1. \A through : TypesKept(m, through) => TypesKept(c, through \union {TopTy})
    BY <1>2, TakenTyIsThrough
  <2> QED
    BY <1>3, <2>1 DEF SameTypes, TypesKept
<1>5. Len(m.strings) \in Nat
  BY DEF IsCollector, IsList
<1>6. m'.strings = m.strings /\ m'.remap = m.remap
  BY <1>2, <1>3 DEF TakesTy, SameTexts
<1>7. TyStep
  BY <1>2, <1>3, <1>4, <1>5, <1>6 DEF TyStep, TakesTy, SameMade, SameWork, Longer, TextsOk
<1> QED
  BY <1>2, <1>3, <1>7 DEF DropsTy, TakesTy, SameMade, SameWork, SameTypes, e

\* What is written in the definition of a type.
TyPartsOf(t) == Parts(Contents[t.n].parts)

\* It gets its definition.
MakesTopTy ==
  /\ TyStep
  /\ \E def : def.ty = TopTy /\ m'.types = Append(m.types, def)
  /\ TopTy.n \in DOMAIN Contents
  /\ OnlyCallErrors(m, m')
  /\ m'.seenTys = m.seenTys \union WrittenIn(TyPartsOf(TopTy), "gen", GenSubst(TopTy))

LEMMA TopTyIsMade ==
  ASSUME IsCollector(m), MakeType,
         \A i, j \in 1 .. Len(m.tyWork) : m.tyWork[i] = m.tyWork[j] => i = j
  PROVE  MakesTopTy
<1> DEFINE c == [m EXCEPT !.tyWork = Front(@)]
           t == TopTy
           content == Contents[t.n]
<1>1. m.tyWork # <<>> /\ t.n \in DOMAIN Contents /\ m' = InstantiateTy(c, t, content)
  BY DEF MakeType
<1>2. TakesTy(m, c, t)
  BY <1>1, TopTyIsTaken DEF TopTy
<1>3. IsListOf(content.parts, {"ty"})
  BY <1>1, ListAssumption
<1> DEFINE P == Parts(content.parts)
<1> HIDE DEF c, t, content
<1>4. PICK w, def : def.ty = t /\ MakesTy(c, m', w, def, P)
  BY <1>1, <1>2, <1>3, InstantiateTyMakes DEF TakesTy
<1> HIDE DEF P
<1>5. Walked(c, w, P, "gen", GenSubst(t), "")
  BY <1>4 DEF MakesTy
<1>6. /\ IsCollector(m') /\ m'.types = Append(c.types, def)
      /\ m'.seen = c.seen /\ m'.instances = c.instances
      /\ SameWork(w, m') /\ SameTypes(w, m') /\ SameTexts(w, m')
  BY <1>4 DEF MakesTy
<1>7. /\ OnlyCallErrors(c, w)
      /\ ToSet(w.fnWork) = ToSet(c.fnWork) \union CalledBy(P, GenSubst(t))
  BY <1>5 DEF Walked, WalkedWork
<1>8. CalledBy(P, GenSubst(t)) = {}
  <2>1. \A p \in P : p.part = "ty"
    BY <1>3 DEF IsListOf, P, Parts
  <2> QED
    BY <2>1 DEF CalledBy
<1>9. OnlyCallErrors(m, m')
  BY <1>2, <1>6, <1>7 DEF OnlyCallErrors, TakesTy, SameWork
<1>10. /\ m'.seenTys = m.seenTys \union WrittenIn(P, "gen", GenSubst(t))
       /\ \A through : TypesKept(m, through) => TypesKept(m', through \union {t})
  <2>1. /\ w.seenTys = c.seenTys \union WrittenIn(P, "gen", GenSubst(t))
        /\ \A through : TypesKept(c, through) => TypesKept(w, through)
    BY <1>5 DEF Walked, WalkedTypes
  <2>2. \A through : TypesKept(m, through) => TypesKept(c, through \union {t})
    BY <1>2, TakenTyIsThrough
  <2> QED
    BY <2>1, <2>2, <1>2, <1>6 DEF SameTypes, TypesKept, TakesTy
<1>11. Longer(m.strings, m'.strings) /\ (TextsOk(m) => TextsOk(m'))
  <2>1. Longer(c.strings, w.strings) /\ (TextsOk(c) => TextsOk(w))
    BY <1>5 DEF Walked, WalkedTexts
  <2> QED
    BY <2>1, <1>2, <1>6 DEF SameTexts, TextsOk, TakesTy
<1>12. TyStep
  <2>1. m'.instances = m.instances /\ m'.seen = m.seen /\ ToSet(m'.fnWork) = ToSet(m.fnWork)
    BY <1>2, <1>6, <1>7, <1>8 DEF TakesTy, SameMade, SameWork
  <2>2. t \in ToSet(m.tyWork)
    BY <1>2 DEF TakesTy
  <2> QED
    BY <2>1, <2>2, <1>6, <1>10, <1>11 DEF TyStep, t
<1>13. m'.types = Append(m.types, def)
  BY <1>2, <1>6 DEF TakesTy, SameMade
<1> QED
  BY <1>1, <1>4, <1>9, <1>10, <1>12, <1>13 DEF MakesTopTy, TyPartsOf, t, content, P

-----------------------------------------------------------------------------
(* The invariants *)

\* An instance was seen, and is made once; it has a body.  Unless there are
\* too many instances, all that was seen is through.
MadeInv ==
  /\ IsCollector(m)
  /\ Len(m.instances) <= InstanceLimit
  /\ MadeKeys \subseteq m.seen
  /\ \A i, j \in 1 .. Len(m.instances) : m.instances[i].key = m.instances[j].key => i = j
  /\ \A k \in MadeKeys : HasMir(k.fn)
  /\ IsCut \/ m.seen \subseteq Through

\* Unless there is an error, the calls of the instances lead to what was seen
\* or is on the stack.
LinkInv ==
  m.errors = {} =>
    \A i \in 1 .. Len(m.instances) : \A c \in m.instances[i].calls :
      c.to \in m.seen \union ToSet(m.fnWork)

\* The strings of the instances are in the pool with their texts.
TextsInv ==
  /\ TextsOk(m)
  /\ \A i \in 1 .. Len(m.instances) : \A id \in DOMAIN m.instances[i].strs :
       /\ m.instances[i].strs[id] \in 1 .. Len(m.strings)
       /\ m.strings[m.instances[i].strs[id]] = Pools[PkgOf(m.instances[i].key.fn)][id]

\* The types that were taken from the stack.
ThroughTys == m.seenTys \ ToSet(m.tyWork)

\* What is written in the instance with key k.
FnPartsOf(k) == Parts(MirOf(k.fn, tabs[k.fn]).parts)

\* A type is queued once; it is made once when it is through, or is known to
\* have no definition; what is written in what is made was seen.
TypesInv ==
  /\ TypesKept(m, ThroughTys)
  /\ MadeTypes \subseteq ThroughTys
  /\ \A i, j \in 1 .. Len(m.types) : m.types[i].ty = m.types[j].ty => i = j
  /\ \A t \in MadeTypes : t.n \in DOMAIN Contents
  /\ \A t \in ThroughTys \ MadeTypes : t.n \notin DOMAIN Contents /\ m.errors # {}
  /\ \A k \in MadeKeys : WrittenIn(FnPartsOf(k), "loc", k.args) \subseteq m.seenTys
  /\ \A t \in MadeTypes : WrittenIn(TyPartsOf(t), "gen", GenSubst(t)) \subseteq m.seenTys

\* The program is finished when the stacks are empty and there is no error.
DoneInv ==
  phase = "done" => m.errors = {} /\ m.fnWork = <<>> /\ m.tyWork = <<>>

Inv == TabsInv /\ MadeInv /\ LinkInv /\ TextsInv /\ TypesInv /\ DoneInv

\* What the steps of the collector are.
LEMMA StepDoes ==
  ASSUME Inv, Next
  PROVE  \/ \E f \in Own : InferFn(f)
         \/ phase = "mono" /\ UNCHANGED <<prog, phase, tabs>> /\ Pops /\ ~IsCut /\
              \/ Top \in m.seen /\ DropsTop({})
              \/ Top \notin m.seen /\ DropsTop({[e |-> "TooManyInstances"]})
              \/ /\ Top \notin m.seen /\ ~HasMir(Top.fn)
                 /\ DropsTop({[e |-> "MissingBody", fn |-> Top.fn]})
              \/ /\ Top \notin m.seen /\ HasMir(Top.fn) /\ Len(m.instances) < InstanceLimit
                 /\ MakesTop
         \/ phase = "mono" /\ UNCHANGED <<prog, phase, tabs>> /\
              \/ TopTy.n \notin DOMAIN Contents /\ DropsTy
              \/ MakesTopTy
         \/ Finish
<1>1. TabsInv /\ IsCollector(m)
  BY DEF Inv, MadeInv
<1>2. \A i, j \in 1 .. Len(m.tyWork) : m.tyWork[i] = m.tyWork[j] => i = j
  BY DEF Inv, TypesInv, TypesKept
<1>3. ASSUME SkipSeen \/ TooManyInstances \/ MissBody \/ MakeInstance
      PROVE  phase = "mono" /\ UNCHANGED <<prog, phase, tabs>> /\ Pops /\ ~IsCut
  BY <1>3 DEF SkipSeen, TooManyInstances, MissBody, MakeInstance, Pops
<1>4. CASE SkipSeen
  BY <1>1, <1>3, <1>4, TopIsDropped DEF SkipSeen
<1>5. CASE TooManyInstances
  BY <1>1, <1>3, <1>5, TopIsDropped DEF TooManyInstances
<1>6. CASE MissBody
  BY <1>1, <1>3, <1>6, TopIsDropped DEF MissBody
<1>7. CASE MakeInstance
  BY <1>1, <1>3, <1>7, TopIsMade DEF MakeInstance
<1>8. CASE MissTyDef
  BY <1>1, <1>2, <1>8, TopTyIsDropped DEF MissTyDef, TypesOnly
<1>9. CASE MakeType
  BY <1>1, <1>2, <1>9, TopTyIsMade DEF MakeType, TypesOnly
<1> QED
  BY <1>4, <1>5, <1>6, <1>7, <1>8, <1>9 DEF Next

\* What the instances are after one more.
LEMMA OneMoreInstance ==
  ASSUME IsCollector(m), MakesTop
  PROVE  /\ Len(m.instances) \in Nat
         /\ Len(m'.instances) = Len(m.instances) + 1
         /\ \A i \in 1 .. Len(m.instances) : m'.instances[i] = m.instances[i]
         /\ m'.instances[Len(m.instances) + 1] = TopInstance
         /\ TopInstance.key = Top
         /\ MadeKeys' = MadeKeys \union {Top}
<1>1. IsList(m.instances) /\ Len(m.instances) \in Nat
  BY DEF IsCollector, IsList
<1>2. m'.instances = Append(m.instances, TopInstance)
  BY DEF MakesTop
<1>3. TopInstance.key = Top
  BY DEF TopInstance, InstanceOf
<1> DEFINE n == Len(m.instances)
<1>4. /\ Len(m'.instances) = n + 1
      /\ \A i \in 1 .. n : m'.instances[i] = m.instances[i]
      /\ m'.instances[n + 1] = TopInstance
  BY <1>1, <1>2, AppendIsList
<1>5. 1 .. n + 1 = (1 .. n) \union {n + 1}
  BY <1>1
<1>6. MadeKeys' = {m'.instances[i].key : i \in 1 .. Len(m'.instances)}
  BY DEF MadeKeys
<1>7. MadeKeys = {m.instances[i].key : i \in 1 .. n}
  BY DEF MadeKeys
<1>8. MadeKeys' = {m'.instances[i].key : i \in 1 .. n} \union {m'.instances[n + 1].key}
  BY <1>4, <1>5, <1>6
<1>9. {m'.instances[i].key : i \in 1 .. n} = MadeKeys
  BY <1>4, <1>7
<1> QED
  BY <1>1, <1>3, <1>4, <1>8, <1>9

\* What the definitions are after one more.
LEMMA OneMoreType ==
  ASSUME IsCollector(m), MakesTopTy
  PROVE  /\ Len(m.types) \in Nat
         /\ Len(m'.types) = Len(m.types) + 1
         /\ \A i \in 1 .. Len(m.types) : m'.types[i] = m.types[i]
         /\ m'.types[Len(m.types) + 1].ty = TopTy
         /\ MadeTypes' = MadeTypes \union {TopTy}
<1>1. IsList(m.types) /\ Len(m.types) \in Nat
  BY DEF IsCollector, IsList
<1>2. PICK def : def.ty = TopTy /\ m'.types = Append(m.types, def)
  BY DEF MakesTopTy
<1> DEFINE n == Len(m.types)
<1>4. /\ Len(m'.types) = n + 1
      /\ \A i \in 1 .. n : m'.types[i] = m.types[i]
      /\ m'.types[n + 1].ty = TopTy
  BY <1>1, <1>2, AppendIsList
<1>5. 1 .. n + 1 = (1 .. n) \union {n + 1}
  BY <1>1
<1>6. MadeTypes' = {m'.types[i].ty : i \in 1 .. Len(m'.types)}
  BY DEF MadeTypes
<1>7. MadeTypes = {m.types[i].ty : i \in 1 .. n}
  BY DEF MadeTypes
<1>8. MadeTypes' = {m'.types[i].ty : i \in 1 .. n} \union {m'.types[n + 1].ty}
  BY <1>4, <1>5, <1>6
<1>9. {m'.types[i].ty : i \in 1 .. n} = MadeTypes
  BY <1>4, <1>7
<1> QED
  BY <1>1, <1>4, <1>8, <1>9

\* What was seen or is on the stack.
Known == m.seen \union ToSet(m.fnWork)

LEMMA KnownGrows ==
  ASSUME NEW called, FnStep(called)
  PROVE  Known' = Known \union called
  BY DEF FnStep, Known

LEMMA KnownStays ==
  ASSUME TyStep
  PROVE  Known' = Known
  BY DEF TyStep, Known

\* What is through stays so, and when there are too many instances there are.
LEMMA ThroughGrows ==
  ASSUME MadeKeys \subseteq MadeKeys', m.seen \subseteq m'.seen, m.errors \subseteq m'.errors
  PROVE  Through \subseteq Through' /\ (IsCut => IsCut')
  BY DEF Through, IsCut

\* The collector is new at first.
LEMMA NewIsCollector ==
  /\ IsCollector(NewCollector)
  /\ NewCollector.instances = <<>> /\ NewCollector.types = <<>> /\ NewCollector.seen = {}
  /\ NewCollector.fnWork = <<MainKey>> /\ NewCollector.seenTys = {}
  /\ NewCollector.tyWork = <<>> /\ NewCollector.strings = <<>>
  /\ NewCollector.remap = <<>> /\ NewCollector.errors = {}
<1>1. IsList(<<>>) /\ IsList(<<MainKey>>)
  BY DEF IsList
<1> QED
  BY <1>1 DEF NewCollector, IsCollector

LEMMA InitInv == Init => Inv
<1> SUFFICES ASSUME Init PROVE Inv
  OBVIOUS
<1>1. m = NewCollector /\ phase = "infer" /\ tabs = <<>> /\ prog \in Progs
  BY DEF Init
<1>2. TabsInv
  BY <1>1 DEF TabsInv
<1>3. /\ IsCollector(m) /\ m.instances = <<>> /\ m.types = <<>> /\ m.seen = {}
      /\ m.seenTys = {} /\ m.tyWork = <<>> /\ m.strings = <<>> /\ m.remap = <<>>
  BY <1>1, NewIsCollector
<1>4. MadeKeys = {} /\ MadeTypes = {} /\ ThroughTys = {} /\ ToSet(m.tyWork) = {}
  BY <1>3 DEF MadeKeys, MadeTypes, ThroughTys, ToSet
<1>5. MadeInv
  BY <1>3, <1>4, LimitAssumption DEF MadeInv
<1>6. LinkInv /\ TextsInv
  BY <1>3 DEF LinkInv, TextsInv, TextsOk
<1>7. TypesInv
  BY <1>3, <1>4 DEF TypesInv, TypesKept
<1>8. DoneInv
  BY <1>1 DEF DoneInv
<1> QED
  BY <1>2, <1>5, <1>6, <1>7, <1>8 DEF Inv

LEMMA TabsKept ==
  ASSUME Inv, Next
  PROVE  TabsInv'
<1>1. TabsInv
  BY DEF Inv
<1>2. ASSUME NEW f \in Own, InferFn(f) PROVE TabsInv'
  <2>1. /\ phase = "infer" /\ prog' = prog /\ m' = m
        /\ DOMAIN tabs' = DOMAIN tabs \union {f}
        /\ tabs'[f] = Infer(prog, f)
        /\ \A g \in DOMAIN tabs : g # f => tabs'[g] = tabs[g]
    BY <1>2 DEF InferFn
  <2>2. /\ phase' \in {"infer", "mono", "rejected"}
        /\ phase' # "rejected" => tabs'[f].err = ""
        /\ phase' = "mono" => DOMAIN tabs' = Own
    BY <1>2 DEF InferFn
  <2>3. m' = NewCollector
    BY <1>1, <2>1 DEF TabsInv
  <2>4. \A g \in DOMAIN tabs' : g = f \/ (g \in DOMAIN tabs /\ tabs'[g] = tabs[g])
    BY <2>1
  <2>5. \A g \in DOMAIN tabs' : tabs'[g] = Infer(prog', g)
    BY <1>1, <2>1, <2>4 DEF TabsInv
  <2>6. phase' # "rejected" => \A g \in DOMAIN tabs' : tabs'[g].err = ""
    BY <1>1, <2>1, <2>2, <2>4 DEF TabsInv
  <2>7. prog' \in Progs /\ DOMAIN tabs' \subseteq Own
    BY <1>1, <2>1 DEF TabsInv
  <2> QED
    BY <2>2, <2>3, <2>5, <2>6, <2>7 DEF TabsInv
<1>3. CASE phase = "mono" /\ UNCHANGED <<prog, phase, tabs>>
  BY <1>1, <1>3 DEF TabsInv
<1>4. CASE Finish
  BY <1>1, <1>4 DEF Finish, TypesOnly, TabsInv
<1> QED
  BY <1>2, <1>3, <1>4, StepDoes

LEMMA MadeKept ==
  ASSUME Inv, Next
  PROVE  MadeInv'
<1>1. MadeInv /\ IsCollector(m) /\ Len(m.instances) \in Nat
  BY DEF Inv, MadeInv, IsCollector, IsList
<1>2. ASSUME m' = m PROVE MadeInv'
  BY <1>1, <1>2 DEF MadeInv, MadeKeys, IsCut, Through
<1>3. ASSUME NEW es, DropsTop(es), ~IsCut,
             \/ Top \in m.seen
             \/ \E e \in es : e.e = "TooManyInstances"
             \/ ~HasMir(Top.fn) /\ [e |-> "MissingBody", fn |-> Top.fn] \in es
      PROVE  MadeInv'
  <2>1. /\ IsCollector(m') /\ m'.instances = m.instances
        /\ m'.seen = m.seen \union {Top} /\ m'.errors = m.errors \union es
    BY <1>3 DEF DropsTop, FnStep
  <2>2. MadeKeys' = MadeKeys
    BY <2>1 DEF MadeKeys
  <2>3. Through \subseteq Through' /\ m.seen \subseteq Through
    BY <1>1, <1>3, <2>1, <2>2, ThroughGrows DEF MadeInv
  <2>4. IsCut' \/ Top \in Through'
    <3>1. CASE Top \in m.seen
      BY <2>3, <3>1
    <3>2. CASE \E e \in es : e.e = "TooManyInstances"
      BY <2>1, <3>2 DEF IsCut
    <3>3. CASE ~HasMir(Top.fn) /\ [e |-> "MissingBody", fn |-> Top.fn] \in es
      BY <2>1, <3>3 DEF Through
    <3> QED
      BY <1>3, <3>1, <3>2, <3>3
  <2> QED
    BY <1>1, <2>1, <2>2, <2>3, <2>4 DEF MadeInv
<1>4. ASSUME MakesTop, Top \notin m.seen, HasMir(Top.fn), Len(m.instances) < InstanceLimit, ~IsCut
      PROVE  MadeInv'
  <2>1. /\ IsCollector(m') /\ m'.seen = m.seen \union {Top} /\ m.errors \subseteq m'.errors
    BY <1>4 DEF MakesTop, FnStep, OnlyCallErrors
  <2>2. /\ Len(m'.instances) = Len(m.instances) + 1
        /\ \A i \in 1 .. Len(m.instances) : m'.instances[i] = m.instances[i]
        /\ m'.instances[Len(m.instances) + 1].key = Top
        /\ MadeKeys' = MadeKeys \union {Top}
    BY <1>1, <1>4, OneMoreInstance
  <2>3. Through \subseteq Through' /\ m.seen \subseteq Through
    BY <1>1, <1>4, <2>1, <2>2, ThroughGrows DEF MadeInv
  <2>4. Top \in Through'
    BY <2>1, <2>2 DEF Through
  <2>5. \A i \in 1 .. Len(m.instances) : m.instances[i].key # Top
    BY <1>1, <1>4 DEF MadeInv, MadeKeys
  <2>6. ASSUME NEW i \in 1 .. Len(m'.instances), NEW j \in 1 .. Len(m'.instances),
               m'.instances[i].key = m'.instances[j].key
        PROVE  i = j
    <3>1. \A k \in 1 .. Len(m'.instances) : k \in 1 .. Len(m.instances) \/ k = Len(m.instances) + 1
      BY <1>1, <2>2
    <3> QED
      BY <1>1, <2>2, <2>5, <2>6, <3>1 DEF MadeInv
  <2>7. Len(m'.instances) <= InstanceLimit
    BY <1>1, <1>4, <2>2, LimitAssumption
  <2>8. MadeKeys' \subseteq m'.seen /\ \A k \in MadeKeys' : HasMir(k.fn)
    BY <1>1, <1>4, <2>1, <2>2 DEF MadeInv
  <2> QED
    BY <2>1, <2>3, <2>4, <2>6, <2>7, <2>8 DEF MadeInv
<1>5. ASSUME TyStep, m.errors \subseteq m'.errors
      PROVE  MadeInv'
  <2>1. IsCollector(m') /\ m'.instances = m.instances /\ m'.seen = m.seen
    BY <1>5 DEF TyStep
  <2>2. MadeKeys' = MadeKeys
    BY <2>1 DEF MadeKeys
  <2>3. Through \subseteq Through' /\ (IsCut => IsCut')
    BY <1>5, <2>1, <2>2, ThroughGrows
  <2> QED
    BY <1>1, <2>1, <2>2, <2>3 DEF MadeInv
<1>6. CASE Finish \/ \E f \in Own : InferFn(f)
  BY <1>2, <1>6 DEF Finish, InferFn
<1>7. CASE DropsTy \/ MakesTopTy
  BY <1>5, <1>7 DEF DropsTy, MakesTopTy, OnlyCallErrors
<1> QED
  BY <1>3, <1>4, <1>6, <1>7, StepDoes

LEMMA LinkKept ==
  ASSUME Inv, Next
  PROVE  LinkInv'
<1> DEFINE Leads(insts, known) ==
             \A i \in 1 .. Len(insts) : \A c \in insts[i].calls : c.to \in known
<1>1. IsCollector(m) /\ (m.errors = {} => Leads(m.instances, Known))
  BY DEF Inv, MadeInv, LinkInv, Known
<1>2. (m'.errors = {} => Leads(m'.instances, Known')) => LinkInv'
  BY DEF LinkInv, Known
<1>3. ASSUME m'.instances = m.instances, Known \subseteq Known', m.errors \subseteq m'.errors
      PROVE  LinkInv'
  BY <1>1, <1>2, <1>3
<1>4. ASSUME NEW es, DropsTop(es) PROVE LinkInv'
  <2>1. FnStep({}) /\ m'.instances = m.instances /\ m.errors \subseteq m'.errors
    BY <1>4 DEF DropsTop
  <2>2. Known' = Known \union {}
    BY <2>1, KnownGrows
  <2> QED
    BY <1>3, <2>1, <2>2
<1>5. ASSUME MakesTop PROVE LinkInv'
  <2> DEFINE called == CalledBy(TopParts, Top.args)
  <2> SUFFICES ASSUME m'.errors = {} PROVE Leads(m'.instances, Known')
    BY <1>2
  <2>1. Known' = Known \union called
    BY <1>5, KnownGrows DEF MakesTop
  <2>2. m.errors = {} /\ ~\E p \in TopParts : p.part = "call" /\ Callee(p, Top.args) = NoInstance
    BY <1>5 DEF MakesTop, OnlyCallErrors
  <2>3. ASSUME NEW c \in TopInstance.calls PROVE c.to \in called
    <3>1. PICK p \in PartsOf(MirOf(Top.fn, tabs[Top.fn]).parts, "call") : c = Linked(p, Top.args)
      BY DEF TopInstance, InstanceOf
    <3>2. p \in TopParts /\ p.part = "call" /\ c.to = Callee(p, Top.args)
      BY <3>1 DEF PartsOf, TopParts, Parts, Linked
    <3> QED
      BY <2>2, <3>2 DEF CalledBy
  <2> HIDE DEF called
  <2>4. /\ Len(m.instances) \in Nat
        /\ Len(m'.instances) = Len(m.instances) + 1
        /\ \A i \in 1 .. Len(m.instances) : m'.instances[i] = m.instances[i]
        /\ m'.instances[Len(m.instances) + 1] = TopInstance
    BY <1>1, <1>5, OneMoreInstance
  <2>5. \A i \in 1 .. Len(m'.instances) : i \in 1 .. Len(m.instances) \/ i = Len(m.instances) + 1
    BY <2>4
  <2> QED
    BY <1>1, <2>1, <2>2, <2>3, <2>4, <2>5
<1>6. ASSUME TyStep, m.errors \subseteq m'.errors PROVE LinkInv'
  <2>1. m'.instances = m.instances /\ Known' = Known
    BY <1>6, KnownStays DEF TyStep
  <2> QED
    BY <1>3, <1>6, <2>1
<1>7. CASE Finish \/ \E f \in Own : InferFn(f)
  <2>1. m' = m
    BY <1>7 DEF Finish, InferFn
  <2> QED
    BY <1>3, <2>1 DEF Known
<1>8. CASE DropsTy \/ MakesTopTy
  BY <1>6, <1>8 DEF DropsTy, MakesTopTy, OnlyCallErrors
<1> QED
  BY <1>4, <1>5, <1>7, <1>8, StepDoes

LEMMA TextsAreKept ==
  ASSUME Inv, Next
  PROVE  TextsInv'
<1> DEFINE InPool(inst, strings) ==
             \A id \in DOMAIN inst.strs :
               /\ inst.strs[id] \in 1 .. Len(strings)
               /\ strings[inst.strs[id]] = Pools[PkgOf(inst.key.fn)][id]
<1>1. /\ IsCollector(m) /\ TextsOk(m) /\ Len(m.strings) \in Nat
      /\ \A i \in 1 .. Len(m.instances) : InPool(m.instances[i], m.strings)
  BY DEF Inv, MadeInv, TextsInv, IsCollector, IsList
<1>2. TextsOk(m') /\ (\A i \in 1 .. Len(m'.instances) : InPool(m'.instances[i], m'.strings))
        => TextsInv'
  BY DEF TextsInv, TextsOk
<1>3. ASSUME NEW inst, InPool(inst, m.strings), Longer(m.strings, m'.strings),
             Len(m'.strings) \in Nat
      PROVE  InPool(inst, m'.strings)
  BY <1>1, <1>3 DEF Longer
<1>4. ASSUME m'.instances = m.instances, Longer(m.strings, m'.strings), TextsOk(m'),
             Len(m'.strings) \in Nat
      PROVE  TextsInv'
  <2> HIDE DEF InPool
  <2> QED
    BY <1>1, <1>2, <1>3, <1>4
<1>5. ASSUME m'.instances = m.instances, SameTexts(m, m') PROVE TextsInv'
  <2>1. Longer(m.strings, m'.strings) /\ TextsOk(m') /\ Len(m'.strings) \in Nat
    BY <1>1, <1>5 DEF SameTexts, Longer, TextsOk
  <2> HIDE DEF InPool
  <2> QED
    BY <1>4, <1>5, <2>1
<1>6. ASSUME MakesTop PROVE TextsInv'
  <2>1. Longer(m.strings, m'.strings) /\ TextsOk(m') /\ IsCollector(m')
    BY <1>1, <1>6 DEF MakesTop, FnStep
  <2>2. Len(m'.strings) \in Nat
    BY <2>1 DEF IsCollector, IsList
  <2>3. InPool(TopInstance, m'.strings)
    <3> DEFINE ids == {p.id : p \in PartsOf(MirOf(Top.fn, tabs[Top.fn]).parts, "str")}
               strs == [id \in ids |-> m'.remap[<<PkgOf(Top.fn), id>>]]
    <3>1. TopInstance.strs = strs /\ TopInstance.key = Top
      BY DEF TopInstance, InstanceOf
    <3>2. ASSUME NEW id \in ids PROVE <<PkgOf(Top.fn), id>> \in DOMAIN m'.remap
      <4>1. PICK p \in PartsOf(MirOf(Top.fn, tabs[Top.fn]).parts, "str") : id = p.id
        BY <3>2
      <4>2. p \in TopParts /\ p.part = "str"
        BY <4>1 DEF PartsOf, TopParts, Parts
      <4> QED
        BY <1>6, <4>1, <4>2 DEF MakesTop
    <3> HIDE DEF ids
    <3>3. ASSUME NEW id \in ids
          PROVE  /\ strs[id] \in 1 .. Len(m'.strings)
                 /\ m'.strings[strs[id]] = Pools[PkgOf(Top.fn)][id]
      BY <2>1, <3>2, <3>3 DEF TextsOk
    <3>4. DOMAIN strs = ids
      OBVIOUS
    <3> HIDE DEF strs
    <3> QED
      BY <3>1, <3>3, <3>4
  <2>4. /\ Len(m.instances) \in Nat
        /\ Len(m'.instances) = Len(m.instances) + 1
        /\ \A i \in 1 .. Len(m.instances) : m'.instances[i] = m.instances[i]
        /\ m'.instances[Len(m.instances) + 1] = TopInstance
    BY <1>1, <1>6, OneMoreInstance
  <2>5. \A i \in 1 .. Len(m'.instances) : i \in 1 .. Len(m.instances) \/ i = Len(m.instances) + 1
    BY <2>4
  <2> HIDE DEF InPool
  <2> QED
    BY <1>1, <1>2, <1>3, <2>1, <2>2, <2>3, <2>4, <2>5
<1>7. ASSUME TyStep PROVE TextsInv'
  <2>1. /\ m'.instances = m.instances /\ Longer(m.strings, m'.strings) /\ TextsOk(m')
        /\ IsCollector(m')
    BY <1>1, <1>7 DEF TyStep
  <2>2. Len(m'.strings) \in Nat
    BY <2>1 DEF IsCollector, IsList
  <2> HIDE DEF InPool
  <2> QED
    BY <1>4, <2>1, <2>2
<1>8. CASE Finish \/ \E f \in Own : InferFn(f)
  <2>1. m' = m
    BY <1>8 DEF Finish, InferFn
  <2> HIDE DEF InPool
  <2> QED
    BY <1>5, <2>1 DEF SameTexts
<1> HIDE DEF InPool
<1>9. \A es : DropsTop(es) => TextsInv'
  BY <1>5 DEF DropsTop
<1>10. DropsTy \/ MakesTopTy => TextsInv'
  BY <1>7 DEF DropsTy, MakesTopTy
<1> QED
  BY <1>6, <1>8, <1>9, <1>10, StepDoes

\* What is right stays right when the queue is and the rest grows.
LEMMA TypesKeptFrom ==
  ASSUME TypesInv, TypesKept(m', ThroughTys), m'.types = m.types, tabs' = tabs,
         MadeKeys' = MadeKeys, m.seenTys \subseteq m'.seenTys, m.errors \subseteq m'.errors
  PROVE  TypesInv'
<1>1. ThroughTys' = ThroughTys
  BY DEF TypesKept, ThroughTys
<1>2. MadeTypes' = MadeTypes
  BY DEF MadeTypes
<1>3. \A k : FnPartsOf(k)' = FnPartsOf(k)
  BY DEF FnPartsOf
<1>4. \A k \in MadeKeys : WrittenIn(FnPartsOf(k), "loc", k.args) \subseteq m'.seenTys
  BY DEF TypesInv
<1>5. \A t \in MadeTypes : WrittenIn(TyPartsOf(t), "gen", GenSubst(t)) \subseteq m'.seenTys
  BY DEF TypesInv
<1>6. \A t \in ThroughTys \ MadeTypes : t.n \notin DOMAIN Contents /\ m'.errors # {}
  BY DEF TypesInv
<1>7. /\ MadeTypes \subseteq ThroughTys
      /\ \A i, j \in 1 .. Len(m.types) : m.types[i].ty = m.types[j].ty => i = j
      /\ \A t \in MadeTypes : t.n \in DOMAIN Contents
  BY DEF TypesInv
<1> QED
  BY <1>1, <1>2, <1>3, <1>4, <1>5, <1>6, <1>7 DEF TypesInv

LEMMA TypesAreKept ==
  ASSUME Inv, Next
  PROVE  TypesInv'
<1>1. TypesInv /\ IsCollector(m) /\ TypesKept(m, ThroughTys)
  BY DEF Inv, TypesInv, MadeInv
<1>2. CASE Finish
  <2>1. m' = m /\ tabs' = tabs
    BY <1>2 DEF Finish
  <2> QED
    BY <1>1, <2>1, TypesKeptFrom DEF MadeKeys
<1>3. ASSUME NEW f \in Own, InferFn(f) PROVE TypesInv'
  <2>1. m' = m /\ m = NewCollector
    BY <1>3 DEF InferFn, Inv, TabsInv
  <2>2. MadeKeys' = {} /\ MadeTypes' = {} /\ ThroughTys' = {}
    <3>1. m'.instances = <<>> /\ m'.types = <<>> /\ m'.seenTys = {}
      BY <2>1, NewIsCollector
    <3> QED
      BY <3>1 DEF MadeKeys, MadeTypes, ThroughTys
  <2>3. TypesKept(m', ThroughTys') /\ m'.types = <<>>
    BY <1>1, <2>1, NewIsCollector DEF ThroughTys
  <2> QED
    BY <2>2, <2>3 DEF TypesInv
<1>4. ASSUME NEW es, DropsTop(es), tabs' = tabs PROVE TypesInv'
  <2>1. /\ m'.types = m.types /\ m'.seenTys = m.seenTys /\ m'.tyWork = m.tyWork
        /\ m'.instances = m.instances /\ m.errors \subseteq m'.errors
    BY <1>4 DEF DropsTop, FnStep, SameTypes
  <2> QED
    BY <1>1, <1>4, <2>1, TypesKeptFrom DEF MadeKeys, TypesKept
<1>5. ASSUME MakesTop, tabs' = tabs PROVE TypesInv'
  <2> DEFINE written == WrittenIn(TopParts, "loc", Top.args)
  <2>1. /\ m'.types = m.types /\ m.errors \subseteq m'.errors
        /\ m'.seenTys = m.seenTys \union written
        /\ TypesKept(m', ThroughTys)
    BY <1>1, <1>5 DEF MakesTop, FnStep, OnlyCallErrors
  <2>2. MadeKeys' = MadeKeys \union {Top}
    BY <1>1, <1>5, OneMoreInstance
  <2>3. ThroughTys' = ThroughTys /\ MadeTypes' = MadeTypes
    BY <2>1 DEF TypesKept, ThroughTys, MadeTypes
  <2>4. \A k : FnPartsOf(k)' = FnPartsOf(k)
    BY <1>5 DEF FnPartsOf
  <2>5. FnPartsOf(Top) = TopParts
    BY DEF FnPartsOf, TopParts
  <2>6. \A k \in MadeKeys' : WrittenIn(FnPartsOf(k), "loc", k.args) \subseteq m'.seenTys
    BY <1>1, <2>1, <2>2, <2>5 DEF TypesInv
  <2> HIDE DEF written
  <2>7. \A t \in MadeTypes : WrittenIn(TyPartsOf(t), "gen", GenSubst(t)) \subseteq m'.seenTys
    BY <1>1, <2>1 DEF TypesInv
  <2>8. \A t \in ThroughTys \ MadeTypes : t.n \notin DOMAIN Contents /\ m'.errors # {}
    BY <1>1, <2>1 DEF TypesInv
  <2>9. /\ MadeTypes \subseteq ThroughTys
        /\ \A i, j \in 1 .. Len(m.types) : m.types[i].ty = m.types[j].ty => i = j
        /\ \A t \in MadeTypes : t.n \in DOMAIN Contents
    BY <1>1 DEF TypesInv
  <2> QED
    BY <2>1, <2>3, <2>4, <2>6, <2>7, <2>8, <2>9 DEF TypesInv
<1>6. ASSUME TyStep, tabs' = tabs, m.errors \subseteq m'.errors, m.seenTys \subseteq m'.seenTys
      PROVE  /\ TypesKept(m', ThroughTys') /\ ThroughTys' = ThroughTys \union {TopTy}
             /\ TopTy \notin ThroughTys
             /\ \A k \in MadeKeys' : WrittenIn(FnPartsOf(k)', "loc", k.args) \subseteq m'.seenTys
  <2>1. TypesKept(m', ThroughTys \union {TopTy}) /\ TopTy \notin ThroughTys
    BY <1>1, <1>6 DEF TyStep, ThroughTys
  <2>2. ThroughTys' = ThroughTys \union {TopTy}
    BY <2>1 DEF TypesKept, ThroughTys
  <2>3. MadeKeys' = MadeKeys
    BY <1>6 DEF TyStep, MadeKeys
  <2>4. \A k : FnPartsOf(k)' = FnPartsOf(k)
    BY <1>6 DEF FnPartsOf
  <2>5. \A k \in MadeKeys : WrittenIn(FnPartsOf(k), "loc", k.args) \subseteq m'.seenTys
    BY <1>1, <1>6 DEF TypesInv
  <2> QED
    BY <2>1, <2>2, <2>3, <2>4, <2>5
<1>7. ASSUME DropsTy, TopTy.n \notin DOMAIN Contents, tabs' = tabs PROVE TypesInv'
  <2>1. /\ TyStep /\ m'.types = m.types /\ m'.seenTys = m.seenTys
        /\ m.errors \subseteq m'.errors /\ m'.errors # {}
    BY <1>7 DEF DropsTy
  <2>2. /\ TypesKept(m', ThroughTys') /\ ThroughTys' = ThroughTys \union {TopTy}
        /\ \A k \in MadeKeys' : WrittenIn(FnPartsOf(k)', "loc", k.args) \subseteq m'.seenTys
    BY <1>6, <1>7, <2>1
  <2>3. MadeTypes' = MadeTypes
    BY <2>1 DEF MadeTypes
  <2>4. \A t \in ThroughTys' \ MadeTypes : t.n \notin DOMAIN Contents /\ m'.errors # {}
    BY <1>1, <1>7, <2>1, <2>2 DEF TypesInv
  <2>5. /\ MadeTypes \subseteq ThroughTys'
        /\ \A i, j \in 1 .. Len(m.types) : m.types[i].ty = m.types[j].ty => i = j
        /\ \A t \in MadeTypes : t.n \in DOMAIN Contents
        /\ \A t \in MadeTypes : WrittenIn(TyPartsOf(t), "gen", GenSubst(t)) \subseteq m'.seenTys
    BY <1>1, <2>1, <2>2 DEF TypesInv
  <2> QED
    BY <2>1, <2>2, <2>3, <2>4, <2>5 DEF TypesInv
<1>8. ASSUME MakesTopTy, tabs' = tabs PROVE TypesInv'
  <2> DEFINE written == WrittenIn(TyPartsOf(TopTy), "gen", GenSubst(TopTy))
  <2>1. /\ TyStep /\ m'.seenTys = m.seenTys \union written
        /\ m.errors \subseteq m'.errors /\ TopTy.n \in DOMAIN Contents
    BY <1>8 DEF MakesTopTy, OnlyCallErrors
  <2> HIDE DEF written
  <2>2. /\ TypesKept(m', ThroughTys') /\ ThroughTys' = ThroughTys \union {TopTy}
        /\ TopTy \notin ThroughTys
        /\ \A k \in MadeKeys' : WrittenIn(FnPartsOf(k)', "loc", k.args) \subseteq m'.seenTys
    BY <1>6, <1>8, <2>1
  <2>3. /\ Len(m.types) \in Nat /\ Len(m'.types) = Len(m.types) + 1
        /\ \A i \in 1 .. Len(m.types) : m'.types[i] = m.types[i]
        /\ m'.types[Len(m.types) + 1].ty = TopTy
        /\ MadeTypes' = MadeTypes \union {TopTy}
    BY <1>1, <1>8, OneMoreType
  <2>4. MadeTypes \subseteq ThroughTys /\ \A t \in MadeTypes : t.n \in DOMAIN Contents
    BY <1>1 DEF TypesInv
  <2>5. \A i \in 1 .. Len(m.types) : m.types[i].ty # TopTy
    BY <2>2, <2>4 DEF MadeTypes
  <2>6. ASSUME NEW i \in 1 .. Len(m'.types), NEW j \in 1 .. Len(m'.types),
               m'.types[i].ty = m'.types[j].ty
        PROVE  i = j
    <3>1. \A k \in 1 .. Len(m'.types) : k \in 1 .. Len(m.types) \/ k = Len(m.types) + 1
      BY <2>3
    <3>2. \A k, l \in 1 .. Len(m.types) : m.types[k].ty = m.types[l].ty => k = l
      BY <1>1 DEF TypesInv
    <3> QED
      BY <2>3, <2>5, <2>6, <3>1, <3>2
  <2>7. \A t \in ThroughTys' \ MadeTypes' : t.n \notin DOMAIN Contents /\ m'.errors # {}
    BY <1>1, <2>1, <2>2, <2>3 DEF TypesInv
  <2>8. MadeTypes' \subseteq ThroughTys' /\ \A t \in MadeTypes' : t.n \in DOMAIN Contents
    BY <2>1, <2>2, <2>3, <2>4
  <2>9. \A t \in MadeTypes' : WrittenIn(TyPartsOf(t), "gen", GenSubst(t)) \subseteq m'.seenTys
    BY <1>1, <2>1, <2>3 DEF TypesInv, written
  <2> QED
    BY <2>2, <2>6, <2>7, <2>8, <2>9 DEF TypesInv
<1> QED
  BY <1>2, <1>3, <1>4, <1>5, <1>7, <1>8, StepDoes

LEMMA DoneKept ==
  ASSUME Inv, Next
  PROVE  DoneInv'
<1>1. CASE Finish
  <2>1. /\ phase' = "done" => m.errors = {}
        /\ m' = m /\ m.tyWork = <<>> /\ (m.fnWork = <<>> \/ IsCut)
    BY <1>1 DEF Finish, TypesOnly
  <2> QED
    BY <2>1 DEF DoneInv, IsCut
<1>2. CASE \E f \in Own : InferFn(f)
  <2>1. phase' # "done"
    BY <1>2 DEF InferFn
  <2> QED
    BY <2>1 DEF DoneInv
<1>3. CASE phase = "mono" /\ phase' = phase
  BY <1>3 DEF DoneInv
<1> QED
  BY <1>1, <1>2, <1>3, StepDoes

\* The invariants hold.
THEOREM Invariant == Spec => []Inv
<1>1. Inv /\ [Next]_vars => Inv'
  <2> SUFFICES ASSUME Inv, [Next]_vars PROVE Inv'
    OBVIOUS
  <2>1. CASE UNCHANGED vars
    <3>1. prog' = prog /\ phase' = phase /\ tabs' = tabs /\ m' = m
      BY <2>1 DEF vars
    <3>2. TabsInv' /\ LinkInv' /\ TextsInv' /\ DoneInv'
      BY <3>1 DEF Inv, TabsInv, LinkInv, TextsInv, DoneInv, TextsOk
    <3>3. MadeKeys' = MadeKeys /\ MadeTypes' = MadeTypes /\ ThroughTys' = ThroughTys
      BY <3>1 DEF MadeKeys, MadeTypes, ThroughTys
    <3>4. MadeInv'
      BY <3>1, <3>3 DEF Inv, MadeInv, IsCut, Through
    <3>5. TypesInv'
      <4>1. \A k : FnPartsOf(k)' = FnPartsOf(k)
        BY <3>1 DEF FnPartsOf
      <4> QED
        BY <3>1, <3>3, <4>1 DEF Inv, TypesInv
    <3> QED
      BY <3>2, <3>4, <3>5 DEF Inv
  <2>2. CASE Next
    BY <2>2, TabsKept, MadeKept, LinkKept, TextsAreKept, TypesAreKept, DoneKept DEF Inv
  <2> QED
    BY <2>1, <2>2
<1> QED
  BY <1>1, InitInv, PTL DEF Spec

-----------------------------------------------------------------------------
(* What they say *)

\* Instances and definitions are made once, from what was seen, and no more of
\* instances than the limit; a string is where remap says.
THEOREM CollectorTypeOK == Spec => []TypeOK
<1>1. Inv => TypeOK
  <2> SUFFICES ASSUME Inv PROVE TypeOK
    OBVIOUS
  <2>1. prog \in Progs /\ phase \in {"infer", "mono", "done", "rejected"} /\ DOMAIN tabs \subseteq Own
    BY DEF Inv, TabsInv
  <2>2. /\ Len(m.instances) <= InstanceLimit /\ MadeKeys \subseteq m.seen
        /\ \A i, j \in 1 .. Len(m.instances) : m.instances[i].key = m.instances[j].key => i = j
    BY DEF Inv, MadeInv
  <2>3. /\ TypesKept(m, ThroughTys) /\ MadeTypes \subseteq ThroughTys
        /\ \A i, j \in 1 .. Len(m.types) : m.types[i].ty = m.types[j].ty => i = j
        /\ \A t \in ThroughTys \ MadeTypes : t.n \notin DOMAIN Contents
    BY DEF Inv, TypesInv
  <2>4. /\ MadeTypes \union ToSet(m.tyWork) \subseteq m.seenTys
        /\ \A t \in m.seenTys : t.n \in DOMAIN Contents => t \in MadeTypes \union ToSet(m.tyWork)
    BY <2>3 DEF TypesKept, ThroughTys
  <2>5. \A x \in DOMAIN m.remap : m.remap[x] \in 1 .. Len(m.strings)
    BY DEF Inv, TextsInv, TextsOk
  <2> QED
    BY <2>1, <2>2, <2>3, <2>4, <2>5 DEF TypeOK
<1> QED
  BY <1>1, Invariant, PTL

\* The text of a string constant is the same in the finished program as in
\* the package it comes from, whichever packages the other constants are of.
THEOREM TextsAreTheSame == Spec => []StringsKept
<1>1. Inv => StringsKept
  BY DEF Inv, TextsInv, StringsKept
<1> QED
  BY <1>1, Invariant, PTL

\* No call of the finished program is left without its instance.
THEOREM LinksAreComplete == Spec => []CallsAreLinked
<1>1. Inv => CallsAreLinked
  <2> SUFFICES ASSUME Inv, phase = "done",
                      NEW i \in 1 .. Len(m.instances), NEW c \in m.instances[i].calls
               PROVE  /\ c.to \in MadeKeys
                      /\ \A j, k \in 1 .. Len(m.instances) :
                           m.instances[j].key = c.to /\ m.instances[k].key = c.to => j = k
    BY DEF CallsAreLinked
  <2>1. m.errors = {} /\ m.fnWork = <<>>
    BY DEF Inv, DoneInv
  <2>2. ToSet(m.fnWork) = {}
    BY <2>1 DEF ToSet
  <2>3. c.to \in m.seen
    BY <2>1, <2>2 DEF Inv, LinkInv
  <2>4. ~IsCut
    BY <2>1 DEF IsCut
  <2>5. c.to \in MadeKeys
    BY <2>1, <2>3, <2>4 DEF Inv, MadeInv, Through
  <2> QED
    BY <2>5 DEF Inv, MadeInv
<1> QED
  BY <1>1, Invariant, PTL

\* No type of the finished program is left without its definition.
THEOREM DefinitionsAreComplete == Spec => []TypesAreDefined
<1>1. Inv => TypesAreDefined
  <2> SUFFICES ASSUME Inv, phase = "done"
               PROVE  TypesAreDefined
    BY DEF TypesAreDefined
  <2>1. m.errors = {} /\ m.tyWork = <<>> /\ TypesInv
    BY DEF Inv, DoneInv
  <2>2. ToSet(m.tyWork) = {}
    BY <2>1 DEF ToSet
  <2>3. m.seenTys \subseteq MadeTypes
    BY <2>1, <2>2 DEF TypesInv, ThroughTys
  <2>4. \A t \in m.seenTys : IsDefinedOnce(t)
    BY <2>1, <2>3 DEF TypesInv, IsDefinedOnce
  <2>5. ASSUME NEW k \in MadeKeys,
               NEW p \in PartsOf(MirOf(k.fn, tabs[k.fn]).parts, "ty"),
               Concrete(Put(p.ty, "loc", k.args))
        PROVE  IsDefinedOnce(Put(p.ty, "loc", k.args))
    <3>1. Put(p.ty, "loc", k.args) \in WrittenIn(FnPartsOf(k), "loc", k.args)
      BY <2>5 DEF WrittenIn, FnPartsOf, Parts, PartsOf
    <3> QED
      BY <2>1, <2>4, <3>1 DEF TypesInv
  <2>6. ASSUME NEW u \in MadeTypes,
               NEW p \in PartsOf(Contents[u.n].parts, "ty"),
               Concrete(Put(p.ty, "gen", GenSubst(u)))
        PROVE  IsDefinedOnce(Put(p.ty, "gen", GenSubst(u)))
    <3>1. Put(p.ty, "gen", GenSubst(u)) \in WrittenIn(TyPartsOf(u), "gen", GenSubst(u))
      BY <2>6 DEF WrittenIn, TyPartsOf, Parts, PartsOf
    <3> QED
      BY <2>1, <2>4, <3>1 DEF TypesInv
  <2> QED
    BY <2>5, <2>6 DEF TypesAreDefined
<1> QED
  BY <1>1, Invariant, PTL

-----------------------------------------------------------------------------
(* The worklist *)

Done == {Node(prog, k) : k \in Through}
Todo == {Node(prog, k) : k \in Known \ Through}

\* What the abstract step from n is, in the terms of the collector.
Does(n) ==
  /\ n \in Todo
  /\ Done' = Done \union {n}
  /\ Todo' = (Todo \union Calls(n)) \ Done'
  /\ prog' = prog

\* The calls of the function on top.
LEMMA TopCalls ==
  ASSUME Inv, phase = "mono", HasMir(Top.fn)
  PROVE  Calls(Node(prog, Top)) = {Node(prog, k) : k \in CalledBy(TopParts, Top.args)}
<1> DEFINE f == Top.fn
           s == Top.args
<1>1. MirOf(f, Infer(prog, f)) = MirOf(f, tabs[f])
  <2>1. CASE f \in Own
    <3>1. tabs[f] = Infer(prog, f)
      BY <2>1 DEF Inv, TabsInv
    <3> QED
      BY <3>1
  <2>2. CASE f \notin Own
    BY <2>2 DEF MirOf
  <2> QED
    BY <2>1, <2>2
<1>2. Node(prog, Top).prog = prog /\ Node(prog, Top).key = Top
  BY DEF Node
<1>3. PartsOf(MirOf(f, tabs[f]).parts, "call") = {p \in TopParts : p.part = "call"}
  BY DEF PartsOf, TopParts, Parts
<1>4. Calls(Node(prog, Top))
        = {Node(prog, Callee(c, s)) : c \in {p \in TopParts : p.part = "call"}}
            \ {Node(prog, NoInstance)}
  BY <1>1, <1>2, <1>3 DEF Calls
<1>5. \A k, l : Node(prog, k) = Node(prog, l) => k = l
  BY DEF Node
<1> QED
  BY <1>4, <1>5 DEF CalledBy

\* A step that makes an instance, or finds that there is no body, is a step of
\* the worklist.
LEMMA TopIsDone ==
  ASSUME Inv, phase = "mono", Pops, prog' = prog, Top \notin m.seen, NEW called,
         FnStep(called), Calls(Node(prog, Top)) = {Node(prog, k) : k \in called},
         Through' = Through \union {Top}
  PROVE  Does(Node(prog, Top))
<1>1. \A k, l : Node(prog, k) = Node(prog, l) => k = l
  BY DEF Node
<1>2. Top \in Known \ Through
  BY DEF FnStep, Known, Through
<1>3. Known' = Known \union called
  BY KnownGrows
<1>4. Done' = Done \union {Node(prog, Top)}
  BY DEF Done
<1>5. Todo' = (Todo \union {Node(prog, k) : k \in called}) \ Done'
  BY <1>1, <1>2, <1>3 DEF Done, Todo
<1> QED
  BY <1>2, <1>4, <1>5 DEF Does, Todo

\* A function that has no body leads nowhere.
LEMMA NoBodyNoCalls ==
  ASSUME NEW k, ~HasMir(k.fn)
  PROVE  Calls(Node(prog, k)) = {Node(prog, l) : l \in {}}
  BY DEF Calls, Node

\* Every step of the collector is a step of the worklist, or none.
LEMMA StepIsWork ==
  ASSUME Inv, Next
  PROVE  (\E n \in Todo : Does(n)) \/ (Done' = Done /\ Todo' = Todo /\ prog' = prog)
<1>1. IsCollector(m)
  BY DEF Inv, MadeInv
<1>2. ASSUME m' = m, prog' = prog PROVE Done' = Done /\ Todo' = Todo
  BY <1>2 DEF Done, Todo, Known, Through, MadeKeys
<1>3. ASSUME Known' = Known, Through' = Through, prog' = prog
      PROVE  Done' = Done /\ Todo' = Todo
  BY <1>3 DEF Done, Todo
<1>4. CASE Finish \/ \E f \in Own : InferFn(f)
  BY <1>2, <1>4 DEF Finish, InferFn
<1>5. ASSUME DropsTy \/ MakesTopTy, prog' = prog PROVE Done' = Done /\ Todo' = Todo
  <2>1. TyStep /\ \A f : [e |-> "MissingBody", fn |-> f] \in m.errors
                           <=> [e |-> "MissingBody", fn |-> f] \in m'.errors
    BY <1>5 DEF DropsTy, MakesTopTy, OnlyCallErrors, CallErrors
  <2>2. MadeKeys' = MadeKeys /\ m'.seen = m.seen
    BY <2>1 DEF TyStep, MadeKeys
  <2>3. Through' = Through
    BY <2>1, <2>2 DEF Through
  <2>4. Known' = Known
    BY <2>1, KnownStays
  <2> QED
    BY <1>3, <1>5, <2>3, <2>4
<1>6. ASSUME Top \in m.seen, DropsTop({}), prog' = prog PROVE Done' = Done /\ Todo' = Todo
  <2>1. FnStep({}) /\ m'.instances = m.instances /\ m'.errors = m.errors /\ m'.seen = m.seen
    BY <1>6 DEF DropsTop, FnStep
  <2>2. Known' = Known \union {}
    BY <2>1, KnownGrows
  <2>3. Through' = Through
    BY <2>1 DEF Through, MadeKeys
  <2> QED
    BY <1>3, <1>6, <2>2, <2>3
<1>7. ASSUME phase = "mono", Pops, Top \notin m.seen, prog' = prog,
             DropsTop({[e |-> "TooManyInstances"]})
      PROVE  Does(Node(prog, Top)) \/ (Done' = Done /\ Todo' = Todo)
  <2>1. /\ FnStep({}) /\ m'.instances = m.instances /\ m'.seen = m.seen \union {Top}
        /\ m'.errors = m.errors \union {[e |-> "TooManyInstances"]}
    BY <1>7 DEF DropsTop, FnStep
  <2>2. MadeKeys' = MadeKeys
    BY <2>1 DEF MadeKeys
  <2>3. \A f : [e |-> "MissingBody", fn |-> f] \in m.errors
                 <=> [e |-> "MissingBody", fn |-> f] \in m'.errors
    BY <2>1
  <2>4. Top \notin MadeKeys
    BY <1>7 DEF Inv, MadeInv
  <2>5. CASE ~HasMir(Top.fn) /\ [e |-> "MissingBody", fn |-> Top.fn] \in m.errors
    <3>1. Through' = Through \union {Top}
      BY <2>1, <2>2, <2>3, <2>5 DEF Through
    <3> QED
      BY <1>7, <2>1, <2>5, <3>1, NoBodyNoCalls, TopIsDone
  <2>6. CASE ~(~HasMir(Top.fn) /\ [e |-> "MissingBody", fn |-> Top.fn] \in m.errors)
    <3>1. Through' = Through
      BY <2>1, <2>2, <2>3, <2>4, <2>6 DEF Through
    <3>2. Known' = Known \union {}
      BY <2>1, KnownGrows
    <3> QED
      BY <1>3, <1>7, <3>1, <3>2
  <2> QED
    BY <2>5, <2>6
<1>8. ASSUME phase = "mono", Pops, ~IsCut, Top \notin m.seen, prog' = prog, ~HasMir(Top.fn),
             DropsTop({[e |-> "MissingBody", fn |-> Top.fn]})
      PROVE  Does(Node(prog, Top))
  <2>1. /\ FnStep({}) /\ m'.instances = m.instances /\ m'.seen = m.seen \union {Top}
        /\ m'.errors = m.errors \union {[e |-> "MissingBody", fn |-> Top.fn]}
    BY <1>8 DEF DropsTop, FnStep
  <2>2. MadeKeys' = MadeKeys
    BY <2>1 DEF MadeKeys
  <2>3. m.seen \subseteq Through
    BY <1>8 DEF Inv, MadeInv
  <2>4. Through' = Through \union {Top}
    BY <1>8, <2>1, <2>2, <2>3 DEF Through
  <2> QED
    BY <1>8, <2>1, <2>4, NoBodyNoCalls, TopIsDone
<1>9. ASSUME phase = "mono", Pops, ~IsCut, Top \notin m.seen, prog' = prog, HasMir(Top.fn), MakesTop
      PROVE  Does(Node(prog, Top))
  <2>1. /\ FnStep(CalledBy(TopParts, Top.args)) /\ m'.seen = m.seen \union {Top}
        /\ \A f : [e |-> "MissingBody", fn |-> f] \in m.errors
                    <=> [e |-> "MissingBody", fn |-> f] \in m'.errors
    BY <1>9 DEF MakesTop, FnStep, OnlyCallErrors, CallErrors
  <2>2. MadeKeys' = MadeKeys \union {Top}
    BY <1>1, <1>9, OneMoreInstance
  <2>3. Through' = Through \union {Top}
    BY <1>9, <2>1, <2>2 DEF Through
  <2>4. Calls(Node(prog, Top)) = {Node(prog, k) : k \in CalledBy(TopParts, Top.args)}
    BY <1>9, TopCalls
  <2> QED
    BY <1>9, <2>1, <2>3, <2>4, TopIsDone
<1> HIDE DEF Inv
<1>10. \A n : Does(n) => n \in Todo
  BY DEF Does
<1> QED
  BY <1>4, <1>5, <1>6, <1>7, <1>8, <1>9, <1>10, StepDoes

\* The collector implements the worklist: which functions are made, and that
\* each is made once, depends only on which function calls which.
THEOREM CollectorIsWorklist == Spec => IsWorklist
<1>1. /\ Worklist!Init <=> Node(prog, MainKey) \in [prog : Progs, key : {MainKey}]
                           /\ Todo = {Node(prog, MainKey)} /\ Done = {}
      /\ Worklist!Next <=> \E n \in Todo : Worklist!Do(n)
      /\ \A n : Worklist!Do(n) <=> /\ n \in Todo /\ Done' = Done \union {n}
                                   /\ Todo' = (Todo \union Calls(n)) \ Done'
                                   /\ Node(prog, MainKey)' = Node(prog, MainKey)
  BY DEF Worklist!Init, Worklist!Next, Worklist!Do, Done, Todo, Known
<1>2. Init => Worklist!Init
  <2> SUFFICES ASSUME Init PROVE Worklist!Init
    OBVIOUS
  <2>1. m.seen = {} /\ m.fnWork = <<MainKey>> /\ prog \in Progs
    BY NewIsCollector DEF Init
  <2>2. Through = {} /\ Known = {MainKey}
    BY <2>1 DEF Through, Known, ToSet
  <2> QED
    BY <1>1, <2>1, <2>2 DEF Done, Todo, Node
<1>3. Inv /\ [Next]_vars => [Worklist!Next]_(Worklist!vars)
  <2> SUFFICES ASSUME Inv, [Next]_vars PROVE [Worklist!Next]_(Worklist!vars)
    OBVIOUS
  <2>1. ASSUME Done' = Done, Todo' = Todo, prog' = prog PROVE UNCHANGED Worklist!vars
    BY <2>1 DEF Worklist!vars, Done, Todo, Known, Node
  <2>2. CASE UNCHANGED vars
    <3>1. prog' = prog /\ m' = m
      BY <2>2 DEF vars
    <3>2. Through' = Through /\ Known' = Known
      BY <3>1 DEF Through, Known, MadeKeys
    <3> QED
      BY <2>1, <3>1, <3>2 DEF Done, Todo
  <2>3. ASSUME NEW n, Does(n) PROVE Worklist!Next
    <3>1. /\ n \in Todo /\ Done' = Done \union {n} /\ prog' = prog
          /\ Todo' = (Todo \union Calls(n)) \ Done'
      BY <2>3 DEF Does
    <3>2. Node(prog, MainKey)' = Node(prog, MainKey)
      BY <3>1 DEF Node
    <3> HIDE DEF Todo, Done
    <3> QED
      BY <1>1, <3>1, <3>2
  <2>4. CASE Next
    BY <2>1, <2>3, <2>4, StepIsWork
  <2> QED
    BY <2>2, <2>4
<1> QED
  BY <1>2, <1>3, Invariant, PTL DEF Spec, IsWorklist, Worklist!Spec

\* Where the worklist begins, and what its steps do.
Root == Node(prog, MainKey)

LEMMA WorklistSteps ==
  /\ Worklist!Init => Todo = {Root} /\ Done = {}
  /\ [Worklist!Next]_(Worklist!vars) =>
       /\ Root' = Root
       /\ \/ \E n \in Todo : Done' = Done \union {n} /\ Todo' = (Todo \union Calls(n)) \ Done'
          \/ Done' = Done /\ Todo' = Todo
<1>1. Worklist!Init => Todo = {Root} /\ Done = {}
  BY DEF Worklist!Init, Root, Done, Todo, Known
<1>2. ASSUME UNCHANGED Worklist!vars PROVE Root' = Root /\ Done' = Done /\ Todo' = Todo
  BY <1>2 DEF Worklist!vars, Root, Done, Todo, Known
<1>3. ASSUME Worklist!Next
      PROVE  /\ Root' = Root
             /\ \E n \in Todo : Done' = Done \union {n} /\ Todo' = (Todo \union Calls(n)) \ Done'
  <2>1. PICK n \in Todo : Worklist!Do(n)
    BY <1>3 DEF Worklist!Next, Todo, Known
  <2>2. Root' = Root /\ Done' = Done \union {n} /\ Todo' = (Todo \union Calls(n)) \ Done'
    BY <2>1 DEF Worklist!Do, Root, Done, Todo, Known
  <2> QED
    BY <2>2
<1> QED
  BY <1>1, <1>2, <1>3

\* The worklist forgets no function that is called, and does none twice.
THEOREM NothingIsLost == Worklist!Spec => []Worklist!NothingLost
<1>1. Worklist!NothingLost <=>
        /\ Root \in Done \union Todo
        /\ \A n \in Done : Calls(n) \subseteq Done \union Todo
        /\ Done \intersect Todo = {}
  BY DEF Worklist!NothingLost, Root, Done, Todo, Known
<1>2. Worklist!NothingLost' <=>
        /\ Root' \in Done' \union Todo'
        /\ \A n \in Done' : Calls(n) \subseteq Done' \union Todo'
        /\ Done' \intersect Todo' = {}
  BY DEF Worklist!NothingLost, Root, Done, Todo, Known
<1>3. Worklist!Init => Worklist!NothingLost
  BY <1>1, WorklistSteps
<1>4. Worklist!NothingLost /\ [Worklist!Next]_(Worklist!vars) => Worklist!NothingLost'
  <2> SUFFICES ASSUME Worklist!NothingLost, [Worklist!Next]_(Worklist!vars)
               PROVE  Worklist!NothingLost'
    OBVIOUS
  <2>1. Root' = Root
    BY WorklistSteps
  <2>2. CASE Done' = Done /\ Todo' = Todo
    BY <1>1, <1>2, <2>1, <2>2
  <2>3. ASSUME NEW n \in Todo, Done' = Done \union {n}, Todo' = (Todo \union Calls(n)) \ Done'
        PROVE  Worklist!NothingLost'
    <3>1. Done' \union Todo' = Done \union Todo \union Calls(n)
      BY <2>3
    <3>2. \A k \in Done' : Calls(k) \subseteq Done' \union Todo'
      BY <1>1, <2>3, <3>1
    <3> QED
      BY <1>1, <1>2, <2>1, <2>3, <3>1, <3>2
  <2> QED
    BY <2>2, <2>3, WorklistSteps
<1> QED
  BY <1>3, <1>4, PTL DEF Worklist!Spec

\* The worklist finds no function that scene main does not lead to: all of them
\* are in every set that holds scene main and with a function those it calls.
THEOREM NothingIsExtra == Worklist!Spec => []Worklist!NothingExtra
<1>1. Worklist!NothingExtra <=>
        \A S : Root \in S /\ Worklist!IsClosed(S) => Done \union Todo \subseteq S
  BY DEF Worklist!NothingExtra, Root, Done, Todo, Known
<1>2. Worklist!NothingExtra' <=>
        \A S : Root' \in S /\ Worklist!IsClosed(S) => Done' \union Todo' \subseteq S
  BY DEF Worklist!NothingExtra, Root, Done, Todo, Known
<1>3. Worklist!Init => Worklist!NothingExtra
  BY <1>1, WorklistSteps
<1>4. Worklist!NothingExtra /\ [Worklist!Next]_(Worklist!vars) => Worklist!NothingExtra'
  <2> SUFFICES ASSUME Worklist!NothingExtra, [Worklist!Next]_(Worklist!vars),
                      NEW S, Root' \in S, Worklist!IsClosed(S)
               PROVE  Done' \union Todo' \subseteq S
    BY <1>2
  <2>1. Done \union Todo \subseteq S
    BY <1>1, WorklistSteps
  <2>2. CASE Done' = Done /\ Todo' = Todo
    BY <2>1, <2>2
  <2>3. ASSUME NEW n \in Todo, Done' = Done \union {n}, Todo' = (Todo \union Calls(n)) \ Done'
        PROVE  Done' \union Todo' \subseteq S
    <3>1. n \in S /\ Calls(n) \subseteq S
      BY <2>1 DEF Worklist!IsClosed
    <3> QED
      BY <2>1, <2>3, <3>1
  <2> QED
    BY <2>2, <2>3, WorklistSteps
<1> QED
  BY <1>3, <1>4, PTL DEF Worklist!Spec

\* When the stack is empty, what is through is the least set that holds scene
\* main and with a function those it calls: no more and no less.
THEOREM InstancesAreClosure ==
  Spec => [](Worklist!NothingLost /\ Worklist!NothingExtra /\ Worklist!EndsWithLeastClosed)
<1>1. Worklist!NothingLost /\ Worklist!NothingExtra => Worklist!EndsWithLeastClosed
  BY DEF Worklist!NothingLost, Worklist!NothingExtra, Worklist!EndsWithLeastClosed,
         Worklist!IsClosed
<1> QED
  BY <1>1, CollectorIsWorklist, NothingIsLost, NothingIsExtra, PTL DEF IsWorklist

\* The instances of the finished program are those that scene main leads to:
\* no more and no less.
THEOREM ProgramIsWhatMainNeeds ==
  Spec => [](phase = "done" =>
               \A k : k \in MadeKeys <=>
                 \A S : Node(prog, MainKey) \in S /\ Worklist!IsClosed(S) => Node(prog, k) \in S)
<1> DEFINE Needed(k) ==
             \A S : Node(prog, MainKey) \in S /\ Worklist!IsClosed(S) => Node(prog, k) \in S
<1>1. ASSUME Inv, Worklist!EndsWithLeastClosed, phase = "done", NEW k
      PROVE  k \in MadeKeys <=> Needed(k)
  <2>1. m.errors = {} /\ m.fnWork = <<>>
    BY <1>1 DEF Inv, DoneInv
  <2>2. ToSet(m.fnWork) = {}
    BY <2>1 DEF ToSet
  <2>3. Through = MadeKeys /\ m.seen = MadeKeys
    BY <1>1, <2>1 DEF Inv, MadeInv, Through, IsCut
  <2>4. Todo = {} /\ Done = {Node(prog, l) : l \in MadeKeys}
    BY <2>2, <2>3 DEF Todo, Done, Known
  <2>5. Todo = {} => /\ Root \in Done /\ Worklist!IsClosed(Done)
                     /\ \A S : Root \in S /\ Worklist!IsClosed(S) => Done \subseteq S
    BY <1>1 DEF Worklist!EndsWithLeastClosed, Root, Done, Todo, Known
  <2>6. k \in MadeKeys <=> Node(prog, k) \in Done
    BY <2>4 DEF Node
  <2>7. Needed(k) <=> \A S : Root \in S /\ Worklist!IsClosed(S) => Node(prog, k) \in S
    BY DEF Root
  <2> HIDE DEF Needed
  <2> QED
    BY <2>4, <2>5, <2>6, <2>7
<1>2. Inv /\ Worklist!EndsWithLeastClosed => (phase = "done" => \A k : k \in MadeKeys <=> Needed(k))
  BY <1>1
<1> QED
  BY <1>2, Invariant, InstancesAreClosure, PTL
=============================================================================
