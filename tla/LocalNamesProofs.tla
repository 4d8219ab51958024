-------------------------- MODULE LocalNamesProofs --------------------------
(***************************************************************************)
(* Theorems about LocalNames, for every body of every length: names are    *)
(* lexical.  The resolver has a stack of scopes, the property a log and    *)
(* the blocks that are open at a place of it, by counting.  Both are the   *)
(* same at the end of the log, and what is said of a place of the log does *)
(* not change when the log grows.                                          *)
(***************************************************************************)
EXTENDS LocalNames, Induction, FiniteSetTheorems, SequenceTheorems

LogEvent == [e : {"let", "use", "open", "close"}, n : BodyNames \union BlockKind, v : Nat]

\* A function from some of the names to their variables.
Scope == UNION {[S -> Nat] : S \in SUBSET BodyNames}

Ctx == [scopes : Seq(Scope), next : Nat \ {0}, blocks : Seq(BlockKind), errs : BOOLEAN,
        log : Seq(LogEvent)]

\* log2 is log and then the event ev.
Grows(log, ev, log2) ==
  /\ log \in Seq(LogEvent) /\ ev \in LogEvent /\ log2 \in Seq(LogEvent)
  /\ Len(log2) = Len(log) + 1
  /\ \A i \in 1 .. Len(log) : log2[i] = log[i]
  /\ log2[Len(log) + 1] = ev

-----------------------------------------------------------------------------
(* The places of a log. *)

\* A set of numbers that is not empty and has a bound has a greatest one.
LEMMA MaxIn ==
  ASSUME NEW S \in SUBSET Nat, S # {}, NEW N \in Nat, \A x \in S : x <= N
  PROVE  Max(S) \in S /\ \A y \in S : y <= Max(S)
<1> DEFINE Greatest(m, n) == m \in S /\ m <= n /\ \A y \in S : y <= n => y <= m
           T == {n \in 0 .. N : (\E x \in S : x <= n) => \E m \in S : Greatest(m, n)}
<1>1. 0 \in T
  OBVIOUS
<1>2. ASSUME NEW n \in 1 .. N, n - 1 \in T PROVE n \in T
  <2>1. CASE n \in S
    <3>1. Greatest(n, n)
      BY <1>2, <2>1
    <3> QED
      BY <1>2, <2>1, <3>1
  <2>2. CASE n \notin S
    <3>1. \A y \in S : y <= n <=> y <= n - 1
      BY <1>2, <2>2
    <3>2. \A m : Greatest(m, n - 1) => Greatest(m, n)
      BY <3>1
    <3> HIDE DEF Greatest
    <3> QED
      BY <1>2, <3>1, <3>2
  <2> QED
    BY <2>1, <2>2
<1>3. N \in T
  <2> HIDE DEF T
  <2> QED
    BY <1>1, <1>2, IntervalInduction
<1>4. PICK m \in S : Greatest(m, N)
  <2>1. \E x \in S : x <= N
    OBVIOUS
  <2> HIDE DEF Greatest
  <2> QED
    BY <1>3, <2>1
<1>5. m \in S /\ \A y \in S : m >= y
  BY <1>4
<1> QED
  BY <1>5 DEF Max

\* What was counted stays so when the log grows.
LEMMA CountSame ==
  ASSUME NEW log, NEW ev, NEW log2, Grows(log, ev, log2),
         NEW e, NEW j \in Nat \ {0}, NEW i \in Nat, i <= Len(log)
  PROVE  Count(log2, e, j, i) = Count(log, e, j, i)
<1>1. \A k \in j .. i : k \in 1 .. Len(log)
  BY DEF Grows
<1>2. {k \in j .. i : log2[k].e = e} = {k \in j .. i : log[k].e = e}
  BY <1>1 DEF Grows
<1> QED
  BY <1>2 DEF Count

LEMMA CountNat ==
  ASSUME NEW log, NEW e, NEW j \in Nat, NEW i \in Nat
  PROVE  Count(log, e, j, i) \in Nat
<1>1. IsFiniteSet(j .. i)
  BY FS_Interval
<1>2. {k \in j .. i : log[k].e = e} \subseteq j .. i
  OBVIOUS
<1>3. IsFiniteSet({k \in j .. i : log[k].e = e})
  BY <1>1, <1>2, FS_Subset
<1> QED
  BY <1>3, FS_CardinalityType DEF Count

\* The new event counts once, if it is of that kind.
LEMMA CountNext ==
  ASSUME NEW log, NEW ev, NEW log2, Grows(log, ev, log2),
         NEW e, NEW j \in 1 .. Len(log) + 1
  PROVE  Count(log2, e, j, Len(log) + 1) =
           Count(log, e, j, Len(log)) + (IF ev.e = e THEN 1 ELSE 0)
<1> DEFINE L == Len(log)
           old == {k \in j .. L : log2[k].e = e}
           new == {k \in j .. L + 1 : log2[k].e = e}
<1>1. L \in Nat /\ j \in Nat \ {0} /\ L + 1 \in Nat
  BY DEF Grows
<1>2. Count(log2, e, j, L) = Count(log, e, j, L) /\ Count(log, e, j, L) \in Nat
  <2>1. Count(log2, e, j, L) = Count(log, e, j, L)
    BY <1>1, CountSame
  <2>2. Count(log, e, j, L) \in Nat
    BY <1>1, CountNat
  <2> QED
    BY <2>1, <2>2
<1>3. IsFiniteSet(old)
  <2>1. IsFiniteSet(j .. L) /\ old \subseteq j .. L
    BY <1>1, FS_Interval
  <2> HIDE DEF old
  <2> QED
    BY <2>1, FS_Subset
<1>4. Cardinality(old) = Count(log, e, j, L) /\ Cardinality(new) = Count(log2, e, j, L + 1)
  BY <1>2 DEF Count
<1>5. L + 1 \notin old
  BY <1>1
<1>6. CASE ev.e = e
  <2>1. new = old \union {L + 1}
    BY <1>1, <1>6 DEF Grows
  <2>2. Cardinality(new) = Cardinality(old) + 1
    <3> HIDE DEF new, old
    <3> QED
      BY <1>3, <1>5, <2>1, FS_AddElement
  <2> HIDE DEF new, old
  <2> QED
    BY <1>4, <1>6, <2>2
<1>7. CASE ev.e # e
  <2>1. new = old
    BY <1>1, <1>7 DEF Grows
  <2>2. Cardinality(old) = Cardinality(new)
    BY <2>1
  <2> HIDE DEF new, old
  <2> QED
    BY <1>2, <1>4, <1>7, <2>2
<1> QED
  BY <1>6, <1>7

\* Whether a block is open at a place is up to what comes before the place.
LEMMA OpenSame ==
  ASSUME NEW log, NEW ev, NEW log2, Grows(log, ev, log2),
         NEW j \in Nat, NEW i \in 1 .. Len(log) + 1
  PROVE  IsOpen(log2, j, i) <=> IsOpen(log, j, i)
<1>1. Len(log) \in Nat
  BY DEF Grows
<1>2. ASSUME j > 0, NEW k \in j .. i - 1
      PROVE  /\ Count(log2, "open", j, k) = Count(log, "open", j, k)
             /\ Count(log2, "close", j, k) = Count(log, "close", j, k)
  BY <1>1, <1>2, CountSame
<1> QED
  BY <1>2 DEF IsOpen

\* One event later a block is open if it still has more beginnings than ends.
LEMMA OpenNext ==
  ASSUME NEW log, NEW ev, NEW log2, Grows(log, ev, log2), NEW j \in 1 .. Len(log)
  PROVE  IsOpen(log2, j, Len(log2) + 1) <=>
           /\ IsOpen(log, j, Len(log) + 1)
           /\ Count(log2, "open", j, Len(log) + 1) > Count(log2, "close", j, Len(log) + 1)
<1> DEFINE L == Len(log)
           More(k) == Count(log2, "open", j, k) > Count(log2, "close", j, k)
<1>1. L \in Nat /\ Len(log2) + 1 = L + 2
  BY DEF Grows
<1>2. IsOpen(log, j, L + 1) <=> IsOpen(log2, j, L + 1)
  BY <1>1, OpenSame
<1>3. IsOpen(log2, j, L + 1) <=> \A k \in j .. L : More(k)
  BY <1>1 DEF IsOpen
<1>4. IsOpen(log2, j, L + 2) <=> \A k \in j .. L + 1 : More(k)
  BY <1>1 DEF IsOpen
<1> HIDE DEF More
<1>5. (\A k \in j .. L + 1 : More(k)) <=> (\A k \in j .. L : More(k)) /\ More(L + 1)
  BY <1>1
<1> QED
  BY <1>1, <1>2, <1>3, <1>4, <1>5 DEF More

\* A block that begins is open.
LEMMA OpenNew ==
  ASSUME NEW log, NEW ev, NEW log2, Grows(log, ev, log2), ev.e = "open"
  PROVE  /\ IsOpen(log2, Len(log) + 1, Len(log2) + 1)
         /\ Count(log2, "open", Len(log) + 1, Len(log) + 1) = 1
         /\ Count(log2, "close", Len(log) + 1, Len(log) + 1) = 0
<1> DEFINE L == Len(log)
<1>1. L \in Nat /\ Len(log2) + 1 = L + 2
  BY DEF Grows
<1>2. \A e : {k \in L + 1 .. L : log[k].e = e} = {}
  BY <1>1
<1>3. \A e : Count(log, e, L + 1, L) = 0
  BY <1>2, FS_EmptySet DEF Count
<1>4. Count(log2, "open", L + 1, L + 1) = 1 /\ Count(log2, "close", L + 1, L + 1) = 0
  <2>1. L + 1 \in 1 .. L + 1
    BY <1>1
  <2>2. Count(log2, "open", L + 1, L + 1) = 0 + 1
    BY <1>3, <2>1, CountNext
  <2>3. Count(log2, "close", L + 1, L + 1) = 0 + 0
    BY <1>3, <2>1, CountNext
  <2> QED
    BY <2>2, <2>3
<1>5. \A k \in L + 1 .. L + 1 : k = L + 1
  BY <1>1
<1> QED
  BY <1>1, <1>4, <1>5 DEF IsOpen

\* The scopes that are open, and the one that a declaration belongs to.
LEMMA ScopesSame ==
  ASSUME NEW log, NEW ev, NEW log2, Grows(log, ev, log2), NEW i \in 1 .. Len(log) + 1
  PROVE  ScopesOpenAt(log2, i) = ScopesOpenAt(log, i) /\ ScopeAt(log2, i) = ScopeAt(log, i)
<1>1. ASSUME NEW j \in 1 .. i - 1
      PROVE  log2[j] = log[j] /\ (IsOpen(log2, j, i) <=> IsOpen(log, j, i))
  <2>1. j \in Nat /\ j \in 1 .. Len(log)
    BY DEF Grows
  <2> QED
    BY <2>1, OpenSame DEF Grows
<1>2. ScopesOpenAt(log2, i) = ScopesOpenAt(log, i)
  BY <1>1 DEF ScopesOpenAt
<1> QED
  BY <1>2 DEF ScopeAt

\* It begins before the place.
LEMMA ScopeIsOpen ==
  ASSUME NEW log, NEW i \in Nat \ {0}
  PROVE  /\ ScopesOpenAt(log, i) \subseteq 0 .. i - 1
         /\ ScopeAt(log, i) \in ScopesOpenAt(log, i)
         /\ \A j \in ScopesOpenAt(log, i) : j <= ScopeAt(log, i)
<1> DEFINE S == ScopesOpenAt(log, i)
<1>1. S \subseteq 0 .. i - 1 /\ 0 \in S
  BY DEF ScopesOpenAt
<1>2. S \in SUBSET Nat /\ S # {} /\ i - 1 \in Nat /\ \A x \in S : x <= i - 1
  BY <1>1
<1>3. Max(S) \in S /\ \A j \in S : j <= Max(S)
  <2> HIDE DEF S
  <2> QED
    BY <1>2, MaxIn
<1> QED
  BY <1>1, <1>3 DEF ScopeAt

\* A scope that is open at a place was open at every place since it began.
LEMMA OpenSince ==
  ASSUME NEW log, NEW i \in Nat, NEW k \in Nat, NEW j \in ScopesOpenAt(log, i), j < k, k <= i
  PROVE  j \in ScopesOpenAt(log, k)
<1>1. CASE j = 0
  BY <1>1 DEF ScopesOpenAt
<1>2. CASE j # 0
  <2>1. /\ j \in 1 .. i - 1
        /\ log[j].e = "open" /\ HasScope(log[j].n) /\ IsOpen(log, j, i)
    BY <1>2 DEF ScopesOpenAt
  <2>2. IsOpen(log, j, k)
    BY <2>1 DEF IsOpen
  <2>3. j \in 1 .. k - 1
    BY <2>1
  <2> QED
    BY <2>1, <2>2, <2>3 DEF ScopesOpenAt
<1> QED
  BY <1>1, <1>2

\* The declarations that can be seen from a place.
LEMMA SeenSame ==
  ASSUME NEW log, NEW ev, NEW log2, Grows(log, ev, log2), NEW n, NEW i \in 1 .. Len(log) + 1
  PROVE  Seen(log2, n, i) = Seen(log, n, i) /\ Latest(log2, n, i) = Latest(log, n, i)
<1> DEFINE L == Len(log)
<1>1. L \in Nat /\ DOMAIN log = 1 .. L /\ DOMAIN log2 = 1 .. L + 1
  BY DEF Grows
<1>2. ASSUME NEW d, d < i, d \in 1 .. L + 1
      PROVE  /\ d \in 1 .. L /\ log2[d] = log[d]
             /\ ScopeAt(log2, d) = ScopeAt(log, d)
             /\ IsOpen(log2, ScopeAt(log2, d), i) <=> IsOpen(log, ScopeAt(log, d), i)
  <2>1. d \in 1 .. L /\ log2[d] = log[d]
    BY <1>1, <1>2 DEF Grows
  <2>2. ScopeAt(log2, d) = ScopeAt(log, d)
    BY <1>1, <2>1, ScopesSame
  <2>3. ScopeAt(log, d) \in Nat
    BY <1>1, <2>1, ScopeIsOpen
  <2>4. IsOpen(log2, ScopeAt(log, d), i) <=> IsOpen(log, ScopeAt(log, d), i)
    BY <2>3, OpenSame
  <2> QED
    BY <2>1, <2>2, <2>4
<1>3. Seen(log2, n, i) = Seen(log, n, i)
  BY <1>1, <1>2 DEF Seen, Lets
<1>4. CASE Seen(log, n, i) = {}
  BY <1>3, <1>4 DEF Latest
<1>5. CASE Seen(log, n, i) # {}
  <2>1. Seen(log, n, i) \in SUBSET Nat /\ \A d \in Seen(log, n, i) : d \in 1 .. L /\ d <= L
    BY <1>1 DEF Seen, Lets
  <2>2. Max(Seen(log, n, i)) \in 1 .. L
    BY <1>1, <1>5, <2>1, MaxIn
  <2>3. log2[Max(Seen(log, n, i))] = log[Max(Seen(log, n, i))]
    BY <2>2 DEF Grows
  <2> QED
    BY <1>3, <2>3 DEF Latest
<1> QED
  BY <1>3, <1>4, <1>5

-----------------------------------------------------------------------------
(* The stacks of the resolver, and the log. *)

\* The blocks on the stack are those that are open at the end of the log: b
\* are the places at which they begin, and each has as many beginnings that
\* wait for their end as there are blocks from it on.
BlocksMatch(log, blocks, b) ==
  /\ b \in Seq(Nat) /\ Len(b) = Len(blocks)
  /\ \A k \in 1 .. Len(b) :
       /\ b[k] \in 1 .. Len(log)
       /\ log[b[k]].e = "open" /\ log[b[k]].n = blocks[k]
       /\ IsOpen(log, b[k], Len(log) + 1)
       /\ Count(log, "open", b[k], Len(log)) =
            Count(log, "close", b[k], Len(log)) + (Len(b) - k + 1)
  /\ \A k, l \in 1 .. Len(b) : k < l => b[k] < b[l]
  /\ \A j \in 1 .. Len(log) :
       log[j].e = "open" /\ IsOpen(log, j, Len(log) + 1) => \E k \in 1 .. Len(b) : b[k] = j

\* The scopes, m of them, are those of the function and of these blocks.
ScopesMatch(log, m, s) ==
  /\ s \in Seq(Nat) /\ Len(s) = m
  /\ \A k \in 1 .. m : s[k] \in ScopesOpenAt(log, Len(log) + 1)
  /\ \A k, l \in 1 .. m : k < l => s[k] < s[l]
  /\ \A j \in ScopesOpenAt(log, Len(log) + 1) : \E k \in 1 .. m : s[k] = j

\* A scope has the variables that were declared in it.
VarsMatch(log, scopes, s) ==
  \A k \in 1 .. Len(s) :
    /\ \A n \in DOMAIN scopes[k] : \E d \in Lets(log) : log[d].n = n /\ ScopeAt(log, d) = s[k]
    /\ \A d \in Lets(log) : ScopeAt(log, d) = s[k] =>
         log[d].n \in DOMAIN scopes[k] /\ scopes[k][log[d].n] = log[d].v

StacksMatch(c) ==
  \E b, s \in Seq(Nat) :
    /\ BlocksMatch(c.log, c.blocks, b)
    /\ ScopesMatch(c.log, Len(c.scopes), s)
    /\ VarsMatch(c.log, c.scopes, s)

Lexical(log) == UsesAreLatest(log) /\ RefusedIfTwice(log) /\ NumbersAreOnce(log)

NumbersInv(c) == \A d \in Lets(c.log) : c.log[d].v < c.next

CtxInv(c) == c \in Ctx /\ StacksMatch(c) /\ NumbersInv(c) /\ Lexical(c.log)

\* What the resolver finds is the latest declaration that can be seen.
LEMMA LookupIsLatest ==
  ASSUME NEW c, CtxInv(c), NEW n
  PROVE  Lookup(c, n) = Latest(c.log, n, Len(c.log) + 1)
<1> DEFINE log == c.log
           L == Len(log)
           S == Seen(log, n, L + 1)
           V == Visible(c, n)
           m == Len(c.scopes)
<1>1. /\ log \in Seq(LogEvent) /\ L \in Nat /\ DOMAIN log = 1 .. L
      /\ m \in Nat /\ DOMAIN c.scopes = 1 .. m
  BY DEF CtxInv, Ctx
<1>2. PICK s \in Seq(Nat) : ScopesMatch(log, m, s) /\ VarsMatch(log, c.scopes, s)
  BY DEF CtxInv, StacksMatch
<1>3. ASSUME NEW d \in Lets(log)
      PROVE  /\ d \in 1 .. L /\ ScopeAt(log, d) \in 0 .. d - 1
             /\ ScopeAt(log, d) \in ScopesOpenAt(log, d)
             /\ \A j \in ScopesOpenAt(log, d) : j <= ScopeAt(log, d)
  BY <1>1, ScopeIsOpen DEF Lets
<1>4. ASSUME NEW d \in Lets(log)
      PROVE  IsOpen(log, ScopeAt(log, d), L + 1)
               <=> ScopeAt(log, d) \in ScopesOpenAt(log, L + 1)
  BY <1>1, <1>3 DEF ScopesOpenAt, IsOpen
<1>5. ASSUME NEW d \in S
      PROVE  /\ d \in Lets(log) /\ log[d].n = n
             /\ \E k \in V : s[k] = ScopeAt(log, d) /\ c.scopes[k][n] = log[d].v
  <2>1. d \in Lets(log) /\ log[d].n = n /\ ScopeAt(log, d) \in ScopesOpenAt(log, L + 1)
    BY <1>4 DEF Seen
  <2>2. PICK k \in 1 .. m : s[k] = ScopeAt(log, d)
    BY <1>2, <2>1 DEF ScopesMatch
  <2>3. n \in DOMAIN c.scopes[k] /\ c.scopes[k][n] = log[d].v
    BY <1>2, <2>1, <2>2 DEF ScopesMatch, VarsMatch
  <2> QED
    BY <1>1, <2>1, <2>2, <2>3 DEF Visible
<1>6. ASSUME NEW k \in V
      PROVE  k \in 1 .. m /\ \E d \in S : ScopeAt(log, d) = s[k]
  <2>1. k \in 1 .. m /\ n \in DOMAIN c.scopes[k]
    BY <1>1 DEF Visible
  <2>2. PICK d \in Lets(log) : log[d].n = n /\ ScopeAt(log, d) = s[k]
    BY <1>2, <2>1 DEF ScopesMatch, VarsMatch
  <2>3. IsOpen(log, ScopeAt(log, d), L + 1) /\ d < L + 1
    BY <1>1, <1>2, <1>3, <1>4, <2>1, <2>2 DEF ScopesMatch
  <2> QED
    BY <2>1, <2>2, <2>3 DEF Seen
<1>7. CASE S = {}
  BY <1>6, <1>7 DEF Lookup, VariableOf, Latest
<1>8. CASE S # {}
  <2> DEFINE D == Max(S)
             K == Max(V)
  <2>1. D \in S /\ \A d \in S : d <= D
    <3>1. S \in SUBSET Nat /\ \A d \in S : d <= L
      BY <1>1, <1>3, <1>5
    <3> HIDE DEF S
    <3> QED
      BY <1>1, <1>8, <3>1, MaxIn
  <2>2. K \in V /\ \A k \in V : k <= K
    <3>1. V \in SUBSET Nat /\ V # {} /\ \A k \in V : k <= m
      BY <1>1, <1>5, <1>6, <1>8
    <3> HIDE DEF V
    <3> QED
      BY <1>1, <3>1, MaxIn
  <2> HIDE DEF D, K, S, V
  <2>3. PICK k \in V : s[k] = ScopeAt(log, D) /\ c.scopes[k][n] = log[D].v
    BY <1>5, <2>1
  <2>4. PICK d \in S : ScopeAt(log, d) = s[K]
    BY <1>6, <2>2
  <2>5. K = k
    <3> SUFFICES ASSUME k < K PROVE FALSE
      BY <1>6, <2>2
    <3>1. k \in 1 .. m /\ K \in 1 .. m /\ s[k] < s[K] /\ s[K] \in ScopesOpenAt(log, L + 1)
      BY <1>2, <1>6, <2>2 DEF ScopesMatch
    <3>2. s[K] < d /\ d <= D /\ D \in 1 .. L /\ s[K] \in Nat /\ d \in Nat
      BY <1>3, <1>5, <2>1, <2>4
    <3>3. s[K] \in ScopesOpenAt(log, D)
      BY <1>1, <3>1, <3>2, OpenSince
    <3>4. s[K] <= s[k]
      BY <1>3, <1>5, <2>1, <2>3, <3>3
    <3>5. s[k] \in Nat
      BY <1>3, <1>5, <2>1, <2>3
    <3> QED
      BY <3>1, <3>2, <3>4, <3>5
  <2>6. V # {}
    BY <2>2
  <2> QED
    BY <1>8, <2>3, <2>5, <2>6 DEF Lookup, VariableOf, Latest, D, K, S, V
<1> QED
  BY <1>7, <1>8

\* The innermost scope is the one a declaration belongs to.
LEMMA LastIsInnermost ==
  ASSUME NEW log, log \in Seq(LogEvent), NEW m \in Nat, NEW s, ScopesMatch(log, m, s)
  PROVE  m > 0 /\ s[m] = ScopeAt(log, Len(log) + 1)
<1> DEFINE O == ScopesOpenAt(log, Len(log) + 1)
           at == ScopeAt(log, Len(log) + 1)
<1>1. at \in O /\ at \in Nat /\ \A j \in O : j <= at
  BY ScopeIsOpen
<1>2. PICK k \in 1 .. m : s[k] = at
  BY <1>1 DEF ScopesMatch
<1>3. s[m] \in O /\ s[m] \in Nat /\ (k < m => s[k] < s[m])
  BY <1>2 DEF ScopesMatch
<1> HIDE DEF at, O
<1> QED
  BY <1>1, <1>2, <1>3 DEF at

\* A declaration is refused if its own scope has one of that name.
LEMMA RefusedByOwnScope ==
  ASSUME NEW c, CtxInv(c), NEW n
  PROVE  n \in DOMAIN Last(c.scopes) <=>
           \E d \in Seen(c.log, n, Len(c.log) + 1) :
             ScopeAt(c.log, d) = ScopeAt(c.log, Len(c.log) + 1)
<1> DEFINE log == c.log
           L == Len(log)
           m == Len(c.scopes)
           at == ScopeAt(log, L + 1)
<1>1. log \in Seq(LogEvent) /\ L \in Nat /\ DOMAIN log = 1 .. L /\ m \in Nat
  BY DEF CtxInv, Ctx
<1>2. PICK s \in Seq(Nat) : ScopesMatch(log, m, s) /\ VarsMatch(log, c.scopes, s)
  BY DEF CtxInv, StacksMatch
<1>3. m \in 1 .. Len(s) /\ s[m] = at /\ Last(c.scopes) = c.scopes[m]
  <2>1. m > 0 /\ s[m] = at
    BY <1>1, <1>2, LastIsInnermost
  <2>2. Len(s) = m
    BY <1>2 DEF ScopesMatch
  <2> QED
    BY <1>1, <2>1, <2>2 DEF Last
<1>4. at \in ScopesOpenAt(log, L + 1)
  BY <1>1, ScopeIsOpen
<1>5. IsOpen(log, at, L + 1)
  BY <1>4 DEF ScopesOpenAt, IsOpen
<1>6. ASSUME n \in DOMAIN c.scopes[m]
      PROVE  \E d \in Seen(log, n, L + 1) : ScopeAt(log, d) = at
  <2>1. PICK d \in Lets(log) : log[d].n = n /\ ScopeAt(log, d) = at
    BY <1>2, <1>3, <1>6 DEF VarsMatch
  <2>2. d < L + 1
    BY <1>1 DEF Lets
  <2> QED
    BY <1>5, <2>1, <2>2 DEF Seen
<1>7. ASSUME NEW d \in Seen(log, n, L + 1), ScopeAt(log, d) = at
      PROVE  n \in DOMAIN c.scopes[m]
  BY <1>2, <1>3, <1>7 DEF Seen, VarsMatch
<1> QED
  BY <1>3, <1>6, <1>7

-----------------------------------------------------------------------------
(* What an event does to the stacks. *)

\* An event that begins or ends no block changes none that is open.
LEMMA OpenAfterPlain ==
  ASSUME NEW log, NEW ev, NEW log2, Grows(log, ev, log2), ev.e \in {"let", "use"},
         NEW j \in 1 .. Len(log)
  PROVE  /\ IsOpen(log2, j, Len(log2) + 1) <=> IsOpen(log, j, Len(log) + 1)
         /\ Count(log2, "open", j, Len(log2)) = Count(log, "open", j, Len(log))
         /\ Count(log2, "close", j, Len(log2)) = Count(log, "close", j, Len(log))
<1> DEFINE L == Len(log)
<1>1. L \in Nat /\ Len(log2) = L + 1 /\ j \in 1 .. L + 1 /\ j \in Nat /\ j <= L /\ j > 0
  BY DEF Grows
<1>2. Count(log, "open", j, L) \in Nat /\ Count(log, "close", j, L) \in Nat
  BY <1>1, CountNat
<1>3. Count(log2, "open", j, L + 1) = Count(log, "open", j, L)
  BY <1>1, <1>2, CountNext
<1>4. Count(log2, "close", j, L + 1) = Count(log, "close", j, L)
  BY <1>1, <1>2, CountNext
<1>5. IsOpen(log, j, L + 1) => Count(log, "open", j, L) > Count(log, "close", j, L)
  <2>1. L \in j .. (L + 1) - 1
    BY <1>1
  <2> QED
    BY <1>1, <2>1 DEF IsOpen
<1> QED
  BY <1>1, <1>3, <1>4, <1>5, OpenNext

\* The beginning of a block counts for all that are open.
LEMMA OpenAfterOpen ==
  ASSUME NEW log, NEW ev, NEW log2, Grows(log, ev, log2), ev.e = "open",
         NEW j \in 1 .. Len(log)
  PROVE  /\ IsOpen(log2, j, Len(log2) + 1) <=> IsOpen(log, j, Len(log) + 1)
         /\ Count(log2, "open", j, Len(log2)) = Count(log, "open", j, Len(log)) + 1
         /\ Count(log2, "close", j, Len(log2)) = Count(log, "close", j, Len(log))
<1> DEFINE L == Len(log)
<1>1. L \in Nat /\ Len(log2) = L + 1 /\ j \in 1 .. L + 1 /\ j \in Nat /\ j <= L /\ j > 0
  BY DEF Grows
<1>2. Count(log, "open", j, L) \in Nat /\ Count(log, "close", j, L) \in Nat
  BY <1>1, CountNat
<1>3. Count(log2, "open", j, L + 1) = Count(log, "open", j, L) + 1
  BY <1>1, <1>2, CountNext
<1>4. Count(log2, "close", j, L + 1) = Count(log, "close", j, L)
  BY <1>1, <1>2, CountNext
<1>5. IsOpen(log, j, L + 1) => Count(log, "open", j, L) > Count(log, "close", j, L)
  <2>1. L \in j .. (L + 1) - 1
    BY <1>1
  <2> QED
    BY <1>1, <2>1 DEF IsOpen
<1> QED
  BY <1>1, <1>2, <1>3, <1>4, <1>5, OpenNext

\* The end of one, too; it closes a block that waits for one end.
LEMMA OpenAfterClose ==
  ASSUME NEW log, NEW ev, NEW log2, Grows(log, ev, log2), ev.e = "close",
         NEW j \in 1 .. Len(log)
  PROVE  /\ IsOpen(log2, j, Len(log2) + 1) <=>
               /\ IsOpen(log, j, Len(log) + 1)
               /\ Count(log, "open", j, Len(log)) > Count(log, "close", j, Len(log)) + 1
         /\ Count(log2, "open", j, Len(log2)) = Count(log, "open", j, Len(log))
         /\ Count(log2, "close", j, Len(log2)) = Count(log, "close", j, Len(log)) + 1
<1> DEFINE L == Len(log)
<1>1. L \in Nat /\ Len(log2) = L + 1 /\ j \in 1 .. L + 1
  BY DEF Grows
<1>2. Count(log, "open", j, L) \in Nat /\ Count(log, "close", j, L) \in Nat
  BY <1>1, CountNat
<1>3. Count(log2, "open", j, L + 1) = Count(log, "open", j, L)
  BY <1>1, <1>2, CountNext
<1>4. Count(log2, "close", j, L + 1) = Count(log, "close", j, L) + 1
  BY <1>1, <1>2, CountNext
<1> QED
  BY <1>1, <1>2, <1>3, <1>4, OpenNext

\* A declaration or a use leaves both stacks alone.
LEMMA PlainStacks ==
  ASSUME NEW log, NEW ev, NEW log2, Grows(log, ev, log2), ev.e \in {"let", "use"},
         NEW blocks, NEW b, BlocksMatch(log, blocks, b), NEW m, NEW s, ScopesMatch(log, m, s)
  PROVE  /\ BlocksMatch(log2, blocks, b)
         /\ ScopesMatch(log2, m, s)
         /\ ScopesOpenAt(log2, Len(log2) + 1) = ScopesOpenAt(log, Len(log) + 1)
<1> DEFINE L == Len(log)
<1>1. L \in Nat /\ Len(log2) = L + 1 /\ log2[L + 1] = ev /\ \A j \in 1 .. L : log2[j] = log[j]
  BY DEF Grows
<1>2. \A j \in 1 .. L :
        /\ IsOpen(log2, j, L + 2) <=> IsOpen(log, j, L + 1)
        /\ Count(log2, "open", j, L + 1) = Count(log, "open", j, L)
        /\ Count(log2, "close", j, L + 1) = Count(log, "close", j, L)
  BY <1>1, OpenAfterPlain
<1>3. ScopesOpenAt(log2, L + 2) = ScopesOpenAt(log, L + 1)
  <2>1. \A j \in 1 .. L + 1 : j \in 1 .. L \/ j = L + 1
    BY <1>1
  <2> QED
    BY <1>1, <1>2, <2>1 DEF ScopesOpenAt
<1>4. ScopesMatch(log2, m, s)
  BY <1>1, <1>3 DEF ScopesMatch
<1>5. BlocksMatch(log2, blocks, b)
  <2>1. ASSUME NEW k \in 1 .. Len(b)
        PROVE  /\ b[k] \in 1 .. L + 1
               /\ log2[b[k]].e = "open" /\ log2[b[k]].n = blocks[k]
               /\ IsOpen(log2, b[k], L + 2)
               /\ Count(log2, "open", b[k], L + 1) =
                    Count(log2, "close", b[k], L + 1) + (Len(b) - k + 1)
    <3> DEFINE p == b[k]
    <3>1. /\ p \in 1 .. L /\ log[p].e = "open" /\ log[p].n = blocks[k]
          /\ IsOpen(log, p, L + 1)
          /\ Count(log, "open", p, L) = Count(log, "close", p, L) + (Len(b) - k + 1)
      BY DEF BlocksMatch
    <3> HIDE DEF p
    <3>2. p \in 1 .. L + 1 /\ log2[p] = log[p]
      BY <1>1, <3>1
    <3>3. /\ IsOpen(log2, p, L + 2)
          /\ Count(log2, "open", p, L + 1) = Count(log, "open", p, L)
          /\ Count(log2, "close", p, L + 1) = Count(log, "close", p, L)
      BY <1>2, <3>1
    <3> QED
      BY <3>1, <3>2, <3>3 DEF p
  <2>2. ASSUME NEW j \in 1 .. L + 1, log2[j].e = "open", IsOpen(log2, j, L + 2)
        PROVE  \E k \in 1 .. Len(b) : b[k] = j
    <3>1. j \in 1 .. L
      BY <1>1, <2>2
    <3> QED
      BY <1>1, <1>2, <2>2, <3>1 DEF BlocksMatch
  <2>3. /\ b \in Seq(Nat) /\ Len(b) = Len(blocks)
        /\ \A k, l \in 1 .. Len(b) : k < l => b[k] < b[l]
    BY DEF BlocksMatch
  <2>4. Len(log2) = L + 1 /\ Len(log2) + 1 = L + 2
    BY <1>1
  <2> QED
    BY <2>1, <2>2, <2>3, <2>4 DEF BlocksMatch
<1> QED
  BY <1>1, <1>3, <1>4, <1>5

\* A block that begins is the last one, and so is its scope.
LEMMA OpenStacks ==
  ASSUME NEW log, NEW ev, NEW log2, Grows(log, ev, log2), ev.e = "open",
         NEW blocks \in Seq(BlockKind), ev.n \in BlockKind,
         NEW b, BlocksMatch(log, blocks, b), NEW m \in Nat, NEW s, ScopesMatch(log, m, s)
  PROVE  /\ BlocksMatch(log2, Append(blocks, ev.n), Append(b, Len(log2)))
         /\ IF HasScope(ev.n) THEN ScopesMatch(log2, m + 1, Append(s, Len(log2)))
                              ELSE ScopesMatch(log2, m, s)
<1> DEFINE L == Len(log)
           B == Len(b)
           b2 == Append(b, L + 1)
           s2 == Append(s, L + 1)
           blocks2 == Append(blocks, ev.n)
<1>1. L \in Nat /\ Len(log2) = L + 1 /\ log2[L + 1] = ev /\ \A j \in 1 .. L : log2[j] = log[j]
  BY DEF Grows
<1>2. \A j \in 1 .. L :
        /\ IsOpen(log2, j, L + 2) <=> IsOpen(log, j, L + 1)
        /\ Count(log2, "open", j, L + 1) = Count(log, "open", j, L) + 1
        /\ Count(log2, "close", j, L + 1) = Count(log, "close", j, L)
  BY <1>1, OpenAfterOpen
<1>3. /\ IsOpen(log2, L + 1, L + 2)
      /\ Count(log2, "open", L + 1, L + 1) = 1 /\ Count(log2, "close", L + 1, L + 1) = 0
  BY <1>1, OpenNew
<1>4. \A j \in 1 .. L + 1 : j \in 1 .. L \/ j = L + 1
  BY <1>1
<1>5. ScopesOpenAt(log2, L + 2) =
        ScopesOpenAt(log, L + 1) \union (IF HasScope(ev.n) THEN {L + 1} ELSE {})
  BY <1>1, <1>2, <1>3, <1>4 DEF ScopesOpenAt
<1>6. BlocksMatch(log2, blocks2, b2)
  <2>1. /\ b \in Seq(Nat) /\ B = Len(blocks) /\ B \in Nat
        /\ \A k, l \in 1 .. B : k < l => b[k] < b[l]
        /\ \A k \in 1 .. B : b[k] \in 1 .. L
    BY DEF BlocksMatch
  <2>2. /\ b2 \in Seq(Nat) /\ Len(b2) = B + 1
        /\ \A k \in 1 .. B : b2[k] = b[k]
        /\ b2[B + 1] = L + 1
    BY <1>1, <2>1
  <2>3. /\ Len(blocks2) = B + 1
        /\ \A k \in 1 .. B : blocks2[k] = blocks[k]
        /\ blocks2[B + 1] = ev.n
    BY <2>1
  <2>4. \A k \in 1 .. B + 1 : k \in 1 .. B \/ k = B + 1
    BY <2>1
  <2> HIDE DEF b2, blocks2
  <2>5. ASSUME NEW k \in 1 .. B
        PROVE  /\ b2[k] \in 1 .. L + 1
               /\ log2[b2[k]].e = "open" /\ log2[b2[k]].n = blocks2[k]
               /\ IsOpen(log2, b2[k], L + 2)
               /\ Count(log2, "open", b2[k], L + 1) =
                    Count(log2, "close", b2[k], L + 1) + ((B + 1) - k + 1)
    <3> DEFINE p == b[k]
    <3>1. /\ p \in 1 .. L /\ log[p].e = "open" /\ log[p].n = blocks[k]
          /\ IsOpen(log, p, L + 1)
          /\ Count(log, "open", p, L) = Count(log, "close", p, L) + (B - k + 1)
      BY DEF BlocksMatch
    <3>2. b2[k] = p /\ blocks2[k] = blocks[k]
      BY <2>2, <2>3
    <3> HIDE DEF p
    <3>3. Count(log, "close", p, L) \in Nat
      BY <1>1, <3>1, CountNat
    <3>4. p \in 1 .. L + 1 /\ log2[p] = log[p]
      BY <1>1, <3>1
    <3>5. /\ IsOpen(log2, p, L + 2)
          /\ Count(log2, "open", p, L + 1) = Count(log, "open", p, L) + 1
          /\ Count(log2, "close", p, L + 1) = Count(log, "close", p, L)
      BY <1>2, <3>1
    <3>6. Count(log2, "open", p, L + 1) = Count(log2, "close", p, L + 1) + ((B + 1) - k + 1)
      BY <2>1, <3>1, <3>3, <3>5
    <3> QED
      BY <3>1, <3>2, <3>4, <3>5, <3>6
  <2>6. /\ b2[B + 1] \in 1 .. L + 1
        /\ log2[b2[B + 1]].e = "open" /\ log2[b2[B + 1]].n = blocks2[B + 1]
        /\ IsOpen(log2, b2[B + 1], L + 2)
        /\ Count(log2, "open", b2[B + 1], L + 1) =
             Count(log2, "close", b2[B + 1], L + 1) + ((B + 1) - (B + 1) + 1)
    BY <1>1, <1>3, <2>1, <2>2, <2>3
  <2>7. ASSUME NEW k \in 1 .. B + 1, NEW l \in 1 .. B + 1, k < l PROVE b2[k] < b2[l]
    <3>1. k \in 1 .. B /\ b2[k] = b[k] /\ b[k] \in 1 .. L
      BY <2>1, <2>2, <2>4, <2>7
    <3>2. CASE l = B + 1
      BY <1>1, <2>2, <3>1, <3>2
    <3>3. CASE l \in 1 .. B
      BY <2>1, <2>2, <2>7, <3>1, <3>3
    <3> QED
      BY <2>4, <3>2, <3>3
  <2>8. ASSUME NEW j \in 1 .. L + 1, log2[j].e = "open", IsOpen(log2, j, L + 2)
        PROVE  \E k \in 1 .. B + 1 : b2[k] = j
    <3>1. CASE j = L + 1
      BY <2>1, <2>2, <3>1
    <3>2. CASE j \in 1 .. L
      <4>1. PICK k \in 1 .. B : b[k] = j
        BY <1>1, <1>2, <2>8, <3>2 DEF BlocksMatch
      <4> QED
        BY <2>1, <2>2, <4>1
    <3> QED
      BY <1>4, <3>1, <3>2
  <2>9. Len(log2) = L + 1 /\ Len(log2) + 1 = L + 2
    BY <1>1
  <2>10. \A k \in 1 .. B + 1 :
           /\ b2[k] \in 1 .. L + 1
           /\ log2[b2[k]].e = "open" /\ log2[b2[k]].n = blocks2[k]
           /\ IsOpen(log2, b2[k], L + 2)
           /\ Count(log2, "open", b2[k], L + 1) =
                Count(log2, "close", b2[k], L + 1) + ((B + 1) - k + 1)
    BY <2>4, <2>5, <2>6
  <2> QED
    BY <2>2, <2>3, <2>7, <2>8, <2>9, <2>10 DEF BlocksMatch
<1>7. ASSUME HasScope(ev.n) PROVE ScopesMatch(log2, m + 1, s2)
  <2>1. /\ s \in Seq(Nat) /\ Len(s) = m
        /\ \A k, l \in 1 .. m : k < l => s[k] < s[l]
        /\ \A k \in 1 .. m : s[k] \in ScopesOpenAt(log, L + 1) /\ s[k] \in Nat
    BY DEF ScopesMatch
  <2>2. /\ s2 \in Seq(Nat) /\ Len(s2) = m + 1
        /\ \A k \in 1 .. m : s2[k] = s[k]
        /\ s2[m + 1] = L + 1
    BY <1>1, <2>1
  <2>3. \A k \in 1 .. m + 1 : k \in 1 .. m \/ k = m + 1
    OBVIOUS
  <2> HIDE DEF s2
  <2>4. ScopesOpenAt(log2, L + 2) = ScopesOpenAt(log, L + 1) \union {L + 1}
    BY <1>5, <1>7
  <2>5. \A k \in 1 .. m + 1 : s2[k] \in ScopesOpenAt(log2, L + 2)
    BY <2>1, <2>2, <2>3, <2>4
  <2>6. \A k, l \in 1 .. m + 1 : k < l => s2[k] < s2[l]
    <3>1. \A k \in 1 .. m : s[k] < L + 1
      <4>1. \A j \in ScopesOpenAt(log, L + 1) : j < L + 1
        BY <1>1 DEF ScopesOpenAt
      <4> QED
        BY <2>1, <4>1
    <3> QED
      BY <1>1, <2>1, <2>2, <2>3, <3>1
  <2>7. ASSUME NEW j \in ScopesOpenAt(log2, L + 2) PROVE \E k \in 1 .. m + 1 : s2[k] = j
    <3>1. CASE j = L + 1
      BY <2>2, <3>1
    <3>2. CASE j \in ScopesOpenAt(log, L + 1)
      <4>1. PICK k \in 1 .. m : s[k] = j
        BY <3>2 DEF ScopesMatch
      <4> QED
        BY <2>2, <4>1
    <3> QED
      BY <2>4, <3>1, <3>2
  <2>8. Len(log2) + 1 = L + 2
    BY <1>1
  <2> QED
    BY <2>2, <2>5, <2>6, <2>7, <2>8 DEF ScopesMatch
<1>8. ASSUME ~HasScope(ev.n) PROVE ScopesMatch(log2, m, s)
  BY <1>1, <1>5, <1>8 DEF ScopesMatch
<1> QED
  BY <1>1, <1>6, <1>7, <1>8

\* The sequence without its last element.
LEMMA FrontIs ==
  ASSUME NEW T, NEW q \in Seq(T), Len(q) > 0
  PROVE  /\ Front(q) \in Seq(T) /\ Len(Front(q)) = Len(q) - 1
         /\ \A k \in 1 .. Len(q) - 1 : Front(q)[k] = q[k]
<1> DEFINE n == Len(q) - 1
<1>1. n \in Int /\ 1 \in Int /\ n - 1 + 1 = n /\ (IF 1 <= n THEN n - 1 + 1 ELSE 0) = n
  <2>1. n \in Nat
    OBVIOUS
  <2> HIDE DEF n
  <2> QED
    BY <2>1
<1>2. \A i \in 1 .. n : q[i] \in T /\ 1 + i - 1 = i
  OBVIOUS
<1> HIDE DEF n
<1>3. /\ SubSeq(q, 1, n) \in Seq(T) /\ Len(SubSeq(q, 1, n)) = n
      /\ \A i \in 1 .. n : SubSeq(q, 1, n)[i] = q[1 + i - 1]
  BY <1>1, <1>2, SubSeqProperties
<1> QED
  BY <1>2, <1>3 DEF Front, n

\* A block that ends is the last one, and so is its scope.
LEMMA CloseStacks ==
  ASSUME NEW log, NEW ev, NEW log2, Grows(log, ev, log2), ev.e = "close",
         NEW blocks \in Seq(BlockKind), Len(blocks) > 0,
         NEW b, BlocksMatch(log, blocks, b), NEW m \in Nat, NEW s, ScopesMatch(log, m, s)
  PROVE  /\ BlocksMatch(log2, Front(blocks), Front(b))
         /\ IF HasScope(Last(blocks)) THEN m > 0 /\ ScopesMatch(log2, m - 1, Front(s))
                                      ELSE ScopesMatch(log2, m, s)
<1> DEFINE L == Len(log)
           B == Len(b)
           b2 == Front(b)
           s2 == Front(s)
           blocks2 == Front(blocks)
           last == b[B]
<1>1. L \in Nat /\ Len(log2) = L + 1 /\ log2[L + 1] = ev /\ \A j \in 1 .. L : log2[j] = log[j]
  BY DEF Grows
<1>2. \A j \in 1 .. L :
        /\ IsOpen(log2, j, L + 2) <=>
             IsOpen(log, j, L + 1) /\ Count(log, "open", j, L) > Count(log, "close", j, L) + 1
        /\ Count(log2, "open", j, L + 1) = Count(log, "open", j, L)
        /\ Count(log2, "close", j, L + 1) = Count(log, "close", j, L) + 1
  BY <1>1, OpenAfterClose
<1>3. \A j \in 1 .. L + 1 : j \in 1 .. L \/ j = L + 1
  BY <1>1
<1>4. /\ b \in Seq(Nat) /\ B = Len(blocks) /\ B \in Nat /\ B > 0
      /\ \A k, l \in 1 .. B : k < l => b[k] < b[l]
      /\ \A k \in 1 .. B : b[k] \in 1 .. L /\ log[b[k]].e = "open"
      /\ last \in 1 .. L /\ log[last].e = "open" /\ log[last].n = Last(blocks)
      /\ IsOpen(log, last, L + 1)
  <2>1. b \in Seq(Nat) /\ B = Len(blocks)
    BY DEF BlocksMatch
  <2>2. B \in Nat /\ B > 0 /\ B \in 1 .. B
    BY <2>1
  <2>3. \A k, l \in 1 .. B : k < l => b[k] < b[l]
    BY DEF BlocksMatch
  <2>4. \A k \in 1 .. B :
          /\ b[k] \in 1 .. L /\ log[b[k]].e = "open" /\ log[b[k]].n = blocks[k]
          /\ IsOpen(log, b[k], L + 1)
    BY DEF BlocksMatch
  <2>5. Last(blocks) = blocks[B]
    BY <2>1 DEF Last
  <2> HIDE DEF B
  <2> QED
    BY <2>1, <2>2, <2>3, <2>4, <2>5
<1>5. /\ b2 \in Seq(Nat) /\ Len(b2) = B - 1 /\ \A k \in 1 .. B - 1 : b2[k] = b[k]
      /\ Len(blocks2) = B - 1 /\ \A k \in 1 .. B - 1 : blocks2[k] = blocks[k]
  BY <1>4, FrontIs
\* Of the open blocks all but the last stay open.
<1>6. ASSUME NEW k \in 1 .. B
      PROVE  /\ log[b[k]].n = blocks[k] /\ IsOpen(log, b[k], L + 1)
             /\ IsOpen(log2, b[k], L + 2) <=> k < B
             /\ k < B => Count(log2, "open", b[k], L + 1) =
                          Count(log2, "close", b[k], L + 1) + ((B - 1) - k + 1)
  <2> DEFINE p == b[k]
             o == Count(log, "open", p, L)
             e == Count(log, "close", p, L)
  <2>1. /\ p \in 1 .. L /\ log[p].n = blocks[k] /\ IsOpen(log, p, L + 1)
        /\ o = e + (B - k + 1)
    BY DEF BlocksMatch
  <2> HIDE DEF p
  <2>2. o \in Nat /\ e \in Nat
    BY <1>1, <2>1, CountNat
  <2>3. /\ IsOpen(log2, p, L + 2) <=> o > e + 1
        /\ Count(log2, "open", p, L + 1) = o /\ Count(log2, "close", p, L + 1) = e + 1
    BY <1>2, <2>1
  <2> HIDE DEF o, e
  <2>4. o > e + 1 <=> k < B
    BY <1>4, <2>1, <2>2
  <2>5. o = (e + 1) + ((B - 1) - k + 1)
    BY <1>4, <2>1, <2>2
  <2> QED
    BY <2>1, <2>3, <2>4, <2>5 DEF p
<1> HIDE DEF b2, s2, blocks2
\* What is open after the end: what was open, but for the last.
<1>7. ASSUME NEW j \in 1 .. L, log[j].e = "open"
      PROVE  IsOpen(log2, j, L + 2) <=> IsOpen(log, j, L + 1) /\ j # last
  <2>1. CASE ~IsOpen(log, j, L + 1)
    BY <1>2, <2>1
  <2>2. CASE IsOpen(log, j, L + 1)
    <3>1. PICK k \in 1 .. B : b[k] = j
      BY <1>7, <2>2 DEF BlocksMatch
    <3>2. k < B <=> j # last
      BY <1>4, <3>1
    <3> QED
      BY <1>6, <2>2, <3>1, <3>2
  <2> QED
    BY <2>1, <2>2
<1>8. BlocksMatch(log2, blocks2, b2)
  <2>1. \A k \in 1 .. B - 1 : k \in 1 .. B /\ k < B
    BY <1>4
  <2>2. ASSUME NEW k \in 1 .. B - 1
        PROVE  /\ b2[k] \in 1 .. L + 1
               /\ log2[b2[k]].e = "open" /\ log2[b2[k]].n = blocks2[k]
               /\ IsOpen(log2, b2[k], L + 2)
               /\ Count(log2, "open", b2[k], L + 1) =
                    Count(log2, "close", b2[k], L + 1) + ((B - 1) - k + 1)
    <3> DEFINE p == b[k]
    <3>1. b2[k] = p /\ blocks2[k] = blocks[k] /\ p \in 1 .. L /\ log[p].e = "open"
      BY <1>4, <1>5, <2>1
    <3>2. /\ log[p].n = blocks[k] /\ IsOpen(log2, p, L + 2)
          /\ Count(log2, "open", p, L + 1) = Count(log2, "close", p, L + 1) + ((B - 1) - k + 1)
      BY <1>6, <2>1
    <3> HIDE DEF p
    <3>3. p \in 1 .. L + 1 /\ log2[p] = log[p]
      BY <1>1, <3>1
    <3> QED
      BY <3>1, <3>2, <3>3
  <2>3. ASSUME NEW j \in 1 .. L + 1, log2[j].e = "open", IsOpen(log2, j, L + 2)
        PROVE  \E k \in 1 .. B - 1 : b2[k] = j
    <3>1. j \in 1 .. L /\ log[j].e = "open"
      BY <1>1, <1>3, <2>3
    <3>2. IsOpen(log, j, L + 1) /\ j # last
      BY <1>7, <2>3, <3>1
    <3>3. PICK k \in 1 .. B : b[k] = j
      BY <3>1, <3>2 DEF BlocksMatch
    <3>4. k \in 1 .. B - 1
      BY <1>4, <3>2, <3>3
    <3> QED
      BY <1>5, <3>3, <3>4
  <2>4. \A k, l \in 1 .. B - 1 : k < l => b2[k] < b2[l]
    BY <1>4, <1>5, <2>1
  <2>5. Len(log2) = L + 1 /\ Len(log2) + 1 = L + 2 /\ Len(b2) = B - 1
    BY <1>1, <1>5
  <2> QED
    BY <1>5, <2>2, <2>3, <2>4, <2>5 DEF BlocksMatch
<1>9. ScopesOpenAt(log2, L + 2) = ScopesOpenAt(log, L + 1) \ {last}
  <2>1. ASSUME NEW j \in ScopesOpenAt(log2, L + 2)
        PROVE  j \in ScopesOpenAt(log, L + 1) \ {last}
    <3>1. CASE j = 0
      BY <1>4, <3>1 DEF ScopesOpenAt
    <3>2. CASE j # 0
      <4>1. j \in 1 .. L + 1 /\ log2[j].e = "open" /\ HasScope(log2[j].n) /\ IsOpen(log2, j, L + 2)
        BY <1>1, <3>2 DEF ScopesOpenAt
      <4>2. j \in 1 .. L /\ log2[j] = log[j]
        BY <1>1, <1>3, <4>1
      <4> QED
        BY <1>1, <1>7, <4>1, <4>2 DEF ScopesOpenAt
    <3> QED
      BY <3>1, <3>2
  <2>2. ASSUME NEW j \in ScopesOpenAt(log, L + 1), j # last
        PROVE  j \in ScopesOpenAt(log2, L + 2)
    <3>1. CASE j = 0
      BY <3>1 DEF ScopesOpenAt
    <3>2. CASE j # 0
      <4>1. j \in 1 .. L /\ log[j].e = "open" /\ HasScope(log[j].n) /\ IsOpen(log, j, L + 1)
        BY <1>1, <3>2 DEF ScopesOpenAt
      <4>2. j \in 1 .. (L + 2) - 1 /\ log2[j] = log[j]
        BY <1>1, <4>1
      <4> QED
        BY <1>7, <2>2, <4>1, <4>2 DEF ScopesOpenAt
    <3> QED
      BY <3>1, <3>2
  <2> QED
    BY <2>1, <2>2
<1>10. ASSUME HasScope(Last(blocks)) PROVE m > 0 /\ ScopesMatch(log2, m - 1, s2)
  <2>1. /\ s \in Seq(Nat) /\ Len(s) = m
        /\ \A k, l \in 1 .. m : k < l => s[k] < s[l]
        /\ \A k \in 1 .. m : s[k] \in ScopesOpenAt(log, L + 1) /\ s[k] \in Nat
        /\ \A j \in ScopesOpenAt(log, L + 1) : \E k \in 1 .. m : s[k] = j
    BY DEF ScopesMatch
  <2>2. last \in ScopesOpenAt(log, L + 1)
    BY <1>1, <1>4, <1>10 DEF ScopesOpenAt
  <2>3. ASSUME NEW j \in ScopesOpenAt(log, L + 1) PROVE j <= last
    <3>1. CASE j = 0
      BY <1>4, <3>1
    <3>2. CASE j # 0
      <4>1. j \in 1 .. L /\ log[j].e = "open" /\ IsOpen(log, j, L + 1)
        BY <1>1, <3>2 DEF ScopesOpenAt
      <4>2. PICK k \in 1 .. B : b[k] = j
        BY <4>1 DEF BlocksMatch
      <4> QED
        BY <1>4, <4>2
    <3> QED
      BY <3>1, <3>2
  <2>4. PICK i \in 1 .. m : s[i] = last
    BY <2>1, <2>2
  <2>5. s[m] = last
    BY <1>4, <2>1, <2>3, <2>4
  <2>6. s2 \in Seq(Nat) /\ Len(s2) = m - 1 /\ \A k \in 1 .. m - 1 : s2[k] = s[k]
    <3>1. m > 0
      BY <2>4
    <3> QED
      BY <2>1, <3>1, FrontIs DEF s2
  <2>7. \A k \in 1 .. m - 1 : k \in 1 .. m /\ m \in 1 .. m /\ s2[k] # last
    BY <2>1, <2>4, <2>5, <2>6
  <2>8. \A k \in 1 .. m - 1 : s2[k] \in ScopesOpenAt(log2, L + 2)
    BY <1>9, <2>1, <2>6, <2>7
  <2>9. \A k, l \in 1 .. m - 1 : k < l => s2[k] < s2[l]
    BY <2>1, <2>6, <2>7
  <2>10. ASSUME NEW j \in ScopesOpenAt(log2, L + 2) PROVE \E k \in 1 .. m - 1 : s2[k] = j
    <3>1. j \in ScopesOpenAt(log, L + 1) /\ j # last
      BY <1>9
    <3>2. PICK k \in 1 .. m : s[k] = j
      BY <2>1, <3>1
    <3>3. k \in 1 .. m - 1
      BY <2>5, <3>1, <3>2
    <3> QED
      BY <2>6, <3>2, <3>3
  <2>11. Len(log2) + 1 = L + 2 /\ m > 0
    BY <1>1, <2>4
  <2> QED
    BY <2>6, <2>8, <2>9, <2>10, <2>11 DEF ScopesMatch
<1>11. ASSUME ~HasScope(Last(blocks)) PROVE ScopesMatch(log2, m, s)
  <2>1. last \notin ScopesOpenAt(log, L + 1)
    BY <1>4, <1>11 DEF ScopesOpenAt
  <2>2. ScopesOpenAt(log2, L + 2) = ScopesOpenAt(log, L + 1)
    BY <1>9, <2>1
  <2> QED
    BY <1>1, <2>2 DEF ScopesMatch
<1> QED
  BY <1>8, <1>10, <1>11 DEF b2, s2, blocks2

-----------------------------------------------------------------------------
(* What an event does to the variables. *)

\* The declarations, and their scopes.
LEMMA LetsNext ==
  ASSUME NEW log, NEW ev, NEW log2, Grows(log, ev, log2)
  PROVE  /\ Lets(log) \subseteq 1 .. Len(log)
         /\ Lets(log2) = Lets(log) \union
              (IF ev.e = "let" /\ ev.v # 0 THEN {Len(log) + 1} ELSE {})
         /\ \A d \in Lets(log) : log2[d] = log[d] /\ ScopeAt(log2, d) = ScopeAt(log, d)
<1> DEFINE L == Len(log)
<1>1. /\ L \in Nat /\ DOMAIN log = 1 .. L /\ DOMAIN log2 = 1 .. L + 1
      /\ log2[L + 1] = ev /\ \A i \in 1 .. L : log2[i] = log[i]
  BY DEF Grows
<1>2. \A i \in 1 .. L + 1 : i \in 1 .. L \/ i = L + 1
  BY <1>1
<1>3. Lets(log) \subseteq 1 .. L
  BY <1>1 DEF Lets
<1>4. Lets(log2) = Lets(log) \union (IF ev.e = "let" /\ ev.v # 0 THEN {L + 1} ELSE {})
  BY <1>1, <1>2 DEF Lets
<1>5. \A d \in Lets(log) : log2[d] = log[d] /\ ScopeAt(log2, d) = ScopeAt(log, d)
  BY <1>1, <1>3, ScopesSame
<1> QED
  BY <1>3, <1>4, <1>5

\* The three parts of the property, for the new event.
LEMMA LexicalNext ==
  ASSUME NEW log, NEW ev, NEW log2, Grows(log, ev, log2), Lexical(log),
         ev.e = "use" => ev.v = Latest(log, ev.n, Len(log) + 1),
         ev.e = "let" =>
           (ev.v = 0 <=> \E d \in Seen(log, ev.n, Len(log) + 1) :
                           ScopeAt(log, d) = ScopeAt(log, Len(log) + 1)),
         ev.e = "let" => \A d \in Lets(log) : log[d].v < ev.v \/ ev.v = 0
  PROVE  Lexical(log2)
<1> DEFINE L == Len(log)
<1>1. /\ L \in Nat /\ DOMAIN log = 1 .. L /\ DOMAIN log2 = 1 .. L + 1
      /\ log2[L + 1] = ev /\ \A i \in 1 .. L : log2[i] = log[i]
  BY DEF Grows
<1>2. \A i \in 1 .. L + 1 : i \in 1 .. L \/ i = L + 1
  BY <1>1
<1>3. \A n : \A i \in 1 .. L + 1 :
        Seen(log2, n, i) = Seen(log, n, i) /\ Latest(log2, n, i) = Latest(log, n, i)
  BY SeenSame
<1>4. \A i \in 1 .. L + 1 : ScopeAt(log2, i) = ScopeAt(log, i)
  BY ScopesSame
<1>5. UsesAreLatest(log2)
  BY <1>1, <1>2, <1>3 DEF Lexical, UsesAreLatest
<1>6. RefusedIfTwice(log2)
  <2>1. ASSUME NEW i \in 1 .. L + 1, NEW n
        PROVE  (\E d \in Seen(log2, n, i) : ScopeAt(log2, d) = ScopeAt(log2, i))
                 <=> (\E d \in Seen(log, n, i) : ScopeAt(log, d) = ScopeAt(log, i))
    <3>1. Seen(log, n, i) \subseteq 1 .. L
      BY <1>1 DEF Seen, Lets
    <3>2. \A d \in Seen(log, n, i) : ScopeAt(log2, d) = ScopeAt(log, d)
      BY <1>1, <1>4, <3>1
    <3> QED
      BY <1>3, <1>4, <3>2
  <2>2. ASSUME NEW i \in 1 .. L + 1, log2[i].e = "let"
        PROVE  log2[i].v = 0 <=>
                 \E d \in Seen(log, log2[i].n, i) : ScopeAt(log, d) = ScopeAt(log, i)
    <3>1. CASE i = L + 1
      BY <1>1, <2>2, <3>1
    <3>2. CASE i \in 1 .. L
      BY <1>1, <2>2, <3>2 DEF Lexical, RefusedIfTwice
    <3> QED
      BY <1>2, <3>1, <3>2
  <2> QED
    BY <1>1, <2>1, <2>2 DEF RefusedIfTwice
<1>7. NumbersAreOnce(log2)
  <2>1. ASSUME NEW d \in Lets(log2), NEW e \in Lets(log2), log2[d].v = log2[e].v
        PROVE  d = e
    <3>1. \A x \in Lets(log) : log2[x] = log[x] /\ log[x].v \in Nat
      <4>1. \A x \in Lets(log) : x \in 1 .. L
        BY LetsNext
      <4>2. \A x \in 1 .. L : log[x] \in LogEvent
        BY DEF Grows
      <4> QED
        BY <1>1, <4>1, <4>2 DEF LogEvent
    <3>2. \A x \in Lets(log2) : x \in Lets(log) \/ (x = L + 1 /\ ev.e = "let" /\ ev.v # 0)
      BY LetsNext
    <3>3. \A x \in Lets(log) : ev.e = "let" /\ ev.v # 0 => log[x].v < ev.v
      OBVIOUS
    <3>4. ev.v \in Nat
      BY DEF Grows, LogEvent
    <3>5. \A x, y \in Lets(log) : log[x].v = log[y].v => x = y
      BY DEF Lexical, NumbersAreOnce
    <3> QED
      BY <1>1, <2>1, <3>1, <3>2, <3>3, <3>4, <3>5
  <2> QED
    BY <2>1 DEF NumbersAreOnce
<1> QED
  BY <1>5, <1>6, <1>7 DEF Lexical

\* Unless a variable is declared, the scopes have what they had.
LEMMA VarsSame ==
  ASSUME NEW log, NEW ev, NEW log2, Grows(log, ev, log2), ev.e = "let" => ev.v = 0,
         NEW scopes, NEW s, VarsMatch(log, scopes, s)
  PROVE  VarsMatch(log2, scopes, s) /\ Lets(log2) = Lets(log)
<1>1. Lets(log2) = Lets(log)
  BY LetsNext
<1>2. \A d \in Lets(log) : log2[d] = log[d] /\ ScopeAt(log2, d) = ScopeAt(log, d)
  BY LetsNext
<1> QED
  BY <1>1, <1>2 DEF VarsMatch

-----------------------------------------------------------------------------
(* What the operations do to a context. *)

\* An event is logged, and nothing else is changed.
LEMMA LoggedIs ==
  ASSUME NEW c \in Ctx, NEW e \in {"let", "use", "open", "close"},
         NEW n \in BodyNames \union BlockKind, NEW v, v \in Nat
  PROVE  LET c2 == Logged(c, e, n, v)
             ev == Event(e, n, v)
         IN  /\ c2 \in Ctx
             /\ c2.scopes = c.scopes /\ c2.next = c.next /\ c2.blocks = c.blocks
             /\ c2.errs = c.errs
             /\ Grows(c.log, ev, c2.log)
             /\ ev.e = e /\ ev.n = n /\ ev.v = v
<1> DEFINE c2 == Logged(c, e, n, v)
           ev == Event(e, n, v)
           log2 == Append(c.log, ev)
<1>1. ev \in LogEvent /\ ev.e = e /\ ev.n = n /\ ev.v = v
  BY DEF Event, LogEvent
<1>2. c.log \in Seq(LogEvent)
  BY DEF Ctx
<1>3. c2 = [c EXCEPT !.log = log2]
  BY DEF Logged
<1> HIDE DEF ev
<1>4. Grows(c.log, ev, log2) /\ log2 \in Seq(LogEvent)
  BY <1>1, <1>2 DEF Grows
<1> HIDE DEF log2, c2
<1>5. /\ c2 \in Ctx
      /\ c2.scopes = c.scopes /\ c2.next = c.next /\ c2.blocks = c.blocks
      /\ c2.errs = c.errs /\ c2.log = log2
  BY <1>3, <1>4 DEF Ctx
<1> QED
  BY <1>1, <1>4, <1>5 DEF ev, c2

\* An event that declares nothing keeps what the scopes say.
LEMMA PlainInv ==
  ASSUME NEW c, CtxInv(c), NEW c2 \in Ctx, NEW ev, Grows(c.log, ev, c2.log),
         c2.scopes = c.scopes, c2.next = c.next, c2.blocks = c.blocks,
         ev.e \in {"let", "use"},
         ev.e = "use" => ev.v = Latest(c.log, ev.n, Len(c.log) + 1),
         ev.e = "let" => ev.v = 0 /\ \E d \in Seen(c.log, ev.n, Len(c.log) + 1) :
                           ScopeAt(c.log, d) = ScopeAt(c.log, Len(c.log) + 1)
  PROVE  CtxInv(c2)
<1>1. PICK b, s \in Seq(Nat) :
        /\ BlocksMatch(c.log, c.blocks, b)
        /\ ScopesMatch(c.log, Len(c.scopes), s)
        /\ VarsMatch(c.log, c.scopes, s)
  BY DEF CtxInv, StacksMatch
<1>2. BlocksMatch(c2.log, c2.blocks, b) /\ ScopesMatch(c2.log, Len(c2.scopes), s)
  BY <1>1, PlainStacks
<1>3. VarsMatch(c2.log, c2.scopes, s) /\ Lets(c2.log) = Lets(c.log)
  BY <1>1, VarsSame
<1>4. StacksMatch(c2)
  BY <1>2, <1>3 DEF StacksMatch
<1>5. NumbersInv(c2)
  <2>1. \A d \in Lets(c.log) : c2.log[d] = c.log[d]
    BY LetsNext
  <2> QED
    BY <1>3, <2>1 DEF CtxInv, NumbersInv
<1>6. Lexical(c2.log)
  <2>1. Lexical(c.log) /\ (ev.e = "let" => \A d \in Lets(c.log) : c.log[d].v < ev.v \/ ev.v = 0)
    BY DEF CtxInv
  <2> QED
    BY <2>1, LexicalNext
<1> QED
  BY <1>4, <1>5, <1>6 DEF CtxInv

\* A variable goes to the innermost scope, unless that has one of its name.
LEMMA DeclareInv ==
  ASSUME NEW c, CtxInv(c), NEW n \in BodyNames
  PROVE  CtxInv(DeclareVariable(c, n))
<1> DEFINE m == Len(c.scopes)
           L == Len(c.log)
           c2 == DeclareVariable(c, n)
<1>1. /\ c \in Ctx /\ c.log \in Seq(LogEvent) /\ L \in Nat /\ m \in Nat
      /\ c.scopes \in Seq(Scope) /\ c.next \in Nat /\ c.next > 0
  BY DEF CtxInv, Ctx
<1>2. CASE n \in DOMAIN Last(c.scopes)
  <2> DEFINE l == Logged(c, "let", n, 0)
             ev == Event("let", n, 0)
  <2>1. /\ l \in Ctx /\ l.scopes = c.scopes /\ l.next = c.next /\ l.blocks = c.blocks
        /\ Grows(c.log, ev, l.log) /\ ev.e = "let" /\ ev.n = n /\ ev.v = 0
    <3>1. n \in BodyNames \union BlockKind /\ 0 \in Nat
      OBVIOUS
    <3>2. c \in Ctx
      BY <1>1
    <3> QED
      BY <3>1, <3>2, LoggedIs
  <2>2. c2 = [l EXCEPT !.errs = TRUE]
    BY <1>2 DEF DeclareVariable
  <2> HIDE DEF l, ev, c2
  <2>3. /\ c2 \in Ctx /\ c2.scopes = c.scopes /\ c2.next = c.next /\ c2.blocks = c.blocks
        /\ Grows(c.log, ev, c2.log)
    BY <2>1, <2>2 DEF Ctx
  <2>4. \E d \in Seen(c.log, n, L + 1) : ScopeAt(c.log, d) = ScopeAt(c.log, L + 1)
    BY <1>2, RefusedByOwnScope
  <2>5. CtxInv(c2)
    BY <2>1, <2>3, <2>4, PlainInv
  <2> QED
    BY <2>5 DEF c2
<1>3. CASE n \notin DOMAIN Last(c.scopes)
  <2> DEFINE l == Logged(c, "let", n, c.next)
             ev == Event("let", n, c.next)
             top == [x \in {n} \union DOMAIN l.scopes[m] |->
                       IF x = n THEN c.next ELSE l.scopes[m][x]]
             scopes2 == [l.scopes EXCEPT ![m] = top]
             next2 == l.next + 1
  <2>1. /\ l \in Ctx /\ l.scopes = c.scopes /\ l.next = c.next /\ l.blocks = c.blocks
        /\ Grows(c.log, ev, l.log) /\ ev.e = "let" /\ ev.n = n /\ ev.v = c.next
    BY <1>1, LoggedIs
  <2>2. c2 = [l EXCEPT !.scopes = scopes2, !.next = next2]
    BY <1>3 DEF DeclareVariable
  <2> HIDE DEF l, ev, c2
  <2>3. PICK b, s \in Seq(Nat) :
          /\ BlocksMatch(c.log, c.blocks, b)
          /\ ScopesMatch(c.log, m, s)
          /\ VarsMatch(c.log, c.scopes, s)
    BY DEF CtxInv, StacksMatch
  <2>4. m \in 1 .. m /\ Len(s) = m /\ s[m] = ScopeAt(c.log, L + 1)
    <3>1. m > 0 /\ s[m] = ScopeAt(c.log, L + 1)
      BY <1>1, <2>3, LastIsInnermost
    <3> QED
      BY <1>1, <2>3, <3>1 DEF ScopesMatch
  <2>5. /\ DOMAIN top = {n} \union DOMAIN c.scopes[m] /\ top[n] = c.next
        /\ \A x \in DOMAIN c.scopes[m] : x # n => top[x] = c.scopes[m][x]
        /\ top \in Scope
    <3>1. c.scopes[m] \in Scope
      BY <1>1, <2>4
    <3>2. PICK S \in SUBSET BodyNames : c.scopes[m] \in [S -> Nat]
      BY <3>1 DEF Scope
    <3>3. top \in [{n} \union S -> Nat]
      BY <1>1, <2>1, <3>2
    <3>4. {n} \union S \in SUBSET BodyNames
      BY <3>2
    <3>5. top \in Scope
      <4> HIDE DEF top
      <4> QED
        BY <3>3, <3>4 DEF Scope
    <3> QED
      BY <2>1, <3>5
  <2> HIDE DEF top
  <2>6. /\ scopes2 \in Seq(Scope) /\ Len(scopes2) = m /\ scopes2[m] = top
        /\ \A k \in 1 .. m : k # m => scopes2[k] = c.scopes[k]
    BY <1>1, <2>1, <2>4, <2>5
  <2>7. next2 = c.next + 1 /\ next2 \in Nat \ {0}
    BY <1>1, <2>1
  <2> HIDE DEF scopes2, next2
  <2>8. /\ c2 \in Ctx /\ c2.scopes = scopes2 /\ c2.next = next2 /\ c2.blocks = c.blocks
        /\ Grows(c.log, ev, c2.log)
    BY <2>1, <2>2, <2>6, <2>7 DEF Ctx
  <2>9. BlocksMatch(c2.log, c2.blocks, b) /\ ScopesMatch(c2.log, Len(c2.scopes), s)
    BY <2>1, <2>3, <2>6, <2>8, PlainStacks
  <2>10. /\ Lets(c.log) \subseteq 1 .. L
         /\ Lets(c2.log) = Lets(c.log) \union {L + 1}
         /\ \A d \in Lets(c.log) :
              c2.log[d] = c.log[d] /\ ScopeAt(c2.log, d) = ScopeAt(c.log, d)
         /\ c2.log[L + 1] = ev
    <3>1. ev.e = "let" /\ ev.v # 0
      BY <1>1, <2>1
    <3>2. c2.log[L + 1] = ev
      BY <2>8 DEF Grows
    <3> QED
      BY <2>8, <3>1, <3>2, LetsNext
  <2>11. ScopeAt(c2.log, L + 1) = s[m]
    <3>1. L + 1 \in 1 .. L + 1
      BY <1>1
    <3> QED
      BY <2>4, <2>8, <3>1, ScopesSame
  <2>12. VarsMatch(c2.log, c2.scopes, s)
    <3>1. ASSUME NEW k \in 1 .. m, k # m PROVE s[k] # s[m]
      <4>1. k < m
        BY <1>1, <3>1
      <4>2. s[k] < s[m]
        BY <2>3, <2>4, <4>1 DEF ScopesMatch
      <4>3. s[k] \in Nat /\ s[m] \in Nat
        BY <2>4
      <4> QED
        BY <4>2, <4>3
    <3>2. \A k \in 1 .. m :
            /\ \A x \in DOMAIN c.scopes[k] :
                 \E d \in Lets(c.log) : c.log[d].n = x /\ ScopeAt(c.log, d) = s[k]
            /\ \A d \in Lets(c.log) : ScopeAt(c.log, d) = s[k] =>
                 c.log[d].n \in DOMAIN c.scopes[k] /\ c.scopes[k][c.log[d].n] = c.log[d].v
      BY <2>3, <2>4 DEF VarsMatch
    <3>3. \A d : d \in Lets(c2.log) <=> d \in Lets(c.log) \/ d = L + 1
      BY <2>10
    <3>4. \A d \in Lets(c.log) : c2.log[d] = c.log[d] /\ ScopeAt(c2.log, d) = ScopeAt(c.log, d)
      BY <2>10
    <3>5. ASSUME NEW k \in 1 .. m, k # m
          PROVE  /\ \A x \in DOMAIN scopes2[k] :
                      \E d \in Lets(c2.log) : c2.log[d].n = x /\ ScopeAt(c2.log, d) = s[k]
                 /\ \A d \in Lets(c2.log) : ScopeAt(c2.log, d) = s[k] =>
                      c2.log[d].n \in DOMAIN scopes2[k] /\ scopes2[k][c2.log[d].n] = c2.log[d].v
      <4>1. scopes2[k] = c.scopes[k] /\ s[k] # s[m]
        BY <2>6, <3>1, <3>5
      <4>2. ASSUME NEW x \in DOMAIN c.scopes[k]
            PROVE  \E d \in Lets(c2.log) : c2.log[d].n = x /\ ScopeAt(c2.log, d) = s[k]
        <5>1. PICK d \in Lets(c.log) : c.log[d].n = x /\ ScopeAt(c.log, d) = s[k]
          BY <3>2, <4>2
        <5> QED
          BY <3>3, <3>4, <5>1
      <4>3. ASSUME NEW d \in Lets(c2.log), ScopeAt(c2.log, d) = s[k]
            PROVE  c2.log[d].n \in DOMAIN c.scopes[k] /\ c.scopes[k][c2.log[d].n] = c2.log[d].v
        <5>1. d \in Lets(c.log)
          BY <2>11, <3>3, <4>1, <4>3
        <5> QED
          BY <3>2, <3>4, <4>3, <5>1
      <4> QED
        BY <4>1, <4>2, <4>3
    <3>6. c.scopes[m] = Last(c.scopes) /\ n \notin DOMAIN c.scopes[m]
      BY <1>3 DEF Last
    <3>7. \A x \in DOMAIN top :
            \E d \in Lets(c2.log) : c2.log[d].n = x /\ ScopeAt(c2.log, d) = s[m]
      <4>1. ASSUME NEW x \in DOMAIN c.scopes[m]
            PROVE  \E d \in Lets(c2.log) : c2.log[d].n = x /\ ScopeAt(c2.log, d) = s[m]
        <5>1. PICK d \in Lets(c.log) : c.log[d].n = x /\ ScopeAt(c.log, d) = s[m]
          BY <2>4, <3>2, <4>1
        <5> QED
          BY <3>3, <3>4, <5>1
      <4>2. L + 1 \in Lets(c2.log) /\ c2.log[L + 1].n = n /\ ScopeAt(c2.log, L + 1) = s[m]
        BY <2>1, <2>10, <2>11
      <4> QED
        BY <2>5, <4>1, <4>2
    <3>8. ASSUME NEW d \in Lets(c2.log), ScopeAt(c2.log, d) = s[m]
          PROVE  c2.log[d].n \in DOMAIN top /\ top[c2.log[d].n] = c2.log[d].v
      <4>1. CASE d = L + 1
        BY <2>1, <2>5, <2>10, <4>1
      <4>2. CASE d \in Lets(c.log)
        <5>1. c2.log[d] = c.log[d] /\ ScopeAt(c.log, d) = s[m]
          BY <3>4, <3>8, <4>2
        <5>2. c.log[d].n \in DOMAIN c.scopes[m] /\ c.scopes[m][c.log[d].n] = c.log[d].v
          BY <2>4, <3>2, <4>2, <5>1
        <5> QED
          BY <2>5, <3>6, <5>1, <5>2
      <4> QED
        BY <2>10, <4>1, <4>2
    <3> QED
      BY <2>4, <2>6, <2>8, <3>5, <3>7, <3>8 DEF VarsMatch
  <2>13. StacksMatch(c2)
    BY <2>9, <2>12 DEF StacksMatch
  <2>14. \A d \in Lets(c.log) : c.log[d].v < c.next /\ c.log[d].v \in Nat
    <3>1. \A d \in Lets(c.log) : c.log[d] \in LogEvent
      BY <1>1, <2>10
    <3> QED
      BY <3>1 DEF CtxInv, NumbersInv, LogEvent
  <2>15. NumbersInv(c2)
    <3>1. ASSUME NEW d \in Lets(c2.log) PROVE c2.log[d].v < next2
      <4>1. CASE d = L + 1
        BY <1>1, <2>1, <2>7, <2>10, <4>1
      <4>2. CASE d \in Lets(c.log)
        <5>1. c2.log[d] = c.log[d]
          BY <2>10, <4>2
        <5> QED
          BY <1>1, <2>7, <2>14, <4>2, <5>1
      <4> QED
        BY <2>10, <4>1, <4>2
    <3> QED
      BY <2>8, <3>1 DEF NumbersInv
  <2>16. Lexical(c2.log)
    <3>1. ev.v # 0 /\ ~\E d \in Seen(c.log, n, L + 1) : ScopeAt(c.log, d) = ScopeAt(c.log, L + 1)
      <4>1. ~\E d \in Seen(c.log, n, L + 1) : ScopeAt(c.log, d) = ScopeAt(c.log, L + 1)
        BY <1>3, RefusedByOwnScope
      <4> QED
        BY <1>1, <2>1, <4>1
    <3>2. Lexical(c.log)
      BY DEF CtxInv
    <3> QED
      BY <2>1, <2>8, <2>14, <3>1, <3>2, LexicalNext
  <2>17. CtxInv(c2)
    BY <2>8, <2>13, <2>15, <2>16 DEF CtxInv
  <2> QED
    BY <2>17 DEF c2
<1> QED
  BY <1>2, <1>3

\* A use is resolved to the latest declaration, and changes no scope.
LEMMA UseInv ==
  ASSUME NEW c, CtxInv(c), NEW n \in BodyNames, NEW isGlobal \in BOOLEAN
  PROVE  CtxInv(ResolveName(c, n, isGlobal))
<1> DEFINE v == Lookup(c, n)
           l == Logged(c, "use", n, v)
           ev == Event("use", n, v)
           errs2 == l.errs \/ (v = 0 /\ ~isGlobal)
           c2 == ResolveName(c, n, isGlobal)
<1>1. c \in Ctx /\ v = Latest(c.log, n, Len(c.log) + 1)
  BY LookupIsLatest DEF CtxInv
<1>2. v \in Nat
  <2> DEFINE S == Seen(c.log, n, Len(c.log) + 1)
  <2>1. CASE S = {}
    BY <1>1, <2>1 DEF Latest
  <2>2. CASE S # {}
    <3>1. c.log \in Seq(LogEvent) /\ Len(c.log) \in Nat
      BY <1>1 DEF Ctx
    <3>2. S \in SUBSET Nat /\ \A d \in S : d \in 1 .. Len(c.log) /\ d <= Len(c.log)
      BY <3>1 DEF Seen, Lets
    <3>3. Max(S) \in S
      <4> HIDE DEF S
      <4> QED
        BY <2>2, <3>1, <3>2, MaxIn
    <3>4. c.log[Max(S)] \in LogEvent
      BY <3>1, <3>2, <3>3
    <3>5. v = c.log[Max(S)].v
      BY <1>1, <2>2 DEF Latest
    <3> QED
      BY <3>4, <3>5 DEF LogEvent
  <2> QED
    BY <2>1, <2>2
<1>3. c2 = [l EXCEPT !.errs = errs2]
  BY DEF ResolveName
<1> HIDE DEF v
<1>4. /\ l \in Ctx /\ l.scopes = c.scopes /\ l.next = c.next /\ l.blocks = c.blocks
      /\ l.errs = c.errs /\ Grows(c.log, ev, l.log) /\ ev.e = "use" /\ ev.n = n /\ ev.v = v
  <2>1. n \in BodyNames \union BlockKind
    OBVIOUS
  <2> QED
    BY <1>1, <1>2, <2>1, LoggedIs
<1> HIDE DEF l, ev, c2
<1>5. errs2 \in BOOLEAN
  BY <1>4 DEF Ctx
<1> HIDE DEF errs2
<1>6. /\ c2 \in Ctx /\ c2.scopes = c.scopes /\ c2.next = c.next /\ c2.blocks = c.blocks
      /\ Grows(c.log, ev, c2.log)
  BY <1>3, <1>4, <1>5 DEF Ctx
<1>7. CtxInv(c2)
  BY <1>1, <1>4, <1>6, PlainInv
<1> QED
  BY <1>7 DEF c2

\* A pattern is one or the other.
LEMMA PatternInv ==
  ASSUME NEW c, CtxInv(c), NEW n \in BodyNames, NEW isVariant \in BOOLEAN
  PROVE  CtxInv(ResolveIdentPattern(c, n, isVariant))
<1>1. CASE Lookup(c, n) = 0 /\ isVariant
  <2> DEFINE l == Logged(c, "use", n, 0)
             ev == Event("use", n, 0)
  <2>1. c \in Ctx /\ 0 = Latest(c.log, n, Len(c.log) + 1)
    BY <1>1, LookupIsLatest DEF CtxInv
  <2>2. /\ l \in Ctx /\ l.scopes = c.scopes /\ l.next = c.next /\ l.blocks = c.blocks
        /\ Grows(c.log, ev, l.log) /\ ev.e = "use" /\ ev.n = n /\ ev.v = 0
    BY <2>1, LoggedIs
  <2> HIDE DEF l, ev
  <2>3. CtxInv(l)
    BY <2>1, <2>2, PlainInv
  <2> QED
    BY <1>1, <2>3 DEF ResolveIdentPattern, l
<1>2. CASE ~(Lookup(c, n) = 0 /\ isVariant)
  BY <1>2, DeclareInv DEF ResolveIdentPattern
<1> QED
  BY <1>1, <1>2

\* An empty scope is one.
LEMMA EmptyScope == <<>> \in Scope /\ DOMAIN <<>> = {}
<1>1. <<>> \in [{} -> Nat]
  OBVIOUS
<1>2. {} \in SUBSET BodyNames
  OBVIOUS
<1> QED
  BY <1>1, <1>2 DEF Scope

\* A block that begins has an empty scope, or none.
LEMMA OpenInv ==
  ASSUME NEW c, CtxInv(c), NEW kind \in BlockKind
  PROVE  CtxInv(OpenBlock(c, kind))
<1> DEFINE L == Len(c.log)
           m == Len(c.scopes)
           l == Logged(c, "open", kind, 0)
           ev == Event("open", kind, 0)
           blocks2 == Append(l.blocks, kind)
           scopes2 == IF HasScope(kind) THEN Append(l.scopes, <<>>) ELSE l.scopes
           c2 == OpenBlock(c, kind)
<1>1. /\ c \in Ctx /\ c.log \in Seq(LogEvent) /\ L \in Nat /\ m \in Nat
      /\ c.scopes \in Seq(Scope) /\ c.blocks \in Seq(BlockKind)
  BY DEF CtxInv, Ctx
<1>2. /\ l \in Ctx /\ l.scopes = c.scopes /\ l.next = c.next /\ l.blocks = c.blocks
      /\ Grows(c.log, ev, l.log) /\ ev.e = "open" /\ ev.n = kind /\ ev.v = 0
  BY <1>1, LoggedIs
<1>3. c2 = [l EXCEPT !.blocks = blocks2, !.scopes = scopes2]
  BY DEF OpenBlock
<1> HIDE DEF l, ev, c2
<1>4. blocks2 = Append(c.blocks, kind) /\ blocks2 \in Seq(BlockKind)
  BY <1>1, <1>2
<1>5. CASE HasScope(kind)
  <2>1. /\ scopes2 \in Seq(Scope) /\ Len(scopes2) = m + 1
        /\ scopes2[m + 1] = <<>> /\ \A k \in 1 .. m : scopes2[k] = c.scopes[k]
    BY <1>1, <1>2, <1>5, EmptyScope
  <2> HIDE DEF scopes2, blocks2
  <2>2. /\ c2 \in Ctx /\ c2.scopes = scopes2 /\ c2.next = c.next /\ c2.blocks = blocks2
        /\ Grows(c.log, ev, c2.log)
    BY <1>2, <1>3, <1>4, <2>1 DEF Ctx
  <2>3. PICK b, s \in Seq(Nat) :
          /\ BlocksMatch(c.log, c.blocks, b)
          /\ ScopesMatch(c.log, m, s)
          /\ VarsMatch(c.log, c.scopes, s)
    BY DEF CtxInv, StacksMatch
  <2> DEFINE b2 == Append(b, Len(c2.log))
             s2 == Append(s, Len(c2.log))
  <2>4. BlocksMatch(c2.log, c2.blocks, b2) /\ ScopesMatch(c2.log, Len(c2.scopes), s2)
    BY <1>1, <1>2, <1>4, <1>5, <2>1, <2>2, <2>3, OpenStacks
  <2>5. Len(c2.log) = L + 1 /\ Len(s) = m
    BY <2>2, <2>3 DEF Grows, ScopesMatch
  <2>6. b2 \in Seq(Nat) /\ s2 \in Seq(Nat)
    BY <1>1, <2>5
  <2>7. Len(s2) = m + 1 /\ s2[m + 1] = L + 1 /\ \A k \in 1 .. m : s2[k] = s[k]
    BY <2>5
  <2> HIDE DEF b2, s2
  <2>8. VarsMatch(c2.log, c.scopes, s) /\ Lets(c2.log) = Lets(c.log)
    BY <1>2, <2>2, <2>3, VarsSame
  <2>9. VarsMatch(c2.log, c2.scopes, s2)
    <3>1. ASSUME NEW k \in 1 .. m
          PROVE  /\ \A n \in DOMAIN scopes2[k] :
                      \E d \in Lets(c2.log) : c2.log[d].n = n /\ ScopeAt(c2.log, d) = s2[k]
                 /\ \A d \in Lets(c2.log) : ScopeAt(c2.log, d) = s2[k] =>
                      c2.log[d].n \in DOMAIN scopes2[k] /\ scopes2[k][c2.log[d].n] = c2.log[d].v
      <4>1. scopes2[k] = c.scopes[k] /\ s2[k] = s[k] /\ k \in 1 .. Len(s)
        BY <2>1, <2>5, <2>7
      <4> QED
        BY <2>8, <4>1 DEF VarsMatch
    <3>2. \A d \in Lets(c2.log) : ScopeAt(c2.log, d) # s2[m + 1]
      <4>1. ASSUME NEW d \in Lets(c2.log) PROVE ScopeAt(c2.log, d) < L + 1
        <5>1. d \in 1 .. L
          BY <1>1, <2>8 DEF Lets
        <5>2. ScopeAt(c2.log, d) \in 0 .. d - 1
          BY <5>1, ScopeIsOpen
        <5> QED
          BY <1>1, <5>1, <5>2
      <4>2. \A d \in Lets(c2.log) : ScopeAt(c2.log, d) \in Nat
        <5>1. Lets(c2.log) \subseteq 1 .. L
          BY <1>1, <2>8 DEF Lets
        <5> QED
          BY <5>1, ScopeIsOpen
      <4> QED
        BY <1>1, <2>7, <4>1, <4>2
    <3>3. \A k \in 1 .. Len(s2) : k \in 1 .. m \/ k = m + 1
      <4>1. m \in Nat /\ Len(s2) = m + 1
        BY <1>1, <2>7
      <4> HIDE DEF m
      <4> QED
        BY <4>1
    <3>4. DOMAIN scopes2[m + 1] = {}
      BY <2>1, EmptyScope
    <3>5. ASSUME NEW k \in 1 .. Len(s2), k = m + 1
          PROVE  /\ \A n \in DOMAIN scopes2[k] :
                      \E d \in Lets(c2.log) : c2.log[d].n = n /\ ScopeAt(c2.log, d) = s2[k]
                 /\ \A d \in Lets(c2.log) : ScopeAt(c2.log, d) = s2[k] =>
                      c2.log[d].n \in DOMAIN scopes2[k] /\ scopes2[k][c2.log[d].n] = c2.log[d].v
      BY <3>2, <3>4, <3>5
    <3> HIDE DEF m
    <3> QED
      BY <2>2, <3>1, <3>3, <3>5 DEF VarsMatch
  <2>10. StacksMatch(c2)
    BY <2>4, <2>6, <2>9 DEF StacksMatch
  <2>11. NumbersInv(c2) /\ Lexical(c2.log)
    <3>1. \A d \in Lets(c.log) : c2.log[d] = c.log[d]
      BY <2>2, LetsNext
    <3>2. NumbersInv(c2)
      BY <2>2, <2>8, <3>1 DEF CtxInv, NumbersInv
    <3>3. Lexical(c2.log)
      BY <1>2, <2>2, LexicalNext DEF CtxInv
    <3> QED
      BY <3>2, <3>3
  <2>12. CtxInv(c2)
    BY <2>2, <2>10, <2>11 DEF CtxInv
  <2> QED
    BY <2>12 DEF c2
<1>6. CASE ~HasScope(kind)
  <2>1. scopes2 = c.scopes
    BY <1>2, <1>6
  <2> HIDE DEF scopes2, blocks2
  <2>2. /\ c2 \in Ctx /\ c2.scopes = c.scopes /\ c2.next = c.next /\ c2.blocks = blocks2
        /\ Grows(c.log, ev, c2.log)
    BY <1>1, <1>2, <1>3, <1>4, <2>1 DEF Ctx
  <2>3. PICK b, s \in Seq(Nat) :
          /\ BlocksMatch(c.log, c.blocks, b)
          /\ ScopesMatch(c.log, m, s)
          /\ VarsMatch(c.log, c.scopes, s)
    BY DEF CtxInv, StacksMatch
  <2> DEFINE b2 == Append(b, Len(c2.log))
  <2>4. BlocksMatch(c2.log, c2.blocks, b2) /\ ScopesMatch(c2.log, Len(c2.scopes), s)
    BY <1>1, <1>2, <1>4, <1>6, <2>2, <2>3, OpenStacks
  <2>5. b2 \in Seq(Nat)
    BY <1>1, <2>2, <2>3 DEF Grows
  <2> HIDE DEF b2
  <2>6. VarsMatch(c2.log, c2.scopes, s) /\ Lets(c2.log) = Lets(c.log)
    BY <1>2, <2>2, <2>3, VarsSame
  <2>7. StacksMatch(c2)
    BY <2>4, <2>5, <2>6 DEF StacksMatch
  <2>8. NumbersInv(c2) /\ Lexical(c2.log)
    <3>1. \A d \in Lets(c.log) : c2.log[d] = c.log[d]
      BY <2>2, LetsNext
    <3>2. NumbersInv(c2)
      BY <2>2, <2>6, <3>1 DEF CtxInv, NumbersInv
    <3>3. Lexical(c2.log)
      BY <1>2, <2>2, LexicalNext DEF CtxInv
    <3> QED
      BY <3>2, <3>3
  <2>9. CtxInv(c2)
    BY <2>2, <2>7, <2>8 DEF CtxInv
  <2> QED
    BY <2>9 DEF c2
<1> QED
  BY <1>5, <1>6

\* A block that ends takes its scope with it, if it has one.
LEMMA CloseInv ==
  ASSUME NEW c, CtxInv(c), c.blocks # <<>>
  PROVE  CtxInv(CloseBlock(c))
<1> DEFINE L == Len(c.log)
           m == Len(c.scopes)
           kind == Last(c.blocks)
           l == Logged(c, "close", kind, 0)
           ev == Event("close", kind, 0)
           blocks2 == Front(l.blocks)
           scopes2 == IF HasScope(kind) THEN Front(l.scopes) ELSE l.scopes
           c2 == CloseBlock(c)
<1>1. /\ c \in Ctx /\ c.log \in Seq(LogEvent) /\ L \in Nat /\ m \in Nat
      /\ c.scopes \in Seq(Scope) /\ c.blocks \in Seq(BlockKind)
  BY DEF CtxInv, Ctx
<1>2. Len(c.blocks) > 0 /\ kind \in BlockKind
  <2>1. Len(c.blocks) > 0 /\ Len(c.blocks) \in 1 .. Len(c.blocks)
    BY <1>1
  <2> QED
    BY <1>1, <2>1 DEF Last
<1>3. /\ l \in Ctx /\ l.scopes = c.scopes /\ l.next = c.next /\ l.blocks = c.blocks
      /\ Grows(c.log, ev, l.log) /\ ev.e = "close" /\ ev.n = kind /\ ev.v = 0
  <2> HIDE DEF kind
  <2>1. kind \in BodyNames \union BlockKind /\ 0 \in Nat
    BY <1>2
  <2>2. c \in Ctx
    BY <1>1
  <2> QED
    BY <2>1, <2>2, LoggedIs
<1>4. c2 = [l EXCEPT !.blocks = blocks2, !.scopes = scopes2]
  BY <1>3 DEF CloseBlock
<1> HIDE DEF l, ev, c2
<1>5. blocks2 = Front(c.blocks) /\ blocks2 \in Seq(BlockKind)
  BY <1>1, <1>2, <1>3, FrontIs
<1>6. PICK b, s \in Seq(Nat) :
        /\ BlocksMatch(c.log, c.blocks, b)
        /\ ScopesMatch(c.log, m, s)
        /\ VarsMatch(c.log, c.scopes, s)
  BY DEF CtxInv, StacksMatch
<1>7. Len(s) = m /\ Len(b) = Len(c.blocks)
  BY <1>6 DEF ScopesMatch, BlocksMatch
<1>8. m > 0
  BY <1>1, <1>6, LastIsInnermost
<1> DEFINE b2 == Front(b)
           s2 == IF HasScope(kind) THEN Front(s) ELSE s
<1>9. b2 \in Seq(Nat) /\ s2 \in Seq(Nat)
  BY <1>2, <1>6, <1>7, <1>8, FrontIs
<1>10. /\ scopes2 \in Seq(Scope) /\ Len(scopes2) = Len(s2) /\ Len(s2) \in Nat /\ Len(s2) <= m
       /\ Len(scopes2) = IF HasScope(kind) THEN m - 1 ELSE m
       /\ \A k \in 1 .. Len(s2) : scopes2[k] = c.scopes[k] /\ s2[k] = s[k]
  <2>1. CASE HasScope(kind)
    <3>1. /\ scopes2 = Front(c.scopes) /\ s2 = Front(s)
      BY <1>3, <2>1
    <3>2. /\ Front(c.scopes) \in Seq(Scope) /\ Len(Front(c.scopes)) = m - 1
          /\ \A k \in 1 .. m - 1 : Front(c.scopes)[k] = c.scopes[k]
      BY <1>1, <1>8, FrontIs
    <3>3. Len(Front(s)) = m - 1 /\ \A k \in 1 .. m - 1 : Front(s)[k] = s[k]
      BY <1>6, <1>7, <1>8, FrontIs
    <3>4. m \in Nat /\ m > 0
      BY <1>1, <1>8
    <3> HIDE DEF scopes2, s2, m
    <3> QED
      BY <2>1, <3>1, <3>2, <3>3, <3>4
  <2>2. CASE ~HasScope(kind)
    <3>1. scopes2 = c.scopes /\ s2 = s
      BY <1>3, <2>2
    <3>2. c.scopes \in Seq(Scope) /\ Len(c.scopes) = m /\ Len(s) = m /\ m \in Nat
      BY <1>1, <1>7
    <3> HIDE DEF scopes2, s2, m
    <3> QED
      BY <2>2, <3>1, <3>2
  <2> QED
    BY <2>1, <2>2
<1> HIDE DEF scopes2, blocks2
<1>11. /\ c2 \in Ctx /\ c2.scopes = scopes2 /\ c2.next = c.next /\ c2.blocks = blocks2
       /\ Grows(c.log, ev, c2.log)
  BY <1>3, <1>4, <1>5, <1>10 DEF Ctx
<1>12. BlocksMatch(c2.log, c2.blocks, b2) /\ ScopesMatch(c2.log, Len(c2.scopes), s2)
  <2>1. /\ BlocksMatch(c2.log, Front(c.blocks), Front(b))
        /\ IF HasScope(Last(c.blocks)) THEN m > 0 /\ ScopesMatch(c2.log, m - 1, Front(s))
                                       ELSE ScopesMatch(c2.log, m, s)
    BY <1>1, <1>2, <1>3, <1>6, <1>11, CloseStacks
  <2>2. CASE HasScope(kind)
    BY <1>5, <1>10, <1>11, <2>1, <2>2
  <2>3. CASE ~HasScope(kind)
    BY <1>5, <1>10, <1>11, <2>1, <2>3
  <2> QED
    BY <2>2, <2>3
<1> HIDE DEF b2, s2
<1>13. VarsMatch(c2.log, c.scopes, s) /\ Lets(c2.log) = Lets(c.log)
  BY <1>3, <1>6, <1>11, VarsSame
<1>14. VarsMatch(c2.log, c2.scopes, s2)
  <2>1. \A k \in 1 .. Len(s2) : k \in 1 .. Len(s) /\ scopes2[k] = c.scopes[k] /\ s2[k] = s[k]
    <3>1. m \in Nat /\ Len(s2) \in Nat /\ Len(s2) <= m /\ Len(s) = m
      BY <1>1, <1>7, <1>10
    <3> HIDE DEF m
    <3> QED
      BY <1>10, <3>1
  <2>2. c2.scopes = scopes2
    BY <1>11
  <2> QED
    BY <1>13, <2>1, <2>2 DEF VarsMatch
<1>15. StacksMatch(c2)
  BY <1>9, <1>12, <1>14 DEF StacksMatch
<1>16. NumbersInv(c2)
  <2>1. \A d \in Lets(c.log) : c2.log[d] = c.log[d]
    BY <1>11, LetsNext
  <2> QED
    BY <1>11, <1>13, <2>1 DEF CtxInv, NumbersInv
<1>17. Lexical(c2.log)
  BY <1>3, <1>11, LexicalNext DEF CtxInv
<1>18. CtxInv(c2)
  BY <1>11, <1>15, <1>16, <1>17 DEF CtxInv
<1> QED
  BY <1>18 DEF c2

\* The context before the parameters.
LEMMA EmptyInv == CtxInv(EmptyFnCtx)
<1> DEFINE c == EmptyFnCtx
           b == <<>>
           s == <<0>>
<1>1. /\ c.scopes = <<<<>>>> /\ c.next = 1 /\ c.blocks = <<>> /\ c.errs = FALSE /\ c.log = <<>>
      /\ c.scopes \in Seq(Scope) /\ Len(c.scopes) = 1 /\ c.scopes[1] = <<>>
  BY EmptyScope DEF EmptyFnCtx
<1>2. c \in Ctx
  BY EmptyScope DEF EmptyFnCtx, Ctx
<1>3. DOMAIN c.log = {} /\ Len(c.log) = 0 /\ Lets(c.log) = {}
  BY <1>1 DEF Lets
<1>4. ScopesOpenAt(c.log, 1) = {0}
  BY DEF ScopesOpenAt
<1>5. /\ b \in Seq(Nat) /\ Len(b) = 0
      /\ s \in Seq(Nat) /\ Len(s) = 1 /\ s[1] = 0
  OBVIOUS
<1> HIDE DEF b, s, c
<1>6. BlocksMatch(c.log, c.blocks, b)
  BY <1>1, <1>3, <1>5 DEF BlocksMatch
<1>7. ScopesMatch(c.log, Len(c.scopes), s)
  <2>1. \A k \in 1 .. 1 : k = 1
    OBVIOUS
  <2> QED
    BY <1>1, <1>3, <1>4, <1>5, <2>1 DEF ScopesMatch
<1>8. VarsMatch(c.log, c.scopes, s)
  <2>1. \A k \in 1 .. 1 : k = 1
    OBVIOUS
  <2> QED
    BY <1>1, <1>3, <1>5, <2>1, EmptyScope DEF VarsMatch
<1>9. StacksMatch(c) /\ NumbersInv(c)
  BY <1>3, <1>5, <1>6, <1>7, <1>8 DEF StacksMatch, NumbersInv
<1>10. Lexical(c.log)
  BY <1>3 DEF Lexical, UsesAreLatest, RefusedIfTwice, NumbersAreOnce
<1>11. CtxInv(c)
  BY <1>2, <1>9, <1>10 DEF CtxInv
<1> QED
  BY <1>11 DEF c

\* The parameters are declared one after the other.
LEMMA NewInv == CtxInv(NewFnCtx(BodyParams))
<1> DEFINE N == Len(BodyParams)
           Is(g, m) == g = [k \in 0 .. m |-> IF k = 0 THEN EmptyFnCtx
                                             ELSE DeclareVariable(g[k - 1], BodyParams[k])]
           S == {m \in 0 .. N : \E g : Is(g, m)}
           c == CHOOSE g : Is(g, N)
<1>1. N \in Nat /\ \A k \in 1 .. N : BodyParams[k] \in BodyNames
  BY ParamsAssumption
<1> HIDE DEF N
<1>2. 0 \in S
  <2>1. Is([k \in 0 .. 0 |-> EmptyFnCtx], 0)
    <3>1. \A k \in 0 .. 0 : k = 0
      OBVIOUS
    <3> QED
      BY <3>1
  <2> HIDE DEF Is
  <2> QED
    BY <1>1, <2>1
<1>3. ASSUME NEW m \in 1 .. N, m - 1 \in S PROVE m \in S
  <2>1. PICK g : Is(g, m - 1)
    BY <1>3
  <2> DEFINE h == [k \in 0 .. m |-> IF k = m THEN DeclareVariable(g[m - 1], BodyParams[m])
                                    ELSE g[k]]
  <2>2. m \in Nat /\ m - 1 \in Nat /\ 0 \in 0 .. m - 1
    BY <1>1
  <2>3. \A k \in 0 .. m - 1 :
          /\ g[k] = IF k = 0 THEN EmptyFnCtx ELSE DeclareVariable(g[k - 1], BodyParams[k])
          /\ h[k] = g[k]
    BY <2>1, <2>2
  <2>4. ASSUME NEW k \in 0 .. m
        PROVE  h[k] = IF k = 0 THEN EmptyFnCtx ELSE DeclareVariable(h[k - 1], BodyParams[k])
    <3>1. CASE k = m
      <4>1. h[k] = DeclareVariable(g[m - 1], BodyParams[m]) /\ h[m - 1] = g[m - 1] /\ k # 0
        BY <2>2, <2>3, <3>1
      <4> HIDE DEF h
      <4> QED
        BY <3>1, <4>1
    <3>2. CASE k = 0
      BY <2>2, <2>3, <3>2
    <3>3. CASE k \in 1 .. m - 1
      <4>1. k \in 0 .. m - 1 /\ k - 1 \in 0 .. m - 1 /\ k # 0
        BY <2>2, <3>3
      <4>2. h[k] = g[k] /\ h[k - 1] = g[k - 1]
        BY <2>3, <4>1
      <4> HIDE DEF h
      <4> QED
        BY <2>3, <4>1, <4>2
    <3> QED
      BY <2>2, <3>1, <3>2, <3>3
  <2>5. h = [k \in 0 .. m |-> h[k]]
    OBVIOUS
  <2> HIDE DEF h
  <2>6. Is(h, m)
    BY <2>4, <2>5
  <2> HIDE DEF Is
  <2> QED
    BY <1>1, <2>6
<1>4. N \in S
  <2> HIDE DEF S
  <2> QED
    BY <1>1, <1>2, <1>3, IntervalInduction
<1>5. Is(c, N)
  <2> HIDE DEF Is
  <2> QED
    BY <1>4
<1>6. NewFnCtx(BodyParams) = c[N]
  BY DEF NewFnCtx, N
<1> HIDE DEF c
<1>7. /\ c[0] = EmptyFnCtx
      /\ \A k \in 1 .. N : c[k] = DeclareVariable(c[k - 1], BodyParams[k])
  BY <1>1, <1>5
<1> DEFINE T == {k \in 0 .. N : CtxInv(c[k])}
<1>8. 0 \in T
  BY <1>1, <1>7, EmptyInv
<1>9. ASSUME NEW k \in 1 .. N, k - 1 \in T PROVE k \in T
  BY <1>1, <1>7, <1>9, DeclareInv
<1>10. N \in T
  <2> HIDE DEF T
  <2> QED
    BY <1>1, <1>8, <1>9, IntervalInduction
<1> QED
  BY <1>6, <1>10

-----------------------------------------------------------------------------
(* The inductive invariant, and the theorems. *)

BodyInv == InBody => CtxInv(fnctx)

\* What is known of the context of a function holds from its beginning on and
\* through every step of its body.
THEOREM BodyInvariance == BodySpec => []BodyInv
<1>1. fnctx = NotYet => BodyInv
  BY DEF BodyInv, InBody
<1>2. BodyInv /\ [BodyNext]_fnctx => BodyInv'
  <2> SUFFICES ASSUME BodyInv, [BodyNext]_fnctx
               PROVE  BodyInv'
    OBVIOUS
  <2>1. CASE Enters
    BY <2>1, NewInv DEF Enters, BodyInv
  <2>2. CASE Leaves
    BY <2>2 DEF Leaves, BodyInv, InBody
  <2>3. CASE WriteOpen
    BY <2>3, OpenInv DEF WriteOpen, BodyInv
  <2>4. CASE WriteClose
    BY <2>4, CloseInv DEF WriteClose, BodyInv
  <2>5. ASSUME NEW known \in SUBSET BodyNames, WriteLet(known)
        PROVE  BodyInv'
    <3>1. PICK n \in BodyNames :
            \/ fnctx' = DeclareVariable(fnctx, n)
            \/ \E from \in BodyNames : fnctx' = ResolveVarDecl(fnctx, n, from, from \in known)
      BY <2>5 DEF WriteLet
    <3>2. CtxInv(DeclareVariable(fnctx, n))
      BY <2>5, DeclareInv DEF WriteLet, BodyInv
    <3>3. ASSUME NEW from \in BodyNames
          PROVE  CtxInv(ResolveVarDecl(fnctx, n, from, from \in known))
      <4>1. (from \in known) \in BOOLEAN
        OBVIOUS
      <4> QED
        BY <3>2, <4>1, UseInv DEF ResolveVarDecl
    <3> QED
      BY <3>1, <3>2, <3>3 DEF BodyInv
  <2>6. ASSUME NEW known \in SUBSET BodyNames, WriteUse(known)
        PROVE  BodyInv'
    <3>1. PICK n \in BodyNames : fnctx' = ResolveName(fnctx, n, n \in known)
      BY <2>6 DEF WriteUse
    <3>2. (n \in known) \in BOOLEAN
      OBVIOUS
    <3>3. CtxInv(ResolveName(fnctx, n, n \in known))
      BY <2>6, <3>2, UseInv DEF WriteUse, BodyInv
    <3> QED
      BY <3>1, <3>3 DEF BodyInv
  <2>7. ASSUME NEW known \in SUBSET BodyNames, WritePattern(known)
        PROVE  BodyInv'
    BY <2>7, PatternInv DEF WritePattern, BodyInv
  <2>8. CASE UNCHANGED fnctx
    BY <2>8 DEF BodyInv, InBody
  <2> QED
    BY <2>1, <2>2, <2>3, <2>4, <2>5, <2>6, <2>7, <2>8 DEF BodyNext
<1> QED
  BY <1>1, <1>2, PTL DEF BodySpec

\* Whatever the body, a name in it is the latest declaration in the statement
\* blocks and arms that are open, only a second declaration in one block is
\* refused, and no two variables have one number.
THEOREM Lexicality == BodySpec => []VariablesAreLexical
<1>1. BodyInv => VariablesAreLexical
  BY DEF BodyInv, CtxInv, Lexical, VariablesAreLexical
<1> QED
  BY <1>1, BodyInvariance, PTL
=============================================================================
