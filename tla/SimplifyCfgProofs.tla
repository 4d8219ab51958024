------------------------- MODULE SimplifyCfgProofs --------------------------
(***************************************************************************)
(* Theorems about SimplifyCfg, for all bodies, inputs and limits: a body   *)
(* stays valid, it keeps its runs through every step, and nothing is left  *)
(* to do when the rounds end before the limit.                             *)
(*                                                                         *)
(* When two bodies have the same runs comes first: a simulation between    *)
(* their blocks is enough, in which one of the two may leave jumps out.    *)
(***************************************************************************)
EXTENDS SimplifyCfg, Induction, FiniteSetTheorems, SequenceTheorems

-----------------------------------------------------------------------------
(* Runs, block by block. *)

\* After takes the steps one by one.
LEMMA AfterSteps ==
  ASSUME NEW blocks, NEW c, NEW input, NEW n \in Nat
  PROVE  /\ After(blocks, c, input, 0) = c
         /\ After(blocks, c, input, n + 1) = Step(blocks, After(blocks, c, input, n), input)
<1> DEFINE IsRun(f, m) ==
             f = [k \in 0 .. m |-> IF k = 0 THEN c ELSE Step(blocks, f[k - 1], input)]
           run(m) == CHOOSE f : IsRun(f, m)
           S == {m \in Nat : \E f : IsRun(f, m)}
<1>1. 0 \in S
  <2>1. IsRun([k \in 0 .. 0 |-> c], 0)
    OBVIOUS
  <2> QED
    BY <2>1
<1>2. ASSUME NEW m \in Nat, m \in S PROVE m + 1 \in S
  <2>1. PICK f : IsRun(f, m)
    BY <1>2
  <2> DEFINE g == [k \in 0 .. m + 1 |-> IF k = m + 1 THEN Step(blocks, f[m], input) ELSE f[k]]
  <2>2. \A k \in 0 .. m : f[k] = IF k = 0 THEN c ELSE Step(blocks, f[k - 1], input)
    BY <2>1
  <2>3. ASSUME NEW k \in 0 .. m + 1
        PROVE  g[k] = IF k = 0 THEN c ELSE Step(blocks, g[k - 1], input)
    <3>1. CASE k = m + 1
      <4>1. k - 1 = m /\ k # 0 /\ k - 1 \in 0 .. m + 1 /\ m # m + 1
        BY <3>1
      <4> QED
        BY <3>1, <4>1
    <3>2. CASE k # m + 1
      <4>1. k \in 0 .. m /\ (k # 0 => k - 1 \in 0 .. m + 1 /\ k - 1 # m + 1)
        BY <3>2
      <4> QED
        BY <3>2, <4>1, <2>2
    <3> QED
      BY <3>1, <3>2
  <2>4. IsRun(g, m + 1)
    <3>1. g = [k \in 0 .. m + 1 |-> g[k]]
      OBVIOUS
    <3> HIDE DEF g
    <3>2. [k \in 0 .. m + 1 |-> g[k]]
            = [k \in 0 .. m + 1 |-> IF k = 0 THEN c ELSE Step(blocks, g[k - 1], input)]
      BY <2>3
    <3> QED
      BY <3>1, <3>2
  <2> HIDE DEF IsRun, g
  <2> QED
    BY <2>4
<1>3. Nat \subseteq S
  <2> HIDE DEF S
  <2> QED
    BY <1>1, <1>2, SetInduction
<1>4. ASSUME NEW m \in Nat PROVE IsRun(run(m), m)
  <2>1. \E f : IsRun(f, m)
    BY <1>3
  <2> HIDE DEF IsRun
  <2> QED
    BY <2>1
<1>5. ASSUME NEW m \in Nat PROVE After(blocks, c, input, m) = run(m)[m]
  BY DEF After
<1> HIDE DEF run
<1>6. run(0)[0] = c
  BY <1>4
<1>7. 0 .. n \subseteq {k \in 0 .. n : run(n + 1)[k] = run(n)[k]}
  <2> DEFINE T == {k \in 0 .. n : run(n + 1)[k] = run(n)[k]}
  <2>0. n + 1 \in Nat
    OBVIOUS
  <2>1. \A k \in 0 .. n : run(n)[k] = IF k = 0 THEN c ELSE Step(blocks, run(n)[k - 1], input)
    BY <1>4
  <2>2. \A k \in 0 .. n + 1 : run(n + 1)[k] = IF k = 0 THEN c ELSE Step(blocks, run(n + 1)[k - 1], input)
    BY <1>4, <2>0
  <2>3. 0 \in T
    BY <2>1, <2>2
  <2>4. ASSUME NEW k \in 1 .. n, k - 1 \in T PROVE k \in T
    BY <2>1, <2>2, <2>4
  <2> HIDE DEF T
  <2>5. 0 .. n \subseteq T
    BY <2>3, <2>4, IntervalInduction
  <2> QED
    BY <2>5 DEF T
<1>8. run(n + 1)[n + 1] = Step(blocks, run(n + 1)[n], input)
  <2>1. n + 1 \in Nat /\ n + 1 \in 0 .. n + 1 /\ n + 1 # 0 /\ (n + 1) - 1 = n
    OBVIOUS
  <2> QED
    BY <1>4, <2>1
<1>9. run(n + 1)[n] = run(n)[n]
  BY <1>7
<1> QED
  BY <1>5, <1>6, <1>8, <1>9

\* The first step may be taken on its own.
LEMMA AfterFirst ==
  ASSUME NEW blocks, NEW c, NEW input, NEW n \in Nat
  PROVE  After(blocks, c, input, n + 1) = After(blocks, Step(blocks, c, input), input, n)
<1> DEFINE S == {m \in Nat : After(blocks, c, input, m + 1)
                               = After(blocks, Step(blocks, c, input), input, m)}
<1>1. 0 \in S
  <2>1. 0 \in Nat /\ 0 + 1 = 1
    OBVIOUS
  <2>2. /\ After(blocks, c, input, 0) = c
        /\ After(blocks, c, input, 0 + 1) = Step(blocks, After(blocks, c, input, 0), input)
    BY <2>1, AfterSteps
  <2>3. After(blocks, Step(blocks, c, input), input, 0) = Step(blocks, c, input)
    BY <2>1, AfterSteps
  <2> QED
    BY <2>1, <2>2, <2>3
<1>2. ASSUME NEW m \in Nat, m \in S PROVE m + 1 \in S
  <2> DEFINE d == Step(blocks, c, input)
  <2>1. After(blocks, c, input, m + 1) = After(blocks, d, input, m)
    BY <1>2
  <2>2. m + 1 \in Nat
    OBVIOUS
  <2>3. After(blocks, c, input, (m + 1) + 1) = Step(blocks, After(blocks, c, input, m + 1), input)
    BY <2>2, AfterSteps
  <2> HIDE DEF d
  <2>4. After(blocks, d, input, m + 1) = Step(blocks, After(blocks, d, input, m), input)
    BY AfterSteps
  <2>5. After(blocks, c, input, (m + 1) + 1) = After(blocks, d, input, m + 1)
    BY <2>1, <2>3, <2>4
  <2> QED
    BY <2>2, <2>5 DEF d
<1>3. Nat \subseteq S
  <2> HIDE DEF S
  <2> QED
    BY <1>1, <1>2, SetInduction
<1> QED
  BY <1>3

\* A run that has ended stays as it is.
LEMMA EndedStays ==
  ASSUME NEW blocks, NEW c, NEW input, NEW n \in Nat, NEW k \in Nat,
         ~Going(After(blocks, c, input, n).s)
  PROVE  After(blocks, c, input, n + k) = After(blocks, c, input, n)
<1> DEFINE S == {m \in Nat : After(blocks, c, input, n + m) = After(blocks, c, input, n)}
<1>1. 0 \in S
  OBVIOUS
<1>2. ASSUME NEW m \in Nat, m \in S PROVE m + 1 \in S
  <2>1. n + m \in Nat /\ n + (m + 1) = (n + m) + 1
    OBVIOUS
  <2>2. After(blocks, c, input, (n + m) + 1)
          = Step(blocks, After(blocks, c, input, n + m), input)
    BY <2>1, AfterSteps
  <2>3. After(blocks, c, input, n + m) = After(blocks, c, input, n)
    BY <1>2
  <2>4. After(blocks, c, input, n + (m + 1)) = After(blocks, c, input, n)
    BY <2>1, <2>2, <2>3 DEF Step
  <2> QED
    BY <2>4
<1>3. Nat \subseteq S
  <2> HIDE DEF S
  <2> QED
    BY <1>1, <1>2, SetInduction
<1> QED
  BY <1>3

\* A run that has ended before it begins.
LEMMA EndedAtOnce ==
  ASSUME NEW blocks, NEW c, NEW input, NEW n \in Nat, ~Going(c.s)
  PROVE  After(blocks, c, input, n) = c
<1>1. After(blocks, c, input, 0) = c /\ 0 + n = n /\ 0 \in Nat
  BY AfterSteps
<1> QED
  BY <1>1, EndedStays

\* The record that a run works on.
IsState(s) == s = [trace |-> s.trace, end |-> s.end, env |-> s.env]

\* A block leaves a state.
LEMMA BlockState ==
  ASSUME NEW block, NEW s, NEW input, IsState(s)
  PROVE  IsState(RunBlock(block, s, input))
<1> DEFINE d == [s EXCEPT !.env = RunStmts(block.stmts, @)]
           v == ReadAll(block.term.args, d.env)
           r == CallResult(d, v, input)
<1>1. IsState(d)
  BY DEF IsState
<1>2. IsState(r.s)
  <2> HIDE DEF d, v
  <2> QED
    BY <1>1 DEF CallResult, IsState
<1>3. RunBlock(block, s, input) =
        IF block.term.kind # "call" THEN d
        ELSE IF Going(r.s) THEN [r.s EXCEPT !.env = Write(@, block.term.dest, r.v)] ELSE r.s
  BY DEF RunBlock
<1> HIDE DEF d, r
<1>4. IsState([r.s EXCEPT !.env = Write(@, block.term.dest, r.v)])
  BY <1>2 DEF IsState
<1> QED
  BY <1>1, <1>2, <1>3, <1>4

\* A step leaves a configuration.
LEMMA StepState ==
  ASSUME NEW blocks, NEW c, NEW input, IsState(c.s), Going(c.s)
  PROVE  LET d == Step(blocks, c, input)
         IN IsState(d.s) /\ d = [at |-> d.at, s |-> d.s]
<1> DEFINE e == RunBlock(blocks[c.at], c.s, input)
           kind == blocks[c.at].term.kind
<1>1. IsState(e)
  BY BlockState
<1>2. \A w : IsState([e EXCEPT !.end = w])
  <2> HIDE DEF e
  <2> QED
    BY <1>1 DEF IsState
<1> HIDE DEF e
<1>3. CASE ~Going(e)
  BY <1>1, <1>3 DEF Step, e
<1>4. CASE Going(e) /\ kind \in {"goto", "call"}
  BY <1>1, <1>4 DEF Step, e
<1>5. CASE Going(e) /\ kind = "switch"
  BY <1>1, <1>5 DEF Step, e
<1>6. CASE Going(e) /\ kind = "return"
  BY <1>2, <1>6 DEF Step, e
<1>7. CASE Going(e) /\ kind \notin {"goto", "call", "switch", "return"}
  BY <1>2, <1>7 DEF Step, e
<1> QED
  BY <1>3, <1>4, <1>5, <1>6, <1>7

-----------------------------------------------------------------------------
(* Two bodies side by side. *)

\* c has just been done in the one body and d in the other: they are alike.
Alike(K, c, d) ==
  /\ c.s = d.s
  /\ Going(c.s) => \E k \in Nat : <<c.at, d.at, k>> \in K

\* Whenever <<x, y, k>> is in K, block x of A and block y of B do the same, from
\* any state: B may leave out a jump, before it and after it, though not for ever:
\* k says how many jumps in a row it may leave out.
Simulates(A, B, K, input) ==
  /\ K \subseteq Nat \X Nat \X Nat
  /\ \A x, y, k \in Nat : <<x, y, k>> \in K =>
       \A s : IsState(s) /\ Going(s) =>
         LET one == Step(A, [at |-> x, s |-> s], input)
             two == Step(A, one, input)
             new == Step(B, [at |-> y, s |-> s], input)
         IN \/ Alike(K, one, new)
            \/ Going(one.s) /\ Alike(K, two, new)
            \/ k > 0 /\ \E z \in Nat : one = [at |-> z, s |-> s] /\ <<z, y, k - 1>> \in K

\* A run of A from x that ends within n blocks ends alike in B from y, and within
\* n blocks as well.
LEMMA RunsForward ==
  ASSUME NEW A, NEW B, NEW K, NEW input, Simulates(A, B, K, input),
         NEW n \in Nat, NEW x \in Nat, NEW y \in Nat, NEW k \in Nat, <<x, y, k>> \in K,
         NEW s, IsState(s),
         ~Going(After(A, [at |-> x, s |-> s], input, n).s)
  PROVE  After(B, [at |-> y, s |-> s], input, n).s = After(A, [at |-> x, s |-> s], input, n).s
<1> DEFINE Old(z, t, m) == After(A, [at |-> z, s |-> t], input, m)
           New(z, t, m) == After(B, [at |-> z, s |-> t], input, m)
           Kept(m) == \A u, v, j \in Nat : \A t :
                        <<u, v, j>> \in K /\ IsState(t) /\ ~Going(Old(u, t, m).s)
                          => New(v, t, m).s = Old(u, t, m).s
           S == {m \in Nat : \A i \in 0 .. m : Kept(i)}
<1>1. ASSUME NEW m \in Nat, \A i \in 0 .. m - 1 : Kept(i) PROVE Kept(m)
  <2> SUFFICES ASSUME NEW u \in Nat, NEW v \in Nat, NEW j \in Nat, NEW t,
                      <<u, v, j>> \in K, IsState(t), ~Going(Old(u, t, m).s)
               PROVE  New(v, t, m).s = Old(u, t, m).s
    OBVIOUS
  <2> DEFINE one == Step(A, [at |-> u, s |-> t], input)
             two == Step(A, one, input)
             new == Step(B, [at |-> v, s |-> t], input)
  <2>1. CASE ~Going(t)
    <3>1. Old(u, t, m) = [at |-> u, s |-> t] /\ New(v, t, m) = [at |-> v, s |-> t]
      BY <2>1, EndedAtOnce
    <3> QED
      BY <3>1
  <2>2. CASE Going(t)
    <3>1. m # 0
      <4>1. Old(u, t, 0) = [at |-> u, s |-> t]
        BY AfterSteps
      <4> QED
        BY <4>1, <2>2
    <3>2. m - 1 \in Nat /\ m = (m - 1) + 1 /\ m - 1 \in 0 .. m - 1
      BY <3>1
    <3>3. Old(u, t, m) = After(A, one, input, m - 1) /\ New(v, t, m) = After(B, new, input, m - 1)
      BY <3>2, AfterFirst
    <3>4. /\ IsState(one.s) /\ one = [at |-> one.at, s |-> one.s]
          /\ IsState(new.s) /\ new = [at |-> new.at, s |-> new.s]
      BY <2>2, StepState
    <3>5. Going(one.s) => IsState(two.s) /\ two = [at |-> two.at, s |-> two.s]
      BY <3>4, StepState
    <3>6. K \subseteq Nat \X Nat \X Nat
      BY DEF Simulates
    <3>7. \/ Alike(K, one, new)
          \/ Going(one.s) /\ Alike(K, two, new)
          \/ j > 0 /\ \E z \in Nat : one = [at |-> z, s |-> t] /\ <<z, v, j - 1>> \in K
      BY <2>2 DEF Simulates
    <3> HIDE DEF one, two, new
    <3>8. CASE Alike(K, one, new)
      <4>1. CASE ~Going(one.s)
        <5>1. After(A, one, input, m - 1) = one /\ After(B, new, input, m - 1) = new
          BY <3>2, <3>8, <4>1, EndedAtOnce DEF Alike
        <5> QED
          BY <3>3, <3>8, <5>1 DEF Alike
      <4>2. CASE Going(one.s)
        <5>1. PICK i \in Nat : <<one.at, new.at, i>> \in K
          BY <3>8, <4>2 DEF Alike
        <5>2. one.at \in Nat /\ new.at \in Nat
          BY <3>6, <5>1
        <5>3. one = [at |-> one.at, s |-> one.s] /\ new = [at |-> new.at, s |-> one.s]
          BY <3>4, <3>8 DEF Alike
        <5>4. New(new.at, one.s, m - 1).s = Old(one.at, one.s, m - 1).s
          BY <1>1, <3>2, <3>3, <3>4, <5>1, <5>2, <5>3
        <5> QED
          BY <3>3, <5>3, <5>4
      <4> QED
        BY <4>1, <4>2
    <3>9. CASE Going(one.s) /\ Alike(K, two, new)
      <4>1. m - 1 # 0
        <5>1. After(A, one, input, 0) = one
          BY AfterSteps
        <5> QED
          BY <3>3, <3>9, <5>1
      <4>2. m - 2 \in Nat /\ m - 1 = (m - 2) + 1 /\ m - 2 \in 0 .. m - 1 /\ m - 1 = m - 2 + 1
        BY <3>2, <4>1
      <4>3. After(A, one, input, m - 1) = After(A, two, input, m - 2)
        BY <4>2, AfterFirst DEF two
      <4>4. After(B, new, input, m - 2).s = After(A, two, input, m - 2).s
        <5>1. CASE ~Going(two.s)
          <6>1. After(A, two, input, m - 2) = two /\ After(B, new, input, m - 2) = new
            BY <4>2, <3>9, <5>1, EndedAtOnce DEF Alike
          <6> QED
            BY <3>9, <6>1 DEF Alike
        <5>2. CASE Going(two.s)
          <6>1. PICK i \in Nat : <<two.at, new.at, i>> \in K
            BY <3>9, <5>2 DEF Alike
          <6>2. two.at \in Nat /\ new.at \in Nat
            BY <3>6, <6>1
          <6>3. two = [at |-> two.at, s |-> two.s] /\ new = [at |-> new.at, s |-> two.s]
            BY <3>4, <3>5, <3>9 DEF Alike
          <6>4. New(new.at, two.s, m - 2).s = Old(two.at, two.s, m - 2).s
            BY <1>1, <4>2, <3>3, <3>5, <3>9, <4>3, <6>1, <6>2, <6>3
          <6> QED
            BY <6>3, <6>4
        <5> QED
          BY <5>1, <5>2
      <4>5. ~Going(After(B, new, input, m - 2).s)
        BY <3>3, <4>3, <4>4
      <4>6. After(B, new, input, (m - 2) + 1) = After(B, new, input, m - 2)
        BY <4>2, <4>5, EndedStays
      <4> QED
        BY <3>3, <4>2, <4>3, <4>4, <4>6
    <3>10. CASE j > 0 /\ \E z \in Nat : one = [at |-> z, s |-> t] /\ <<z, v, j - 1>> \in K
      <4>1. PICK z \in Nat : one = [at |-> z, s |-> t] /\ <<z, v, j - 1>> \in K
        BY <3>10
      <4>2. j - 1 \in Nat
        BY <3>10
      <4>3. New(v, t, m - 1).s = Old(z, t, m - 1).s
        BY <1>1, <3>2, <3>3, <4>1, <4>2
      <4>4. ~Going(New(v, t, m - 1).s)
        BY <3>3, <4>1, <4>3
      <4>5. New(v, t, (m - 1) + 1) = New(v, t, m - 1)
        BY <3>2, <4>4, EndedStays
      <4> QED
        BY <3>2, <3>3, <4>1, <4>3, <4>5
    <3> QED
      BY <3>7, <3>8, <3>9, <3>10
  <2> QED
    BY <2>1, <2>2
<1> HIDE DEF Kept
<1>2. 0 \in S
  BY <1>1
<1>3. ASSUME NEW m \in Nat, m \in S PROVE m + 1 \in S
  BY <1>1, <1>3
<1>4. Nat \subseteq S
  <2> HIDE DEF S
  <2> QED
    BY <1>2, <1>3, SetInduction
<1>5. Kept(n)
  BY <1>4
<1> QED
  BY <1>5 DEF Kept

\* A run of B that ends, ends alike in A, sooner or later.
LEMMA RunsBackward ==
  ASSUME NEW A, NEW B, NEW K, NEW input, Simulates(A, B, K, input),
         NEW n \in Nat, NEW x \in Nat, NEW y \in Nat, NEW k \in Nat, <<x, y, k>> \in K,
         NEW s, IsState(s),
         ~Going(After(B, [at |-> y, s |-> s], input, n).s)
  PROVE  \E m \in Nat : After(A, [at |-> x, s |-> s], input, m).s
                          = After(B, [at |-> y, s |-> s], input, n).s
<1> DEFINE Old(z, t, m) == After(A, [at |-> z, s |-> t], input, m)
           New(z, t, m) == After(B, [at |-> z, s |-> t], input, m)
           From(m, j) == \A u, v \in Nat : \A t :
                           <<u, v, j>> \in K /\ IsState(t) /\ ~Going(New(v, t, m).s)
                             => \E i \in Nat : Old(u, t, i).s = New(v, t, m).s
           S == {m \in Nat : \A j \in Nat : From(m, j)}
<1>1. ASSUME NEW m \in Nat, NEW j \in Nat,
             m > 0 => \A i \in Nat : From(m - 1, i),
             j > 0 => From(m, j - 1)
      PROVE  From(m, j)
  <2> SUFFICES ASSUME NEW u \in Nat, NEW v \in Nat, NEW t,
                      <<u, v, j>> \in K, IsState(t), ~Going(New(v, t, m).s)
               PROVE  \E i \in Nat : Old(u, t, i).s = New(v, t, m).s
    OBVIOUS
  <2> DEFINE one == Step(A, [at |-> u, s |-> t], input)
             two == Step(A, one, input)
             new == Step(B, [at |-> v, s |-> t], input)
  <2>1. CASE ~Going(t)
    <3>1. Old(u, t, 0) = [at |-> u, s |-> t] /\ New(v, t, m) = [at |-> v, s |-> t]
      BY <2>1, EndedAtOnce
    <3> QED
      BY <3>1
  <2>2. CASE Going(t)
    <3>1. m # 0
      <4>1. New(v, t, 0) = [at |-> v, s |-> t]
        BY AfterSteps
      <4> QED
        BY <4>1, <2>2
    <3>2. m - 1 \in Nat /\ m = (m - 1) + 1 /\ m > 0
      BY <3>1
    <3>3. New(v, t, m) = After(B, new, input, m - 1)
      BY <3>2, AfterFirst
    <3>4. \A i \in Nat : Old(u, t, i + 1) = After(A, one, input, i)
      BY AfterFirst
    <3>5. \A i \in Nat : After(A, one, input, i + 1) = After(A, two, input, i)
      BY AfterFirst
    <3>6. /\ IsState(one.s) /\ one = [at |-> one.at, s |-> one.s]
          /\ IsState(new.s) /\ new = [at |-> new.at, s |-> new.s]
      BY <2>2, StepState
    <3>7. Going(one.s) => IsState(two.s) /\ two = [at |-> two.at, s |-> two.s]
      BY <3>6, StepState
    <3>8. K \subseteq Nat \X Nat \X Nat
      BY DEF Simulates
    <3>9. \/ Alike(K, one, new)
          \/ Going(one.s) /\ Alike(K, two, new)
          \/ j > 0 /\ \E z \in Nat : one = [at |-> z, s |-> t] /\ <<z, v, j - 1>> \in K
      BY <2>2 DEF Simulates
    <3> HIDE DEF one, two, new
    <3>10. ASSUME NEW c, IsState(c.s), c = [at |-> c.at, s |-> c.s], Alike(K, c, new)
           PROVE  \E i \in Nat : After(A, c, input, i).s = After(B, new, input, m - 1).s
      <4>1. CASE ~Going(c.s)
        <5>1. After(A, c, input, 0) = c /\ After(B, new, input, m - 1) = new
          BY <3>2, <3>10, <4>1, EndedAtOnce DEF Alike
        <5> QED
          BY <3>10, <5>1 DEF Alike
      <4>2. CASE Going(c.s)
        <5>1. PICK i \in Nat : <<c.at, new.at, i>> \in K
          BY <3>10, <4>2 DEF Alike
        <5>2. c.at \in Nat /\ new.at \in Nat
          BY <3>8, <5>1
        <5>3. new = [at |-> new.at, s |-> c.s]
          BY <3>6, <3>10 DEF Alike
        <5>4. \E q \in Nat : Old(c.at, c.s, q).s = New(new.at, c.s, m - 1).s
          BY <1>1, <3>2, <3>3, <3>10, <5>1, <5>2, <5>3
        <5> QED
          BY <3>10, <5>3, <5>4
      <4> QED
        BY <4>1, <4>2
    <3>11. CASE Alike(K, one, new)
      <4>1. PICK i \in Nat : After(A, one, input, i).s = After(B, new, input, m - 1).s
        BY <3>6, <3>10, <3>11
      <4>2. i + 1 \in Nat
        OBVIOUS
      <4> QED
        BY <3>3, <3>4, <4>1, <4>2
    <3>12. CASE Going(one.s) /\ Alike(K, two, new)
      <4>1. PICK i \in Nat : After(A, two, input, i).s = After(B, new, input, m - 1).s
        BY <3>7, <3>10, <3>12
      <4>2. i + 1 \in Nat /\ (i + 1) + 1 \in Nat
        OBVIOUS
      <4>3. Old(u, t, (i + 1) + 1) = After(A, two, input, i)
        BY <3>4, <3>5, <4>2
      <4> QED
        BY <3>3, <4>1, <4>2, <4>3
    <3>13. CASE j > 0 /\ \E z \in Nat : one = [at |-> z, s |-> t] /\ <<z, v, j - 1>> \in K
      <4>1. PICK z \in Nat : one = [at |-> z, s |-> t] /\ <<z, v, j - 1>> \in K
        BY <3>13
      <4>2. PICK i \in Nat : Old(z, t, i).s = New(v, t, m).s
        BY <1>1, <3>13, <4>1
      <4>3. i + 1 \in Nat
        OBVIOUS
      <4> QED
        BY <3>4, <4>1, <4>2, <4>3
    <3> QED
      BY <3>9, <3>11, <3>12, <3>13
  <2> QED
    BY <2>1, <2>2
<1>2. ASSUME NEW m \in Nat, m > 0 => \A i \in Nat : From(m - 1, i)
      PROVE  \A j \in Nat : From(m, j)
  <2> DEFINE T == {j \in Nat : From(m, j)}
  <2> HIDE DEF From
  <2>1. 0 \in T
    BY <1>1, <1>2
  <2>2. ASSUME NEW j \in Nat, j \in T PROVE j + 1 \in T
    <3>1. j + 1 \in Nat /\ (j + 1) - 1 = j
      OBVIOUS
    <3>2. From(m, j)
      BY <2>2
    <3> QED
      BY <1>1, <1>2, <3>1, <3>2
  <2>3. Nat \subseteq T
    <3> HIDE DEF T
    <3> QED
      BY <2>1, <2>2, SetInduction
  <2> QED
    BY <2>3
<1> HIDE DEF From
<1>3. 0 \in S
  BY <1>2
<1>4. ASSUME NEW m \in Nat, m \in S PROVE m + 1 \in S
  <2>1. m + 1 \in Nat /\ (m + 1) - 1 = m
    OBVIOUS
  <2>2. \A i \in Nat : From(m, i)
    BY <1>4
  <2> QED
    BY <1>2, <2>1, <2>2
<1>5. Nat \subseteq S
  <2> HIDE DEF S
  <2> QED
    BY <1>3, <1>4, SetInduction
<1>6. From(n, k)
  BY <1>5
<1> QED
  BY <1>6 DEF From

-----------------------------------------------------------------------------
(* Bodies of the same runs. *)

\* A run that ends in A ends in B, within as many blocks, in the same state; and
\* one that ends in B ends in A.
SameRuns(A, B) ==
  \A input, s : IsState(s) =>
    LET Old(n) == After(A, [at |-> START, s |-> s], input, n).s
        New(n) == After(B, [at |-> START, s |-> s], input, n).s
    IN /\ \A n \in Nat : ~Going(Old(n)) => New(n) = Old(n)
       /\ \A n \in Nat : ~Going(New(n)) => \E m \in Nat : Old(m) = New(n)

\* SameRuns is reflexive ...
LEMMA SameRunsSame ==
  ASSUME NEW A
  PROVE  SameRuns(A, A)
BY DEF SameRuns

\* ... and transitive.
LEMMA SameRunsThrough ==
  ASSUME NEW A, NEW B, NEW C, SameRuns(A, B), SameRuns(B, C)
  PROVE  SameRuns(A, C)
<1> SUFFICES ASSUME NEW input, NEW s, IsState(s)
             PROVE  LET Old(n) == After(A, [at |-> START, s |-> s], input, n).s
                        New(n) == After(C, [at |-> START, s |-> s], input, n).s
                    IN /\ \A n \in Nat : ~Going(Old(n)) => New(n) = Old(n)
                       /\ \A n \in Nat : ~Going(New(n)) => \E m \in Nat : Old(m) = New(n)
  BY DEF SameRuns
<1> DEFINE a(n) == After(A, [at |-> START, s |-> s], input, n).s
           b(n) == After(B, [at |-> START, s |-> s], input, n).s
           c(n) == After(C, [at |-> START, s |-> s], input, n).s
<1>1. /\ \A n \in Nat : ~Going(a(n)) => b(n) = a(n)
      /\ \A n \in Nat : ~Going(b(n)) => \E m \in Nat : a(m) = b(n)
  BY DEF SameRuns
<1>2. /\ \A n \in Nat : ~Going(b(n)) => c(n) = b(n)
      /\ \A n \in Nat : ~Going(c(n)) => \E m \in Nat : b(m) = c(n)
  BY DEF SameRuns
<1> SUFFICES /\ \A n \in Nat : ~Going(a(n)) => c(n) = a(n)
             /\ \A n \in Nat : ~Going(c(n)) => \E m \in Nat : a(m) = c(n)
  OBVIOUS
<1> HIDE DEF a, b, c
<1>3. \A n \in Nat : ~Going(a(n)) => c(n) = a(n)
  BY <1>1, <1>2
<1>4. ASSUME NEW n \in Nat, ~Going(c(n)) PROVE \E m \in Nat : a(m) = c(n)
  <2>1. PICK m \in Nat : b(m) = c(n)
    BY <1>2, <1>4
  <2>2. \E i \in Nat : a(i) = b(m)
    BY <1>1, <1>4, <2>1
  <2> QED
    BY <2>1, <2>2
<1> QED
  BY <1>3, <1>4

\* A simulation that begins at bb0 gives the same runs.
LEMMA SimulationGivesRuns ==
  ASSUME NEW A, NEW B, NEW K, NEW k \in Nat, <<START, START, k>> \in K,
         \A input : Simulates(A, B, K, input)
  PROVE  SameRuns(A, B)
<1> SUFFICES ASSUME NEW input, NEW s, IsState(s)
             PROVE  LET Old(n) == After(A, [at |-> START, s |-> s], input, n).s
                        New(n) == After(B, [at |-> START, s |-> s], input, n).s
                    IN /\ \A n \in Nat : ~Going(Old(n)) => New(n) = Old(n)
                       /\ \A n \in Nat : ~Going(New(n)) => \E m \in Nat : Old(m) = New(n)
  BY DEF SameRuns
<1>1. START \in Nat
  BY DEF START
<1>2. ASSUME NEW n \in Nat, ~Going(After(A, [at |-> START, s |-> s], input, n).s)
      PROVE  After(B, [at |-> START, s |-> s], input, n).s
               = After(A, [at |-> START, s |-> s], input, n).s
  BY <1>1, <1>2, RunsForward
<1>3. ASSUME NEW n \in Nat, ~Going(After(B, [at |-> START, s |-> s], input, n).s)
      PROVE  \E m \in Nat : After(A, [at |-> START, s |-> s], input, m).s
                              = After(B, [at |-> START, s |-> s], input, n).s
  BY <1>1, <1>3, RunsBackward
<1> QED
  BY <1>2, <1>3

-----------------------------------------------------------------------------
(* Statements. *)

\* The environments on the way through a sequence of statements.
Passes(f, stmts, env) ==
  f = [n \in 0 .. Len(stmts) |-> IF n = 0 THEN env ELSE RunStmt(f[n - 1], stmts[n])]

\* RunStmts follows such a function.
LEMMA PassesThrough ==
  ASSUME NEW stmts, Len(stmts) \in Nat, NEW env
  PROVE  \E f : Passes(f, stmts, env) /\ RunStmts(stmts, env) = f[Len(stmts)]
<1> DEFINE Upto(f, m) ==
             f = [n \in 0 .. m |-> IF n = 0 THEN env ELSE RunStmt(f[n - 1], stmts[n])]
           S == {m \in Nat : \E f : Upto(f, m)}
<1>1. 0 \in S
  <2>1. Upto([n \in 0 .. 0 |-> env], 0)
    OBVIOUS
  <2> QED
    BY <2>1
<1>2. ASSUME NEW m \in Nat, m \in S PROVE m + 1 \in S
  <2>1. PICK f : Upto(f, m)
    BY <1>2
  <2> DEFINE g == [n \in 0 .. m + 1 |->
                     IF n = m + 1 THEN RunStmt(f[m], stmts[m + 1]) ELSE f[n]]
  <2>2. \A n \in 0 .. m : f[n] = IF n = 0 THEN env ELSE RunStmt(f[n - 1], stmts[n])
    BY <2>1
  <2>3. ASSUME NEW n \in 0 .. m + 1
        PROVE  g[n] = IF n = 0 THEN env ELSE RunStmt(g[n - 1], stmts[n])
    <3>1. CASE n = m + 1
      <4>1. n - 1 = m /\ n # 0 /\ n - 1 \in 0 .. m + 1 /\ m # m + 1
        BY <3>1
      <4> QED
        BY <3>1, <4>1
    <3>2. CASE n # m + 1
      <4>1. n \in 0 .. m /\ (n # 0 => n - 1 \in 0 .. m + 1 /\ n - 1 # m + 1)
        BY <3>2
      <4> QED
        BY <3>2, <4>1, <2>2
    <3> QED
      BY <3>1, <3>2
  <2>4. Upto(g, m + 1)
    <3>1. g = [n \in 0 .. m + 1 |-> g[n]]
      OBVIOUS
    <3> HIDE DEF g
    <3>2. [n \in 0 .. m + 1 |-> g[n]]
            = [n \in 0 .. m + 1 |-> IF n = 0 THEN env ELSE RunStmt(g[n - 1], stmts[n])]
      BY <2>3
    <3> QED
      BY <3>1, <3>2
  <2> HIDE DEF Upto, g
  <2> QED
    BY <2>4
<1>3. Nat \subseteq S
  <2> HIDE DEF S
  <2> QED
    BY <1>1, <1>2, SetInduction
<1>4. \E f : Passes(f, stmts, env)
  BY <1>3 DEF Passes
<1> DEFINE after == CHOOSE f : Passes(f, stmts, env)
<1>5. RunStmts(stmts, env) = after[Len(stmts)]
  BY DEF RunStmts, Passes
<1> QED
  BY <1>4, <1>5

\* No statements change nothing.
LEMMA NoStatements ==
  ASSUME NEW env
  PROVE  RunStmts(<<>>, env) = env
<1>1. Len(<<>>) = 0
  OBVIOUS
<1>2. PICK f : Passes(f, <<>>, env) /\ RunStmts(<<>>, env) = f[0]
  BY <1>1, PassesThrough
<1> QED
  BY <1>1, <1>2 DEF Passes

\* Two sequences joined do what they do in turn.
LEMMA StatementsInTurn ==
  ASSUME NEW X, NEW Y, NEW first \in Seq(X), NEW second \in Seq(Y), NEW env
  PROVE  RunStmts(first \o second, env) = RunStmts(second, RunStmts(first, env))
<1> DEFINE all == first \o second
           p == Len(first)
           q == Len(second)
<1>1. /\ p \in Nat /\ q \in Nat /\ Len(all) = p + q /\ Len(all) \in Nat
      /\ \A n \in 1 .. p : all[n] = first[n]
      /\ \A n \in 1 .. q : all[p + n] = second[n]
  OBVIOUS
<1>2. PICK f : Passes(f, first, env) /\ RunStmts(first, env) = f[p]
  BY <1>1, PassesThrough
<1>3. PICK g : Passes(g, second, f[p]) /\ RunStmts(second, f[p]) = g[q]
  BY <1>1, PassesThrough
<1>4. PICK h : Passes(h, all, env) /\ RunStmts(all, env) = h[p + q]
  <2> HIDE DEF all, p, q
  <2> QED
    BY <1>1, PassesThrough
<1>5. /\ \A n \in 0 .. p : f[n] = IF n = 0 THEN env ELSE RunStmt(f[n - 1], first[n])
      /\ \A n \in 0 .. q : g[n] = IF n = 0 THEN f[p] ELSE RunStmt(g[n - 1], second[n])
      /\ \A n \in 0 .. p + q : h[n] = IF n = 0 THEN env ELSE RunStmt(h[n - 1], all[n])
  <2>1. f = [n \in 0 .. p |-> IF n = 0 THEN env ELSE RunStmt(f[n - 1], first[n])]
    BY <1>2 DEF Passes
  <2>2. g = [n \in 0 .. q |-> IF n = 0 THEN f[p] ELSE RunStmt(g[n - 1], second[n])]
    BY <1>3 DEF Passes
  <2>3. h = [n \in 0 .. p + q |-> IF n = 0 THEN env ELSE RunStmt(h[n - 1], all[n])]
    BY <1>1, <1>4 DEF Passes
  <2> HIDE DEF all, p, q
  <2> QED
    BY <2>1, <2>2, <2>3
<1> HIDE DEF all, p, q
<1> DEFINE T == {n \in 0 .. p : h[n] = f[n]}
           U == {n \in 0 .. q : h[p + n] = g[n]}
<1>6. 0 .. p \subseteq T
  <2>1. 0 \in T
    BY <1>1, <1>5
  <2>2. ASSUME NEW n \in 1 .. p, n - 1 \in T PROVE n \in T
    <3>1. h[n] = RunStmt(h[n - 1], all[n]) /\ f[n] = RunStmt(f[n - 1], first[n])
      BY <1>1, <1>5
    <3> QED
      BY <1>1, <2>2, <3>1
  <2> HIDE DEF T
  <2> QED
    BY <1>1, <2>1, <2>2, IntervalInduction
<1>7. 0 .. q \subseteq U
  <2>1. 0 \in U
    <3>1. p + 0 = p /\ 0 \in 0 .. q /\ p \in 0 .. p
      BY <1>1
    <3> QED
      BY <1>1, <1>5, <1>6, <3>1
  <2>2. ASSUME NEW n \in 1 .. q, n - 1 \in U PROVE n \in U
    <3>1. p + n \in 0 .. p + q /\ p + n # 0 /\ (p + n) - 1 = p + (n - 1)
      BY <1>1
    <3>2. h[p + n] = RunStmt(h[p + (n - 1)], all[p + n]) /\ g[n] = RunStmt(g[n - 1], second[n])
      BY <1>1, <1>5, <3>1
    <3> QED
      BY <1>1, <2>2, <3>2
  <2> HIDE DEF U
  <2> QED
    BY <1>1, <2>1, <2>2, IntervalInduction
<1>8. h[p + q] = g[q]
  BY <1>1, <1>7
<1> QED
  BY <1>2, <1>3, <1>4, <1>8 DEF all

-----------------------------------------------------------------------------
(* Blocks. *)

\* What a terminator looks like from its kind.
LEMMA TerminatorFields ==
  /\ \A t : Goto(t).kind = "goto" /\ Goto(t).target = t
  /\ \A a, d, t : LET c == Call(a, d, t)
                  IN c.kind = "call" /\ c.args = a /\ c.dest = d /\ c.target = t
  /\ \A d, v, h, o : LET w == Switch(d, v, h, o)
                     IN w.kind = "switch" /\ w.discr = d /\ w.value = v /\ w.hit = h /\ w.otherwise = o
  BY DEF Goto, Call, Switch

\* A block that only jumps does nothing else.
LEMMA JumpStep ==
  ASSUME NEW A, NEW x, NEW input, NEW s, IsState(s), Going(s),
         A[x].term.kind = "goto"
  PROVE  /\ Step(A, [at |-> x, s |-> s], input)
              = [at |-> A[x].term.target, s |-> [s EXCEPT !.env = RunStmts(A[x].stmts, @)]]
         /\ Going([s EXCEPT !.env = RunStmts(A[x].stmts, @)])
<1> DEFINE d == [s EXCEPT !.env = RunStmts(A[x].stmts, @)]
<1>1. RunBlock(A[x], s, input) = d
  BY DEF RunBlock
<1>2. Going(d)
  BY DEF Going, IsState
<1>3. Step(A, [at |-> x, s |-> s], input) = [at |-> A[x].term.target, s |-> d]
  <2> HIDE DEF d
  <2> QED
    BY <1>1, <1>2 DEF Step
<1> QED
  BY <1>2, <1>3

\* And if it has no statements, nothing at all.
LEMMA EmptyJumpStep ==
  ASSUME NEW A, NEW x, NEW input, NEW s, IsState(s), Going(s),
         A[x].term.kind = "goto", A[x].stmts = <<>>
  PROVE  Step(A, [at |-> x, s |-> s], input) = [at |-> A[x].term.target, s |-> s]
<1>1. RunStmts(A[x].stmts, s.env) = s.env
  BY NoStatements
<1>2. [s EXCEPT !.env = RunStmts(A[x].stmts, @)] = s
  BY <1>1 DEF IsState
<1> QED
  BY <1>2, JumpStep

\* A step looks at one block only.
LEMMA SameStep ==
  ASSUME NEW A, NEW B, NEW x, NEW input, NEW s, A[x] = B[x]
  PROVE  Step(A, [at |-> x, s |-> s], input) = Step(B, [at |-> x, s |-> s], input)
BY DEF Step

\* The state after the statements of a block.
Done(block, s) == [s EXCEPT !.env = RunStmts(block.stmts, @)]

\* A block is its statements and then its terminator.
LEMMA BlocksAgree ==
  ASSUME NEW one, NEW two, NEW s, NEW t, NEW input, one.term = two.term,
         Done(one, s) = Done(two, t)
  PROVE  RunBlock(one, s, input) = RunBlock(two, t, input)
<1> DEFINE Finish(e, term) ==
             IF term.kind # "call" THEN e
             ELSE LET r == CallResult(e, ReadAll(term.args, e.env), input)
                  IN IF Going(r.s) THEN [r.s EXCEPT !.env = Write(@, term.dest, r.v)] ELSE r.s
<1>1. RunBlock(one, s, input) = Finish(Done(one, s), one.term)
  BY Zenon DEF RunBlock, Done
<1>2. RunBlock(two, t, input) = Finish(Done(two, t), two.term)
  BY Zenon DEF RunBlock, Done
<1> HIDE DEF Finish
<1> QED
  BY <1>1, <1>2

-----------------------------------------------------------------------------
(* Bodies from their entry. *)

\* Two bodies of the same locals begin in the same state.
LEMMA EntryOf ==
  ASSUME NEW a, NEW b, a.locals = b.locals, NEW input
  PROVE  Entry(a, input) = Entry(b, input) /\ IsState(Entry(a, input))
BY DEF Entry, IsState

\* The runs of two bodies end alike.
SameResults(a, b) ==
  \A input :
    /\ \A n \in Nat : ~Going(RunFor(a, input, n)) => RunFor(b, input, n) = RunFor(a, input, n)
    /\ \A n \in Nat : ~Going(RunFor(b, input, n)) =>
         \E m \in Nat : RunFor(a, input, m) = RunFor(b, input, n)

\* The same runs give the same results.
LEMMA RunsAreResults ==
  ASSUME NEW a, NEW b, a.locals = b.locals, SameRuns(a.blocks, b.blocks)
  PROVE  SameResults(a, b)
<1> SUFFICES ASSUME NEW input
             PROVE  /\ \A n \in Nat : ~Going(RunFor(a, input, n)) => RunFor(b, input, n) = RunFor(a, input, n)
                    /\ \A n \in Nat : ~Going(RunFor(b, input, n)) =>
                         \E m \in Nat : RunFor(a, input, m) = RunFor(b, input, n)
  BY DEF SameResults
<1> DEFINE s == Entry(a, input)
<1>1. s = Entry(b, input) /\ IsState(s)
  BY EntryOf
<1>2. \A n : /\ RunFor(a, input, n) = After(a.blocks, [at |-> START, s |-> s], input, n).s
             /\ RunFor(b, input, n) = After(b.blocks, [at |-> START, s |-> s], input, n).s
  BY <1>1 DEF RunFor
<1> HIDE DEF s
<1> DEFINE Old(n) == After(a.blocks, [at |-> START, s |-> s], input, n).s
           New(n) == After(b.blocks, [at |-> START, s |-> s], input, n).s
<1>3. /\ \A n \in Nat : ~Going(Old(n)) => New(n) = Old(n)
      /\ \A n \in Nat : ~Going(New(n)) => \E m \in Nat : Old(m) = New(n)
  BY <1>1 DEF SameRuns
<1> QED
  BY <1>2, <1>3

-----------------------------------------------------------------------------
(* Terminators and blocks with other targets. *)

\* The successors of a terminator, and what Redirect makes of it.
LEMMA Redirected ==
  ASSUME NEW t, IsTerminator(t), NEW to
  PROVE  /\ t.kind \in {"goto", "call", "switch", "return", "unreachable"}
         /\ t.kind = "goto" => /\ Redirect(t, to) = Goto(to[t.target])
                               /\ ToSet(Successors(t)) = {t.target}
         /\ t.kind = "call" => /\ Redirect(t, to) = Call(t.args, t.dest, to[t.target])
                               /\ ToSet(Successors(t)) = {t.target}
         /\ t.kind = "switch" => /\ Redirect(t, to) = Switch(t.discr, t.value, to[t.hit], to[t.otherwise])
                                 /\ ToSet(Successors(t)) = {t.hit, t.otherwise}
         /\ t.kind \in {"return", "unreachable"} => Redirect(t, to) = t /\ ToSet(Successors(t)) = {}
<1>1. t.kind \in {"goto", "call", "switch", "return", "unreachable"}
  BY DEF IsTerminator
<1>2. \A u : ToSet(<<u>>) = {u}
  BY DEF ToSet
<1>3. \A u, v : ToSet(<<u, v>>) = {u, v}
  <2> TAKE u, v
  <2>1. DOMAIN <<u, v>> = {1, 2} /\ <<u, v>>[1] = u /\ <<u, v>>[2] = v
    OBVIOUS
  <2> QED
    BY <2>1 DEF ToSet
<1>4. ToSet(<<>>) = {}
  BY DEF ToSet
<1>5. CASE t.kind = "goto"
  BY <1>5, <1>2 DEF Redirect, Successors
<1>6. CASE t.kind = "call"
  BY <1>6, <1>2 DEF Redirect, Successors
<1>7. CASE t.kind = "switch"
  BY <1>7, <1>3 DEF Redirect, Successors
<1>8. CASE t.kind \in {"return", "unreachable"}
  BY <1>8, <1>4 DEF Redirect, Successors
<1> QED
  BY <1>1, <1>5, <1>6, <1>7, <1>8

\* Where two runs stand after blocks that end alike, the one's targets moved.
EndLike(one, new, t, to) ==
  /\ one.s = new.s
  /\ Going(one.s) => one.at \in ToSet(Successors(t)) /\ new.at = to[one.at]

\* The ends of two blocks that have done the same, when the one goes where the
\* targets of the other have been moved to.
LEMMA RedirectedEnd ==
  ASSUME NEW A, NEW B, NEW x, NEW y, NEW to, NEW input, NEW s, NEW t,
         IsState(s), Going(s), Going(t),
         IsTerminator(A[x].term), B[y].term = Redirect(A[x].term, to),
         RunBlock(B[y], t, input) = RunBlock(A[x], s, input)
  PROVE  EndLike(Step(A, [at |-> x, s |-> s], input), Step(B, [at |-> y, s |-> t], input), A[x].term, to)
<1> DEFINE v == A[x].term
           u == B[y].term
           d == RunBlock(A[x], s, input)
           one == Step(A, [at |-> x, s |-> s], input)
           new == Step(B, [at |-> y, s |-> t], input)
<1>1. v.kind \in {"goto", "call", "switch", "return", "unreachable"}
  BY Redirected
<1>2. u.kind = v.kind
  BY <1>1, Redirected, TerminatorFields
<1>4. IsState(d)
  BY BlockState
<1>5. \A e : ~Going([d EXCEPT !.end = e]) <=> e # "run"
  <2> HIDE DEF d
  <2> QED
    BY <1>4 DEF IsState, Going
<1>6. /\ one = IF ~Going(d) THEN [at |-> x, s |-> d]
               ELSE CASE v.kind \in {"goto", "call"} -> [at |-> v.target, s |-> d]
                      [] v.kind = "switch" ->
                           [at |-> IF IsHit(v, d.env) THEN v.hit ELSE v.otherwise, s |-> d]
                      [] v.kind = "return" -> [at |-> x, s |-> [d EXCEPT !.end = "return"]]
                      [] OTHER -> [at |-> x, s |-> [d EXCEPT !.end = "trap"]]
      /\ new = IF ~Going(d) THEN [at |-> y, s |-> d]
               ELSE CASE u.kind \in {"goto", "call"} -> [at |-> u.target, s |-> d]
                      [] u.kind = "switch" ->
                           [at |-> IF IsHit(u, d.env) THEN u.hit ELSE u.otherwise, s |-> d]
                      [] u.kind = "return" -> [at |-> y, s |-> [d EXCEPT !.end = "return"]]
                      [] OTHER -> [at |-> y, s |-> [d EXCEPT !.end = "trap"]]
  BY DEF Step
<1> SUFFICES /\ one.s = new.s
             /\ Going(one.s) => one.at \in ToSet(Successors(v)) /\ new.at = to[one.at]
  BY DEF EndLike
<1> HIDE DEF d, one, new
<1>7. CASE ~Going(d)
  BY <1>6, <1>7
<1>8. CASE Going(d) /\ v.kind \in {"goto", "call"}
  <2>1. u.target = to[v.target] /\ v.target \in ToSet(Successors(v))
    BY <1>8, Redirected, TerminatorFields
  <2> QED
    BY <1>2, <1>6, <1>8, <2>1
<1>9. CASE Going(d) /\ v.kind = "switch"
  <2>1. /\ u.hit = to[v.hit] /\ u.otherwise = to[v.otherwise]
        /\ u.discr = v.discr /\ u.value = v.value
        /\ v.hit \in ToSet(Successors(v)) /\ v.otherwise \in ToSet(Successors(v))
    BY <1>9, Redirected, TerminatorFields
  <2>2. IsHit(u, d.env) = IsHit(v, d.env)
    BY <2>1 DEF IsHit
  <2> QED
    BY <1>2, <1>6, <1>9, <2>1, <2>2
<1>10. CASE Going(d) /\ v.kind = "return"
  BY <1>2, <1>5, <1>6, <1>10
<1>11. CASE Going(d) /\ v.kind = "unreachable"
  BY <1>2, <1>5, <1>6, <1>11
<1> QED
  BY <1>1, <1>7, <1>8, <1>9, <1>10, <1>11

\* Blocks that differ in nothing but where they go.
LEMMA RedirectedStep ==
  ASSUME NEW A, NEW B, NEW x, NEW y, NEW to, NEW input, NEW s, IsState(s), Going(s),
         IsTerminator(A[x].term), B[y].stmts = A[x].stmts, B[y].term = Redirect(A[x].term, to)
  PROVE  LET one == Step(A, [at |-> x, s |-> s], input)
             new == Step(B, [at |-> y, s |-> s], input)
         IN /\ one.s = new.s
            /\ Going(one.s) => one.at \in ToSet(Successors(A[x].term)) /\ new.at = to[one.at]
<1> DEFINE v == A[x].term
           u == B[y].term
<1>1. u.kind = v.kind /\ (v.kind = "call" => u.args = v.args /\ u.dest = v.dest)
  BY Redirected, TerminatorFields
<1>2. RunBlock(B[y], s, input) = RunBlock(A[x], s, input)
  BY <1>1 DEF RunBlock
<1>3. EndLike(Step(A, [at |-> x, s |-> s], input), Step(B, [at |-> y, s |-> s], input), A[x].term, to)
  <2> HIDE DEF u, v
  <2> QED
    BY <1>2, RedirectedEnd
<1> QED
  BY <1>3 DEF EndLike

\* Blocks that end in the same terminator, having done the same.
LEMMA SameEnd ==
  ASSUME NEW A, NEW B, NEW x, NEW y, NEW input, NEW s, NEW t, IsState(s),
         Going(s), Going(t), A[x].term = B[y].term, IsTerminator(A[x].term),
         RunBlock(A[x], s, input) = RunBlock(B[y], t, input)
  PROVE  LET one == Step(A, [at |-> x, s |-> s], input)
             new == Step(B, [at |-> y, s |-> t], input)
         IN /\ one.s = new.s
            /\ Going(one.s) => one.at = new.at /\ one.at \in ToSet(Successors(A[x].term))
<1> DEFINE v == A[x].term
           to == [c \in ToSet(Successors(v)) |-> c]
<1>1. Redirect(v, to) = v
  BY Redirected DEF IsTerminator
<1>2. \A c \in ToSet(Successors(v)) : to[c] = c
  OBVIOUS
<1> HIDE DEF to
<1>3. B[y].term = Redirect(A[x].term, to)
  BY <1>1
<1>4. EndLike(Step(A, [at |-> x, s |-> s], input), Step(B, [at |-> y, s |-> t], input), A[x].term, to)
  <2> HIDE DEF v
  <2> QED
    BY <1>3, RedirectedEnd
<1> QED
  BY <1>2, <1>4 DEF EndLike

\* A sequence is one of its own elements.
LEMMA OwnSeq ==
  ASSUME NEW X, NEW s \in Seq(X)
  PROVE  s \in Seq(ToSet(s))
<1>1. Len(s) \in Nat /\ DOMAIN s = 1 .. Len(s) /\ s = [i \in 1 .. Len(s) |-> s[i]]
  OBVIOUS
<1>2. \A i \in 1 .. Len(s) : s[i] \in ToSet(s)
  BY <1>1 DEF ToSet
<1> HIDE DEF ToSet
<1>3. [i \in 1 .. Len(s) |-> s[i]] \in Seq(ToSet(s))
  BY <1>1, <1>2
<1> QED
  BY <1>1, <1>3

\* A block of IsBlock, field by field.
LEMMA BlockOf ==
  ASSUME NEW S, NEW stmts \in Seq(S), NEW t, IsTerminator(t), START \notin ToSet(Successors(t))
  PROVE  IsBlock([stmts |-> stmts, term |-> t])
<1>1. stmts \in Seq(ToSet(stmts))
  BY OwnSeq
<1> QED
  BY <1>1 DEF IsBlock

\* Redirecting changes the targets and nothing else.
LEMMA RedirectedTerm ==
  ASSUME NEW t, IsTerminator(t), NEW to
  PROVE  /\ IsTerminator(Redirect(t, to))
         /\ ToSet(Successors(Redirect(t, to))) = {to[x] : x \in ToSet(Successors(t))}
<1> DEFINE u == Redirect(t, to)
<1>1. t.kind \in {"goto", "call", "switch", "return", "unreachable"}
  BY Redirected
<1>2. CASE t.kind = "goto"
  <2>1. u = Goto(to[t.target]) /\ ToSet(Successors(t)) = {t.target}
    BY <1>2, Redirected
  <2> DEFINE v == to[t.target]
  <2>2. u = Goto(v) /\ u.kind = "goto" /\ u.target = v
    <3> HIDE DEF v
    <3> QED
      BY <2>1, TerminatorFields DEF v
  <2> HIDE DEF u
  <2>3. IsTerminator(u)
    BY <2>2 DEF IsTerminator
  <2>4. ToSet(Successors(u)) = {v}
    BY <2>2, <2>3, Redirected
  <2> QED
    BY <2>1, <2>3, <2>4 DEF u
<1>3. CASE t.kind = "call"
  <2>1. u = Call(t.args, t.dest, to[t.target]) /\ ToSet(Successors(t)) = {t.target}
    BY <1>3, Redirected
  <2> DEFINE v == to[t.target]
  <2>2. u = Call(u.args, u.dest, v) /\ u.kind = "call" /\ u.target = v
    <3> HIDE DEF v
    <3> QED
      BY <2>1, TerminatorFields DEF v
  <2> HIDE DEF u
  <2>3. IsTerminator(u)
    BY <2>2 DEF IsTerminator
  <2>4. ToSet(Successors(u)) = {v}
    BY <2>2, <2>3, Redirected
  <2> QED
    BY <2>1, <2>3, <2>4 DEF u
<1>4. CASE t.kind = "switch"
  <2>1. /\ u = Switch(t.discr, t.value, to[t.hit], to[t.otherwise])
        /\ ToSet(Successors(t)) = {t.hit, t.otherwise}
    BY <1>4, Redirected
  <2> DEFINE v == to[t.hit]
             w == to[t.otherwise]
  <2>2. u = Switch(u.discr, u.value, v, w) /\ u.kind = "switch" /\ u.hit = v /\ u.otherwise = w
    <3> HIDE DEF v, w
    <3> QED
      BY <2>1, TerminatorFields DEF v, w
  <2> HIDE DEF u
  <2>3. IsTerminator(u)
    BY <2>2 DEF IsTerminator
  <2>4. ToSet(Successors(u)) = {v, w}
    BY <2>2, <2>3, Redirected
  <2> QED
    BY <2>1, <2>3, <2>4 DEF u
<1>5. CASE t.kind \in {"return", "unreachable"}
  <2>1. u = t /\ ToSet(Successors(t)) = {}
    BY <1>5, Redirected
  <2> QED
    BY <2>1
<1> QED
  BY <1>1, <1>2, <1>3, <1>4, <1>5

\* A block with its targets moved is a block.
LEMMA RedirectedBlock ==
  ASSUME NEW block, IsBlock(block), NEW to,
         \A x \in ToSet(Successors(block.term)) : to[x] # START
  PROVE  IsBlock([stmts |-> block.stmts, term |-> Redirect(block.term, to)])
<1>1. block.stmts \in Seq(ToSet(block.stmts)) /\ IsTerminator(block.term)
  BY DEF IsBlock
<1>2. /\ IsTerminator(Redirect(block.term, to))
      /\ START \notin ToSet(Successors(Redirect(block.term, to)))
  BY <1>1, RedirectedTerm
<1> QED
  BY <1>1, <1>2, BlockOf

\* It names the same locals.
LEMMA RedirectedNames ==
  ASSUME NEW A, NEW B, IsTerminator(A.term), NEW to,
         B.stmts = A.stmts, B.term = Redirect(A.term, to)
  PROVE  LocalsNamed(B) = LocalsNamed(A)
<1> DEFINE t == A.term
           u == B.term
<1>1. t.kind \in {"goto", "call", "switch", "return", "unreachable"}
  BY Redirected
<1>2. /\ u.kind = t.kind
      /\ t.kind = "call" => u.args = t.args /\ u.dest = t.dest
      /\ t.kind = "switch" => u.discr = t.discr
  BY <1>1, Redirected, TerminatorFields
<1> QED
  BY <1>2 DEF LocalsNamed

-----------------------------------------------------------------------------
(* Graphs. *)

\* Blocks whose edges lead to blocks, though never to bb0.
IsGraph(blocks) ==
  /\ blocks \in Seq(ToSet(blocks)) \ {<<>>}
  /\ \A b \in DOMAIN blocks :
       /\ IsBlock(blocks[b])
       /\ ToSet(Successors(blocks[b].term)) \subseteq DOMAIN blocks

\* The blocks of a graph are numbered from 1, which is bb0.
LEMMA GraphDomain ==
  ASSUME NEW blocks, IsGraph(blocks)
  PROVE  /\ Len(blocks) \in Nat
         /\ Len(blocks) > 0
         /\ DOMAIN blocks = 1 .. Len(blocks)
         /\ DOMAIN blocks \subseteq Nat
         /\ START \in DOMAIN blocks
<1>1. blocks \in Seq(ToSet(blocks)) /\ blocks # <<>>
  BY DEF IsGraph
<1>2. Len(blocks) \in Nat /\ DOMAIN blocks = 1 .. Len(blocks)
  BY <1>1
<1>3. Len(blocks) # 0
  BY <1>1, EmptySeq
<1> QED
  BY <1>2, <1>3 DEF START

\* What has the blocks of a graph one by one is a graph.
LEMMA GraphOf ==
  ASSUME NEW A, NEW n \in Nat, n > 0, DOMAIN A = 1 .. n, A = [i \in 1 .. n |-> A[i]],
         \A i \in 1 .. n : IsBlock(A[i]) /\ ToSet(Successors(A[i].term)) \subseteq 1 .. n
  PROVE  IsGraph(A)
<1>1. \A i \in 1 .. n : A[i] \in ToSet(A)
  BY DEF ToSet
<1>2. [i \in 1 .. n |-> A[i]] \in Seq(ToSet(A))
  BY <1>1
<1>3. A # <<>>
  OBVIOUS
<1> QED
  BY <1>2, <1>3 DEF IsGraph

\* A run that goes on is in one of the successors.
LEMMA StepInside ==
  ASSUME NEW A, IsGraph(A), NEW x \in DOMAIN A, NEW input, NEW s, IsState(s), Going(s),
         Going(Step(A, [at |-> x, s |-> s], input).s)
  PROVE  Step(A, [at |-> x, s |-> s], input).at \in ToSet(Successors(A[x].term))
<1>1. IsTerminator(A[x].term)
  BY DEF IsGraph, IsBlock
<1> QED
  BY <1>1, SameEnd

\* The locals that the blocks name.
Names(blocks, L) == \A b \in DOMAIN blocks : LocalsNamed(blocks[b]) \subseteq L

-----------------------------------------------------------------------------
(* Threading. *)

\* Forward stays among the blocks.
LEMMA ForwardInside ==
  ASSUME NEW blocks, IsGraph(blocks), NEW b \in DOMAIN blocks
  PROVE  Forward(blocks, b) \in DOMAIN blocks
<1>1. IsTerminator(blocks[b].term) /\ ToSet(Successors(blocks[b].term)) \subseteq DOMAIN blocks
  BY DEF IsGraph, IsBlock
<1> QED
  BY <1>1, Redirected DEF Forward

\* x leads to y in k jumps.
IsChain(blocks, f, x, y, k) ==
  /\ f[0] = x /\ f[k] = y
  /\ \A n \in 1 .. k : f[n] = Forward(blocks, f[n - 1])

\* Resolve follows as many jumps as there are blocks.
LEMMA ResolveChain ==
  ASSUME NEW blocks, IsGraph(blocks), NEW b \in DOMAIN blocks
  PROVE  \E f \in [0 .. Len(blocks) -> DOMAIN blocks] :
           IsChain(blocks, f, b, Resolve(blocks, b), Len(blocks))
<1> DEFINE V == DOMAIN blocks
           N == Len(blocks)
           G == [n \in 1 .. N |-> [x \in V |-> Forward(blocks, x)]]
           Follows(f) == f = [n \in 0 .. N |-> IF n = 0 THEN b ELSE Forward(blocks, f[n - 1])]
           follow == CHOOSE f : Follows(f)
<1>1. N \in Nat
  BY GraphDomain
<1>2. b \in V
  OBVIOUS
<1>3. G \in [1 .. N -> [V -> V]]
  BY ForwardInside
<1>4. \E g \in [0 .. N -> V] : Iterates(g, N, b, G)
  <2> HIDE DEF V, N, G
  <2> QED
    BY <1>1, <1>2, <1>3, RecursionExists
<1>5. PICK g \in [0 .. N -> V] : Iterates(g, N, b, G)
  BY <1>4
<1>6. g[0] = b /\ \A n \in 1 .. N : g[n] = Forward(blocks, g[n - 1])
  <2>1. g[0] = b /\ \A n \in 1 .. N : g[n] = G[n][g[n - 1]]
    BY <1>5 DEF Iterates
  <2>2. \A n \in 1 .. N : g[n - 1] \in V
    BY <1>1, <1>5
  <2> QED
    BY <2>1, <2>2
<1>7. Follows(g)
  <2>1. \A n \in 0 .. N : g[n] = IF n = 0 THEN b ELSE Forward(blocks, g[n - 1])
    BY <1>1, <1>6
  <2>2. g = [n \in 0 .. N |-> g[n]]
    BY <1>5
  <2> QED
    BY <2>1, <2>2
<1>8. Follows(follow)
  <2> HIDE DEF Follows
  <2> QED
    BY <1>7
<1>9. Resolve(blocks, b) = follow[N]
  BY DEF Resolve
<1> HIDE DEF follow
<1>10. \A n \in 0 .. N : follow[n] = IF n = 0 THEN b ELSE Forward(blocks, follow[n - 1])
  BY <1>8
<1>11. 0 .. N \subseteq {n \in 0 .. N : follow[n] = g[n]}
  <2> DEFINE T == {n \in 0 .. N : follow[n] = g[n]}
  <2>1. 0 \in T
    BY <1>1, <1>6, <1>10
  <2>2. ASSUME NEW n \in 1 .. N, n - 1 \in T PROVE n \in T
    BY <1>1, <1>6, <1>10, <2>2
  <2> HIDE DEF T
  <2>3. 0 .. N \subseteq T
    BY <1>1, <2>1, <2>2, IntervalInduction
  <2> QED
    BY <2>3 DEF T
<1>12. Resolve(blocks, b) = g[N]
  BY <1>1, <1>9, <1>11
<1> QED
  BY <1>5, <1>6, <1>12 DEF IsChain

\* Jumps never lead back to bb0.
LEMMA ResolveInside ==
  ASSUME NEW blocks, IsGraph(blocks), NEW b \in DOMAIN blocks
  PROVE  /\ Resolve(blocks, b) \in DOMAIN blocks
         /\ b # START => Resolve(blocks, b) # START
<1> DEFINE V == DOMAIN blocks
           N == Len(blocks)
<1>1. PICK f \in [0 .. N -> V] : IsChain(blocks, f, b, Resolve(blocks, b), N)
  BY ResolveChain
<1>2. N \in Nat
  BY GraphDomain
<1>3. Resolve(blocks, b) \in V
  BY <1>1, <1>2 DEF IsChain
<1>4. ASSUME NEW x \in V, x # START PROVE Forward(blocks, x) # START
  <2>1. /\ IsTerminator(blocks[x].term)
        /\ START \notin ToSet(Successors(blocks[x].term))
    BY DEF IsGraph, IsBlock
  <2>2. blocks[x].term.kind = "goto" => blocks[x].term.target # START
    BY <2>1, Redirected
  <2> QED
    BY <1>4, <2>2 DEF Forward
<1>5. ASSUME b # START PROVE Resolve(blocks, b) # START
  <2> DEFINE T == {n \in 0 .. N : f[n] # START}
  <2>1. 0 \in T
    BY <1>1, <1>2, <1>5 DEF IsChain
  <2>2. ASSUME NEW n \in 1 .. N, n - 1 \in T PROVE n \in T
    <3>1. f[n - 1] \in V /\ f[n - 1] # START /\ n \in 0 .. N
      BY <1>1, <1>2, <2>2
    <3>2. f[n] = Forward(blocks, f[n - 1])
      BY <1>1 DEF IsChain
    <3> QED
      BY <1>4, <3>1, <3>2
  <2>3. 0 .. N \subseteq T
    <3> HIDE DEF T, N
    <3> QED
      BY <1>2, <2>1, <2>2, IntervalInduction
  <2> QED
    BY <1>1, <1>2, <2>3 DEF IsChain
<1> QED
  BY <1>3, <1>5

\* What threading makes of a block.
LEMMA ThreadedBlock ==
  ASSUME NEW blocks, IsGraph(blocks), NEW b \in DOMAIN blocks
  PROVE  LET new == ThreadGotos(blocks)
             to  == [c \in DOMAIN blocks |-> Resolve(blocks, c)]
         IN /\ DOMAIN new = DOMAIN blocks
            /\ new[b] = [stmts |-> blocks[b].stmts, term |-> Redirect(blocks[b].term, to)]
            /\ new[b].stmts = blocks[b].stmts
            /\ new[b].term = Redirect(blocks[b].term, to)
<1>1. blocks[b] = [stmts |-> blocks[b].stmts, term |-> blocks[b].term]
  BY DEF IsGraph, IsBlock
<1> DEFINE to == [c \in DOMAIN blocks |-> Resolve(blocks, c)]
<1>2. ThreadGotos(blocks) = [c \in DOMAIN blocks |-> [blocks[c] EXCEPT !.term = Redirect(@, to)]]
  BY DEF ThreadGotos
<1> HIDE DEF to
<1>3. [blocks[b] EXCEPT !.term = Redirect(@, to)]
        = [stmts |-> blocks[b].stmts, term |-> Redirect(blocks[b].term, to)]
  BY <1>1
<1> QED
  BY <1>2, <1>3 DEF to

\* Threading keeps the runs: the blocks left out are jumps, and at most as many
\* in a row as there are blocks.
LEMMA ThreadKeepsRuns ==
  ASSUME NEW blocks, IsGraph(blocks)
  PROVE  SameRuns(blocks, ThreadGotos(blocks))
<1> DEFINE N == Len(blocks)
           V == DOMAIN blocks
           new == ThreadGotos(blocks)
           to == [c \in V |-> Resolve(blocks, c)]
           K == {p \in V \X V \X (0 .. N) :
                   \E f \in [0 .. p[3] -> V] : IsChain(blocks, f, p[1], p[2], p[3])}
<1>1. N \in Nat /\ N > 0 /\ V \subseteq Nat /\ START \in V
  BY GraphDomain
<1>0. \A x, y \in V : \A k \in 0 .. N :
        <<x, y, k>> \in K <=> \E f \in [0 .. k -> V] : IsChain(blocks, f, x, y, k)
  <2> HIDE DEF V, N
  <2> QED
    OBVIOUS
<1>5. K \subseteq V \X V \X (0 .. N) /\ K \subseteq Nat \X Nat \X Nat
  BY <1>1
<1> HIDE DEF K
<1>2. ASSUME NEW x \in V PROVE <<x, Resolve(blocks, x), N>> \in K
  <2>1. PICK f \in [0 .. N -> V] : IsChain(blocks, f, x, Resolve(blocks, x), N)
    BY ResolveChain
  <2>2. Resolve(blocks, x) \in V
    BY <1>1, <2>1 DEF IsChain
  <2>3. N \in 0 .. N
    BY <1>1
  <2> HIDE DEF V, N
  <2> QED
    BY <1>0, <2>1, <2>2, <2>3
<1>3. <<START, START, 0>> \in K
  <2>1. [n \in 0 .. 0 |-> START] \in [0 .. 0 -> V]
    BY <1>1
  <2>2. IsChain(blocks, [n \in 0 .. 0 |-> START], START, START, 0)
    BY DEF IsChain
  <2>3. 0 \in 0 .. N /\ START \in V
    BY <1>1
  <2> DEFINE g == [n \in 0 .. 0 |-> START]
  <2> HIDE DEF V, N, g
  <2> QED
    BY <1>0, <2>1, <2>2, <2>3 DEF g
<1>4. ASSUME NEW x \in V, NEW y \in V, NEW k \in 0 .. N, <<x, y, k>> \in K,
             NEW s, IsState(s), Going(s), NEW input
      PROVE  LET one == Step(blocks, [at |-> x, s |-> s], input)
                 nxt == Step(new, [at |-> y, s |-> s], input)
             IN \/ Alike(K, one, nxt)
                \/ k > 0 /\ \E z \in Nat : one = [at |-> z, s |-> s] /\ <<z, y, k - 1>> \in K
  <2> DEFINE one == Step(blocks, [at |-> x, s |-> s], input)
             nxt == Step(new, [at |-> y, s |-> s], input)
             jumps == blocks[x].stmts = <<>> /\ blocks[x].term.kind = "goto"
             z == Forward(blocks, x)
  <2>1. PICK f \in [0 .. k -> V] : IsChain(blocks, f, x, y, k)
    BY <1>0, <1>4
  <2>0. k \in Nat
    BY <1>1
  <2>2. CASE k > 0 /\ jumps
    <3>1. one = [at |-> z, s |-> s]
      <4>1. blocks[x].stmts = <<>> /\ blocks[x].term.kind = "goto" /\ z = blocks[x].term.target
        BY <2>2 DEF Forward
      <4>2. IsState(s) /\ Going(s)
        BY <1>4
      <4>3. Step(blocks, [at |-> x, s |-> s], input) = [at |-> blocks[x].term.target, s |-> s]
        BY <4>1, <4>2, EmptyJumpStep
      <4> QED
        BY <4>1, <4>3
    <3>2. z \in V
      BY ForwardInside
    <3> DEFINE g == [n \in 0 .. k - 1 |-> f[n + 1]]
    <3>3. /\ k - 1 \in 0 .. N
          /\ g \in [0 .. k - 1 -> V]
      BY <1>1, <2>2
    <3>4. f[1] = z /\ 1 \in 1 .. k
      BY <2>1, <2>2 DEF IsChain
    <3>5. g[0] = z /\ g[k - 1] = y
      BY <2>1, <2>2, <3>4 DEF IsChain
    <3>6. ASSUME NEW n \in 1 .. k - 1 PROVE g[n] = Forward(blocks, g[n - 1])
      <4>1. n + 1 \in 1 .. k /\ (n + 1) - 1 = n /\ g[n] = f[n + 1] /\ g[n - 1] = f[n]
        OBVIOUS
      <4> QED
        BY <2>1, <4>1 DEF IsChain
    <3>7. IsChain(blocks, g, z, y, k - 1)
      BY <3>5, <3>6 DEF IsChain
    <3>8. <<z, y, k - 1>> \in K
      <4> HIDE DEF g, z
      <4> QED
        BY <1>0, <3>2, <3>3, <3>7
    <3> QED
      BY <1>1, <2>2, <3>1, <3>2, <3>8
  <2>3. CASE ~(k > 0 /\ jumps)
    <3>1. x = y
      <4>1. CASE k = 0
        BY <2>1, <4>1 DEF IsChain
      <4>2. CASE k # 0
        <5>1. Forward(blocks, x) = x
          BY <2>3, <4>2 DEF Forward
        <5> DEFINE T == {n \in 0 .. k : f[n] = x}
        <5>2. 0 \in T
          BY <2>1 DEF IsChain
        <5>3. ASSUME NEW n \in 1 .. k, n - 1 \in T PROVE n \in T
          BY <2>1, <5>1, <5>3 DEF IsChain
        <5>4. 0 .. k \subseteq T
          <6> HIDE DEF T
          <6> QED
            BY <2>0, <5>2, <5>3, IntervalInduction
        <5> QED
          BY <2>1, <5>4 DEF IsChain
      <4> QED
        BY <4>1, <4>2
    <3>2. new[y].stmts = blocks[x].stmts /\ new[y].term = Redirect(blocks[x].term, to)
      BY <3>1, ThreadedBlock
    <3>3. IsTerminator(blocks[x].term) /\ ToSet(Successors(blocks[x].term)) \subseteq V
      BY DEF IsGraph, IsBlock
    <3>4. /\ one.s = nxt.s
          /\ Going(one.s) => one.at \in ToSet(Successors(blocks[x].term)) /\ nxt.at = to[one.at]
      <4> HIDE DEF new, to
      <4> QED
        BY <1>4, <3>1, <3>2, <3>3, RedirectedStep
    <3>5. Going(one.s) => <<one.at, nxt.at, N>> \in K
      <4> HIDE DEF one, nxt, K
      <4> QED
        BY <1>2, <3>3, <3>4
    <3>6. Alike(K, one, nxt)
      <4> HIDE DEF one, nxt, K
      <4> QED
        BY <1>1, <3>4, <3>5 DEF Alike
    <3> QED
      BY <3>6
  <2> QED
    BY <2>2, <2>3
<1>6. ASSUME NEW input PROVE Simulates(blocks, new, K, input)
  <2> HIDE DEF new
  <2> SUFFICES ASSUME NEW x \in Nat, NEW y \in Nat, NEW k \in Nat, <<x, y, k>> \in K,
                      NEW s, IsState(s), Going(s)
               PROVE  LET one == Step(blocks, [at |-> x, s |-> s], input)
                          nxt == Step(new, [at |-> y, s |-> s], input)
                      IN \/ Alike(K, one, nxt)
                         \/ k > 0 /\ \E z \in Nat : one = [at |-> z, s |-> s] /\ <<z, y, k - 1>> \in K
    BY <1>5 DEF Simulates
  <2>1. x \in V /\ y \in V /\ k \in 0 .. N
    BY <1>5
  <2> HIDE DEF V, N
  <2> QED
    BY <1>4, <2>1
<1> HIDE DEF new
<1>7. 0 \in Nat
  OBVIOUS
<1> QED
  BY <1>3, <1>6, <1>7, SimulationGivesRuns DEF new

\* Threading leaves a graph ...
LEMMA ThreadGraph ==
  ASSUME NEW blocks, IsGraph(blocks)
  PROVE  LET new == ThreadGotos(blocks)
         IN /\ IsGraph(new)
            /\ \A L : Names(blocks, L) => Names(new, L)
<1> DEFINE V == DOMAIN blocks
           new == ThreadGotos(blocks)
           to == [c \in V |-> Resolve(blocks, c)]
           n == Len(blocks)
<1>1. n \in Nat /\ n > 0 /\ V = 1 .. n
  BY GraphDomain
<1>2. \A b \in V : /\ new[b] = [stmts |-> blocks[b].stmts, term |-> Redirect(blocks[b].term, to)]
                   /\ new[b].stmts = blocks[b].stmts
                   /\ new[b].term = Redirect(blocks[b].term, to)
  BY ThreadedBlock
<1>3. DOMAIN new = V
  BY DEF ThreadGotos
<1>4. new = [i \in V |-> new[i]]
  BY DEF ThreadGotos
<1>5. \A b \in V : to[b] \in V /\ (b # START => to[b] # START)
  BY ResolveInside
<1>6. \A b \in V : /\ IsBlock(blocks[b]) /\ IsTerminator(blocks[b].term)
                   /\ ToSet(Successors(blocks[b].term)) \subseteq V
                   /\ START \notin ToSet(Successors(blocks[b].term))
  BY DEF IsGraph, IsBlock
<1> HIDE DEF new, to, V, n
<1>7. ASSUME NEW b \in V
      PROVE  IsBlock(new[b]) /\ ToSet(Successors(new[b].term)) \subseteq V
  <2>1. \A y \in ToSet(Successors(blocks[b].term)) : to[y] # START /\ to[y] \in V
    BY <1>5, <1>6
  <2>2. IsBlock([stmts |-> blocks[b].stmts, term |-> Redirect(blocks[b].term, to)])
    BY <1>6, <2>1, RedirectedBlock
  <2>3. ToSet(Successors(Redirect(blocks[b].term, to))) = {to[y] : y \in ToSet(Successors(blocks[b].term))}
    BY <1>6, RedirectedTerm
  <2>4. ToSet(Successors(new[b].term)) \subseteq V
    <3>1. new[b].term = Redirect(blocks[b].term, to)
      BY <1>2
    <3> QED
      BY <2>1, <2>3, <3>1
  <2> QED
    BY <1>2, <2>2, <2>4
<1>8. IsGraph(new)
  BY <1>1, <1>3, <1>4, <1>7, GraphOf
<1>9. ASSUME NEW L, Names(blocks, L) PROVE Names(new, L)
  <2>1. ASSUME NEW b \in V PROVE LocalsNamed(new[b]) = LocalsNamed(blocks[b])
    BY <1>2, <1>6, RedirectedNames
  <2> QED
    BY <1>3, <1>9, <2>1 DEF Names, V
<1> QED
  BY <1>8, <1>9 DEF new

-----------------------------------------------------------------------------
(* Collapsing. *)

\* What collapsing makes of a block.
LEMMA CollapsedBlock ==
  ASSUME NEW blocks, IsGraph(blocks), NEW b \in DOMAIN blocks
  PROVE  LET new  == CollapseUniformSwitches(blocks)
             term == blocks[b].term
             uniform == term.kind = "switch" /\ term.hit = term.otherwise
         IN /\ DOMAIN new = DOMAIN blocks
            /\ uniform => new[b] = [stmts |-> blocks[b].stmts, term |-> Goto(term.otherwise)]
            /\ ~uniform => new[b] = blocks[b]
<1>1. blocks[b] = [stmts |-> blocks[b].stmts, term |-> blocks[b].term]
  BY DEF IsGraph, IsBlock
<1>2. [blocks[b] EXCEPT !.term = Goto(blocks[b].term.otherwise)]
        = [stmts |-> blocks[b].stmts, term |-> Goto(blocks[b].term.otherwise)]
  BY <1>1
<1> QED
  BY <1>2 DEF CollapseUniformSwitches

\* Collapsing keeps the runs: either way a uniform switch goes to one place.
LEMMA CollapseKeepsRuns ==
  ASSUME NEW blocks, IsGraph(blocks)
  PROVE  SameRuns(blocks, CollapseUniformSwitches(blocks))
<1> DEFINE V == DOMAIN blocks
           new == CollapseUniformSwitches(blocks)
           K == {<<x, x, 0>> : x \in V}
<1>1. V \subseteq Nat /\ START \in V /\ 0 \in Nat
  BY GraphDomain
<1>2. K \subseteq Nat \X Nat \X Nat /\ <<START, START, 0>> \in K
  BY <1>1
<1>3. ASSUME NEW x \in V, NEW s, IsState(s), Going(s), NEW input
      PROVE  Step(new, [at |-> x, s |-> s], input) = Step(blocks, [at |-> x, s |-> s], input)
  <2> DEFINE t == blocks[x].term
             uniform == t.kind = "switch" /\ t.hit = t.otherwise
             d == RunBlock(blocks[x], s, input)
  <2>1. CASE uniform
    <3>0. new[x] = [stmts |-> blocks[x].stmts, term |-> Goto(t.otherwise)]
      BY <2>1, CollapsedBlock
    <3>1. /\ new[x].stmts = blocks[x].stmts /\ new[x].term = Goto(t.otherwise)
          /\ new[x].term.kind = "goto" /\ new[x].term.target = t.otherwise
      <4> HIDE DEF new
      <4> QED
        BY <3>0, TerminatorFields
    <3>2. RunBlock(new[x], s, input) = d
      BY <2>1, <3>1 DEF RunBlock
    <3>3. (IF IsHit(t, d.env) THEN t.hit ELSE t.otherwise) = t.otherwise
      BY <2>1
    <3> HIDE DEF new, d
    <3>4. Step(new, [at |-> x, s |-> s], input)
            = IF ~Going(d) THEN [at |-> x, s |-> d] ELSE [at |-> t.otherwise, s |-> d]
      BY <1>3, <3>1, <3>2 DEF Step
    <3>5. Step(blocks, [at |-> x, s |-> s], input)
            = IF ~Going(d) THEN [at |-> x, s |-> d] ELSE [at |-> t.otherwise, s |-> d]
      BY <1>3, <2>1, <3>3 DEF Step, d
    <3> QED
      BY <3>4, <3>5
  <2>2. CASE ~uniform
    <3>1. new[x] = blocks[x]
      BY <2>2, CollapsedBlock
    <3> QED
      BY <3>1, SameStep
  <2> QED
    BY <2>1, <2>2
<1>4. ASSUME NEW input PROVE Simulates(blocks, new, K, input)
  <2> SUFFICES ASSUME NEW x \in V, NEW s, IsState(s), Going(s)
               PROVE  Alike(K, Step(blocks, [at |-> x, s |-> s], input),
                               Step(new, [at |-> x, s |-> s], input))
    <3> HIDE DEF new
    <3> QED
      BY <1>1, <1>2 DEF Simulates
  <2> DEFINE one == Step(blocks, [at |-> x, s |-> s], input)
  <2>1. Step(new, [at |-> x, s |-> s], input) = one
    BY <1>3
  <2>2. Going(one.s) => one.at \in V
    BY StepInside DEF IsGraph
  <2>3. Going(one.s) => <<one.at, one.at, 0>> \in K
    BY <2>2
  <2> HIDE DEF one, K, new
  <2>4. Going(one.s) => \E k \in Nat : <<one.at, one.at, k>> \in K
    BY <1>1, <2>3
  <2>5. Alike(K, one, one)
    BY <2>4 DEF Alike
  <2> QED
    BY <2>1, <2>5 DEF one
<1> HIDE DEF K, new
<1> QED
  BY <1>1, <1>2, <1>4, SimulationGivesRuns DEF new

\* ... and so does collapsing.
LEMMA CollapseGraph ==
  ASSUME NEW blocks, IsGraph(blocks)
  PROVE  LET new == CollapseUniformSwitches(blocks)
         IN /\ IsGraph(new)
            /\ \A L : Names(blocks, L) => Names(new, L)
<1> DEFINE V == DOMAIN blocks
           new == CollapseUniformSwitches(blocks)
           n == Len(blocks)
<1>1. n \in Nat /\ n > 0 /\ V = 1 .. n
  BY GraphDomain
<1>2. DOMAIN new = V /\ new = [i \in V |-> new[i]]
  BY DEF CollapseUniformSwitches
<1>3. ASSUME NEW b \in V
      PROVE  /\ IsBlock(new[b]) /\ ToSet(Successors(new[b].term)) \subseteq V
             /\ LocalsNamed(new[b]) \subseteq LocalsNamed(blocks[b])
  <2> DEFINE t == blocks[b].term
             u == t.otherwise
             uniform == t.kind = "switch" /\ t.hit = t.otherwise
  <2>1. /\ IsBlock(blocks[b]) /\ IsTerminator(t) /\ START \notin ToSet(Successors(t))
        /\ ToSet(Successors(t)) \subseteq V
        /\ blocks[b].stmts \in Seq(ToSet(blocks[b].stmts))
    BY DEF IsGraph, IsBlock
  <2>2. CASE ~uniform
    <3>1. new[b] = blocks[b]
      BY <2>2, CollapsedBlock
    <3> HIDE DEF new
    <3> QED
      BY <2>1, <3>1
  <2>3. CASE uniform
    <3>1. new[b] = [stmts |-> blocks[b].stmts, term |-> Goto(u)]
      BY <2>3, CollapsedBlock
    <3>2. u \in ToSet(Successors(t))
      BY <2>1, <2>3, Redirected
    <3> HIDE DEF new, u
    <3>3. IsTerminator(Goto(u)) /\ Goto(u).kind = "goto" /\ Goto(u).target = u
      BY TerminatorFields DEF IsTerminator
    <3>4. ToSet(Successors(Goto(u))) = {u}
      BY <3>3, Redirected
    <3>5. IsBlock(new[b])
      BY <2>1, <3>1, <3>2, <3>3, <3>4, BlockOf
    <3>6. new[b].stmts = blocks[b].stmts /\ new[b].term = Goto(u)
      BY <3>1
    <3>7. LocalsNamed(new[b]) \subseteq LocalsNamed(blocks[b])
      BY <3>3, <3>6 DEF LocalsNamed
    <3> QED
      BY <2>1, <3>2, <3>4, <3>5, <3>6, <3>7
  <2> QED
    BY <2>2, <2>3
<1> HIDE DEF new, V, n
<1>4. IsGraph(new)
  BY <1>1, <1>2, <1>3, GraphOf
<1>5. ASSUME NEW L, Names(blocks, L) PROVE Names(new, L)
  BY <1>2, <1>3, <1>5 DEF Names, V
<1> QED
  BY <1>4, <1>5 DEF new

-----------------------------------------------------------------------------
(* Merging. *)

\* No more than one edge leads to b.
Sole(blocks, b) ==
  \A p, q \in EdgesTo(blocks, b) : p = q

\* The two blocks once the one has taken in the other.
LEMMA TakenIn ==
  ASSUME NEW blocks, IsGraph(blocks), NEW a \in DOMAIN blocks, NEW b \in DOMAIN blocks, a # b
  PROVE  LET new == TakeIn(blocks, a, b)
         IN /\ DOMAIN new = DOMAIN blocks
            /\ new[a] = [stmts |-> blocks[a].stmts \o blocks[b].stmts, term |-> blocks[b].term]
            /\ new[b] = EmptyBlock
            /\ \A c \in DOMAIN blocks \ {a, b} : new[c] = blocks[c]
BY DEF TakeIn, IsGraph

\* The other blocks stay.
LEMMA TakenInOther ==
  ASSUME NEW blocks, IsGraph(blocks), NEW a \in DOMAIN blocks, NEW b \in DOMAIN blocks, a # b,
         NEW c \in DOMAIN blocks, c # a, c # b
  PROVE  TakeIn(blocks, a, b)[c] = blocks[c]
BY DEF TakeIn, IsGraph

\* The edges to b are the places of b in the lists of successors.
LEMMA EdgeTo ==
  ASSUME NEW blocks, IsGraph(blocks), NEW c \in DOMAIN blocks, NEW b,
         b \in ToSet(Successors(blocks[c].term))
  PROVE  \E i \in 1 .. 2 : <<c, i>> \in EdgesTo(blocks, b)
<1> DEFINE succ == Successors(blocks[c].term)
<1>1. PICK i \in DOMAIN succ : succ[i] = b
  BY DEF ToSet
<1>2. DOMAIN succ \subseteq 1 .. 2
  BY DEF Successors
<1> QED
  BY <1>1, <1>2 DEF EdgesTo

\* The statements of two blocks, and the end of the second.
Both(a, b) == [stmts |-> a.stmts \o b.stmts, term |-> b.term]

\* Running one block and then another is running the block of both.
LEMMA BothBlocks ==
  ASSUME NEW a, NEW b, IsBlock(a), IsBlock(b), NEW s, NEW input, IsState(s)
  PROVE  RunBlock(b, Done(a, s), input) = RunBlock(Both(a, b), s, input)
<1> DEFINE both == Both(a, b)
<1>0. /\ a.stmts \in Seq(ToSet(a.stmts)) /\ b.stmts \in Seq(ToSet(b.stmts))
      /\ both.stmts = a.stmts \o b.stmts /\ both.term = b.term
  BY DEF IsBlock, Both
<1> HIDE DEF both
<1> DEFINE t == Done(a, s)
           d == Done(b, t)
           e == Done(both, s)
<1>1. RunStmts(both.stmts, s.env) = RunStmts(b.stmts, RunStmts(a.stmts, s.env))
  BY <1>0, StatementsInTurn
<1>2. t = [trace |-> s.trace, end |-> s.end, env |-> RunStmts(a.stmts, s.env)]
  BY DEF IsState, Done
<1>3. t.env = RunStmts(a.stmts, s.env) /\ t.trace = s.trace /\ t.end = s.end /\ IsState(t)
  BY <1>2 DEF IsState
<1>4. e = [trace |-> s.trace, end |-> s.end, env |-> RunStmts(both.stmts, s.env)]
  BY DEF IsState, Done
<1>5. d = [trace |-> t.trace, end |-> t.end, env |-> RunStmts(b.stmts, t.env)]
  <2> HIDE DEF t
  <2> QED
    BY <1>3 DEF IsState, Done
<1>6. d = e
  <2> HIDE DEF t, d, e
  <2> QED
    BY <1>1, <1>3, <1>4, <1>5
<1> QED
  BY <1>0, <1>6, BlocksAgree DEF both

\* a can take in b: it jumps there, and no other edge does.
CanTakeIn(A, a, b) ==
  /\ IsGraph(A)
  /\ a \in DOMAIN A /\ b \in DOMAIN A /\ a # b
  /\ A[a].term.kind = "goto" /\ A[a].term.target = b
  /\ Sole(A, b)

\* Every edge to b comes from a.
LEMMA OnlyFrom ==
  ASSUME NEW A, NEW a, NEW b, CanTakeIn(A, a, b), NEW c \in DOMAIN A,
         b \in ToSet(Successors(A[c].term))
  PROVE  c = a
<1>1. IsTerminator(A[a].term)
  BY DEF CanTakeIn, IsGraph, IsBlock
<1>2. ToSet(Successors(A[a].term)) = {b}
  BY <1>1, Redirected DEF CanTakeIn
<1>3. PICK i \in 1 .. 2 : <<a, i>> \in EdgesTo(A, b)
  BY <1>2, EdgeTo DEF CanTakeIn
<1>4. PICK j \in 1 .. 2 : <<c, j>> \in EdgesTo(A, b)
  BY EdgeTo DEF CanTakeIn
<1>5. <<a, i>> = <<c, j>>
  BY <1>3, <1>4 DEF CanTakeIn, Sole
<1> QED
  BY <1>5

\* b is not bb0.
LEMMA NotToStart ==
  ASSUME NEW A, NEW a, NEW b, CanTakeIn(A, a, b)
  PROVE  b # START
<1>1. IsBlock(A[a]) /\ IsTerminator(A[a].term)
  BY DEF CanTakeIn, IsGraph, IsBlock
<1>2. ToSet(Successors(A[a].term)) = {b}
  BY <1>1, Redirected DEF CanTakeIn
<1> QED
  BY <1>1, <1>2 DEF IsBlock

\* The block that has taken in the next does what the two did.
LEMMA TakerStep ==
  ASSUME NEW A, NEW a, NEW b, CanTakeIn(A, a, b),
         NEW s, IsState(s), Going(s), NEW input
  PROVE  LET one == Step(A, [at |-> a, s |-> s], input)
             two == Step(A, one, input)
             new == Step(TakeIn(A, a, b), [at |-> a, s |-> s], input)
         IN /\ Going(one.s)
            /\ two.s = new.s
            /\ Going(two.s) => two.at = new.at /\ two.at \in ToSet(Successors(A[b].term))
<1> DEFINE B == TakeIn(A, a, b)
           t == [s EXCEPT !.env = RunStmts(A[a].stmts, @)]
           one == Step(A, [at |-> a, s |-> s], input)
<1>1. IsTerminator(A[b].term)
  BY DEF CanTakeIn, IsGraph, IsBlock
<1>2. one = [at |-> b, s |-> t] /\ Going(t)
  BY JumpStep DEF CanTakeIn
<1>3. B[a] = Both(A[a], A[b])
  BY TakenIn DEF CanTakeIn, Both
<1>4. t = Done(A[a], s)
  BY DEF Done
<1>5. RunBlock(A[b], t, input) = RunBlock(B[a], s, input)
  <2>1. IsBlock(A[a]) /\ IsBlock(A[b])
    BY DEF CanTakeIn, IsGraph
  <2> HIDE DEF t, B
  <2> QED
    BY <1>3, <1>4, <2>1, BothBlocks
<1>6. IsState(t)
  BY DEF IsState
<1>7. B[a].term = A[b].term
  <2> DEFINE p == A[a].stmts \o A[b].stmts
  <2>1. Both(A[a], A[b]) = [stmts |-> p, term |-> A[b].term]
    BY DEF Both
  <2> HIDE DEF B, p
  <2> QED
    BY <1>3, <2>1
<1> HIDE DEF t, B, one
<1>8. LET two == Step(A, [at |-> b, s |-> t], input)
          new == Step(B, [at |-> a, s |-> s], input)
      IN /\ two.s = new.s
         /\ Going(two.s) => two.at = new.at /\ two.at \in ToSet(Successors(A[b].term))
  BY <1>1, <1>2, <1>5, <1>6, <1>7, SameEnd
<1>9. one.s = t
  BY <1>2
<1> QED
  BY <1>2, <1>8, <1>9 DEF one, B

\* Taking in keeps the runs: b is gone, and was run from a alone, of which the
\* joined block does as much in one step as the two did in two.
LEMMA TakeInKeepsRuns ==
  ASSUME NEW A, NEW a, NEW b, CanTakeIn(A, a, b)
  PROVE  SameRuns(A, TakeIn(A, a, b))
<1> DEFINE V == DOMAIN A
           W == V \ {b}
           B == TakeIn(A, a, b)
           K == {<<x, x, 0>> : x \in W}
<1>1. V \subseteq Nat /\ START \in V /\ 0 \in Nat
  BY GraphDomain DEF CanTakeIn
<1>2. K \subseteq Nat \X Nat \X Nat /\ <<START, START, 0>> \in K
  BY <1>1, NotToStart
<1>3. \A x \in W : <<x, x, 0>> \in K
  OBVIOUS
<1>4. \A x, y, k : <<x, y, k>> \in K => x \in W /\ y = x
  OBVIOUS
<1> HIDE DEF K, B
<1>5. ASSUME NEW input, NEW x \in W, NEW s, IsState(s), Going(s)
      PROVE  LET one == Step(A, [at |-> x, s |-> s], input)
                 two == Step(A, one, input)
                 new == Step(B, [at |-> x, s |-> s], input)
             IN \/ Alike(K, one, new)
                \/ Going(one.s) /\ Alike(K, two, new)
  <2> DEFINE one == Step(A, [at |-> x, s |-> s], input)
             two == Step(A, one, input)
             new == Step(B, [at |-> x, s |-> s], input)
  <2>0. IsState(s) /\ Going(s)
    BY <1>5
  <2>1. CASE x = a
    <3>1. /\ Going(one.s)
          /\ two.s = new.s
          /\ Going(two.s) => two.at = new.at /\ two.at \in ToSet(Successors(A[b].term))
      BY <2>0, <2>1, TakerStep DEF B
    <3>2. Going(two.s) => two.at \in W
      <4>1. b \in V /\ ToSet(Successors(A[b].term)) \subseteq V
        BY DEF CanTakeIn, IsGraph
      <4>2. b \notin ToSet(Successors(A[b].term))
        BY <4>1, OnlyFrom DEF CanTakeIn
      <4> HIDE DEF two
      <4> QED
        BY <3>1, <4>1, <4>2
    <3> HIDE DEF one, two, new
    <3>3. Going(two.s) => <<two.at, new.at, 0>> \in K
      BY <1>3, <3>1, <3>2
    <3>4. Alike(K, two, new)
      BY <1>1, <3>1, <3>3 DEF Alike
    <3> QED
      BY <3>1, <3>4 DEF one, two, new
  <2>2. CASE x # a
    <3>1. A[x] = B[x]
      BY <2>2, TakenInOther DEF CanTakeIn, B
    <3>2. new = one
      BY <3>1, SameStep
    <3>3. Going(one.s) => one.at \in ToSet(Successors(A[x].term))
      BY <2>0, StepInside DEF CanTakeIn
    <3>4. /\ ToSet(Successors(A[x].term)) \subseteq V
          /\ b \notin ToSet(Successors(A[x].term))
      BY <2>2, OnlyFrom DEF CanTakeIn, IsGraph
    <3> HIDE DEF one, new
    <3>5. Going(one.s) => <<one.at, one.at, 0>> \in K
      BY <1>3, <3>3, <3>4
    <3>6. Alike(K, one, one)
      BY <1>1, <3>5 DEF Alike
    <3>7. Alike(K, one, new)
      BY <3>2, <3>6
    <3> QED
      BY <3>7 DEF one, new
  <2> QED
    BY <2>1, <2>2
<1>6. ASSUME NEW input PROVE Simulates(A, B, K, input)
  <2> SUFFICES ASSUME NEW x \in Nat, NEW y \in Nat, NEW k \in Nat, <<x, y, k>> \in K,
                      NEW s, IsState(s), Going(s)
               PROVE  LET one == Step(A, [at |-> x, s |-> s], input)
                          two == Step(A, one, input)
                          new == Step(B, [at |-> y, s |-> s], input)
                      IN \/ Alike(K, one, new)
                         \/ Going(one.s) /\ Alike(K, two, new)
    BY <1>2 DEF Simulates
  <2>1. x \in W /\ y = x
    BY <1>4
  <2> HIDE DEF W
  <2> QED
    BY <1>5, <2>1
<1> QED
  BY <1>1, <1>2, <1>6, SimulationGivesRuns DEF B

\* What is left is a graph.
LEMMA TakeInGraph ==
  ASSUME NEW A, NEW a, NEW b, CanTakeIn(A, a, b)
  PROVE  IsGraph(TakeIn(A, a, b)) /\ DOMAIN TakeIn(A, a, b) = DOMAIN A
<1> DEFINE B == TakeIn(A, a, b)
           V == DOMAIN A
           N == Len(A)
<1>1. /\ N \in Nat /\ N > 0 /\ V = 1 .. N
      /\ a \in V /\ b \in V
  BY GraphDomain DEF CanTakeIn
<1>2. /\ DOMAIN B = V
      /\ B[a] = [stmts |-> A[a].stmts \o A[b].stmts, term |-> A[b].term]
      /\ B[b] = EmptyBlock
      /\ \A c \in V \ {a, b} : B[c] = A[c]
  <2>1. IsGraph(A) /\ a \in V /\ b \in V /\ a # b
    BY DEF CanTakeIn
  <2>2. ASSUME NEW c \in V \ {a, b} PROVE B[c] = A[c]
    BY <2>1, TakenInOther
  <2> QED
    BY <2>1, <2>2, TakenIn
<1>3. \A c \in V : IsBlock(A[c]) /\ ToSet(Successors(A[c].term)) \subseteq V
  BY DEF CanTakeIn, IsGraph
<1> HIDE DEF B, V, N
<1>4. IsBlock(B[a]) /\ ToSet(Successors(B[a].term)) \subseteq V
  <2>1. /\ A[a].stmts \in Seq(ToSet(A[a].stmts))
        /\ A[b].stmts \in Seq(ToSet(A[b].stmts))
        /\ IsTerminator(A[b].term) /\ START \notin ToSet(Successors(A[b].term))
    BY <1>1, <1>3 DEF IsBlock
  <2>2. A[a].stmts \o A[b].stmts \in Seq(ToSet(A[a].stmts) \union ToSet(A[b].stmts))
    <3> DEFINE X == ToSet(A[a].stmts)
               Y == ToSet(A[b].stmts)
               p == A[a].stmts
               q == A[b].stmts
    <3>1. p \in Seq(X) /\ q \in Seq(Y)
      BY <2>1
    <3> HIDE DEF X, Y, p, q
    <3>2. p \in Seq(X \union Y) /\ q \in Seq(X \union Y)
      BY <3>1
    <3>3. p \o q \in Seq(X \union Y)
      BY <3>2
    <3> QED
      BY <3>3 DEF X, Y, p, q
  <2>3. IsBlock([stmts |-> A[a].stmts \o A[b].stmts, term |-> A[b].term])
    BY <2>1, <2>2, BlockOf
  <2>4. B[a].term = A[b].term
    BY <1>2
  <2> QED
    BY <1>1, <1>2, <1>3, <2>3, <2>4
<1>5. IsBlock(B[b]) /\ ToSet(Successors(B[b].term)) \subseteq V
  <2>1. IsTerminator(Unreachable) /\ ToSet(Successors(Unreachable)) = {}
    BY DEF IsTerminator, Unreachable, Successors, ToSet
  <2>2. <<>> \in Seq({})
    OBVIOUS
  <2>3. IsBlock(EmptyBlock) /\ EmptyBlock.term = Unreachable
    BY <2>1, <2>2, BlockOf DEF EmptyBlock
  <2> QED
    BY <1>2, <2>1, <2>3
<1>6. \A c \in V : IsBlock(B[c]) /\ ToSet(Successors(B[c].term)) \subseteq V
  BY <1>2, <1>3, <1>4, <1>5
<1>7. B \in Seq(ToSet(B)) \ {<<>>}
  <2>0. DOMAIN B = 1 .. N
    BY <1>1, <1>2
  <2>1. B = [i \in 1 .. N |-> B[i]]
    <3>1. \E S : A \in Seq(S)
      BY DEF CanTakeIn, IsGraph
    <3>2. B = [i \in V |-> B[i]]
      BY DEF B, TakeIn, V
    <3> QED
      BY <1>1, <3>2
  <2>2. \A i \in 1 .. N : B[i] \in ToSet(B)
    BY <2>0 DEF ToSet
  <2>3. [i \in 1 .. N |-> B[i]] \in Seq(ToSet(B))
    BY <1>1, <2>2
  <2>4. B # <<>>
    BY <1>1, <2>0
  <2> QED
    BY <2>1, <2>3, <2>4
<1> QED
  BY <1>2, <1>6, <1>7 DEF IsGraph, B, V

\* The i-th edge of block c leads to t.
Leads(A, c, i, t) ==
  i \in DOMAIN Successors(A[c].term) /\ Successors(A[c].term)[i] = t

\* Sole, said of the edges one by one.
LEMMA SoleLeads ==
  ASSUME NEW A, NEW t
  PROVE  Sole(A, t) <=>
           \A c, d \in DOMAIN A : \A i, j \in 1 .. 2 :
             Leads(A, c, i, t) /\ Leads(A, d, j, t) => c = d /\ i = j
<1>1. \A c \in DOMAIN A : \A i \in 1 .. 2 : <<c, i>> \in EdgesTo(A, t) <=> Leads(A, c, i, t)
  BY DEF EdgesTo, Leads
<1>2. \A p \in EdgesTo(A, t) : \E c \in DOMAIN A : \E i \in 1 .. 2 : p = <<c, i>>
  BY DEF EdgesTo
<1>3. ASSUME Sole(A, t), NEW c \in DOMAIN A, NEW d \in DOMAIN A, NEW i \in 1 .. 2, NEW j \in 1 .. 2,
             Leads(A, c, i, t), Leads(A, d, j, t)
      PROVE  c = d /\ i = j
  <2>1. <<c, i>> = <<d, j>>
    BY <1>1, <1>3 DEF Sole
  <2> QED
    BY <2>1
<1>4. ASSUME \A c, d \in DOMAIN A : \A i, j \in 1 .. 2 :
               Leads(A, c, i, t) /\ Leads(A, d, j, t) => c = d /\ i = j,
             NEW p \in EdgesTo(A, t), NEW q \in EdgesTo(A, t)
      PROVE  p = q
  <2>1. PICK c \in DOMAIN A, i \in 1 .. 2 : p = <<c, i>>
    BY <1>2
  <2>2. PICK d \in DOMAIN A, j \in 1 .. 2 : q = <<d, j>>
    BY <1>2
  <2> QED
    BY <1>1, <1>4, <2>1, <2>2
<1> QED
  BY <1>3, <1>4 DEF Sole

\* One edge is what the count of 1 says.
LEMMA CountedOnce ==
  ASSUME NEW A, IsGraph(A), NEW t \in DOMAIN A, PredecessorCounts(A)[t] = 1
  PROVE  Sole(A, t)
<1>1. Cardinality(EdgesTo(A, t)) = 1
  BY DEF PredecessorCounts
<1>2. IsFiniteSet(EdgesTo(A, t))
  <2>1. IsFiniteSet(DOMAIN A) /\ IsFiniteSet(1 .. 2)
    <3>1. DOMAIN A = 1 .. Len(A) /\ Len(A) \in Int /\ 1 \in Int /\ 2 \in Int
      BY GraphDomain
    <3> QED
      BY <3>1, FS_Interval
  <2>2. IsFiniteSet((DOMAIN A) \X (1 .. 2))
    BY <2>1, FS_Product
  <2>3. EdgesTo(A, t) \subseteq (DOMAIN A) \X (1 .. 2)
    BY DEF EdgesTo
  <2> QED
    BY <2>2, <2>3, FS_Subset
<1>3. \E x : EdgesTo(A, t) = {x}
  BY <1>1, <1>2, FS_Singleton
<1> QED
  BY <1>3 DEF Sole

\* The terminators once a has taken in b.
LEMMA TakenInTerms ==
  ASSUME NEW A, NEW a, NEW b, CanTakeIn(A, a, b), NEW c \in DOMAIN A
  PROVE  LET B == TakeIn(A, a, b)
         IN /\ DOMAIN B = DOMAIN A
            /\ c = b => ToSet(Successors(B[c].term)) = {}
            /\ c = a => B[c].term = A[b].term
            /\ c # a /\ c # b => B[c].term = A[c].term
<1> DEFINE B == TakeIn(A, a, b)
<1>1. IsGraph(A) /\ a \in DOMAIN A /\ b \in DOMAIN A /\ a # b
  BY DEF CanTakeIn
<1>2. DOMAIN B = DOMAIN A
  BY <1>1, TakenIn
<1>3. ToSet(Successors(B[b].term)) = {}
  <2>1. B[b] = EmptyBlock
    BY <1>1, TakenIn
  <2> HIDE DEF B
  <2>2. B[b].term = Unreachable
    BY <2>1 DEF EmptyBlock
  <2> QED
    BY <2>2 DEF Unreachable, Successors, ToSet
<1>4. B[a].term = A[b].term
  <2> DEFINE p == A[a].stmts \o A[b].stmts
  <2>1. B[a] = [stmts |-> p, term |-> A[b].term]
    BY <1>1, TakenIn
  <2> HIDE DEF B, p
  <2> QED
    BY <2>1
<1>5. c # a /\ c # b => B[c].term = A[c].term
  BY <1>1, TakenInOther
<1> QED
  BY <1>2, <1>3, <1>4, <1>5

\* A block that had one predecessor before has one after, though another.
LEMMA SoleKept ==
  ASSUME NEW A, NEW a, NEW b, CanTakeIn(A, a, b), NEW t, Sole(A, t)
  PROVE  Sole(TakeIn(A, a, b), t)
<1> DEFINE B == TakeIn(A, a, b)
           V == DOMAIN A
           Was(c) == IF c = a THEN b ELSE c
<1>1. IsGraph(A) /\ a \in V /\ b \in V /\ a # b
  BY DEF CanTakeIn
<1>2. DOMAIN B = V
  BY <1>1, TakenIn
<1>3. B[b].term = Unreachable
  <2>1. B[b] = EmptyBlock
    BY <1>1, TakenIn
  <2> HIDE DEF B
  <2> QED
    BY <2>1 DEF EmptyBlock
<1>4. B[a].term = A[b].term
  <2> DEFINE p == A[a].stmts \o A[b].stmts
  <2>1. B[a] = [stmts |-> p, term |-> A[b].term]
    BY <1>1, TakenIn
  <2> HIDE DEF B, p
  <2> QED
    BY <2>1
<1>5. \A c \in V \ {a, b} : B[c] = A[c]
  BY <1>1, TakenInOther
<1> HIDE DEF B, V
<1>6. ASSUME NEW c \in V, NEW i \in 1 .. 2, Leads(B, c, i, t)
      PROVE  c # b /\ Was(c) \in V /\ Leads(A, Was(c), i, t)
  <2>1. c # b
    BY <1>3, <1>6 DEF Leads, Unreachable, Successors
  <2>2. B[c].term = A[Was(c)].term
    BY <1>4, <1>5, <2>1
  <2> QED
    BY <1>1, <1>6, <2>1, <2>2 DEF Leads
<1>7. ASSUME NEW c \in V, NEW d \in V, NEW i \in 1 .. 2, NEW j \in 1 .. 2,
             Leads(B, c, i, t), Leads(B, d, j, t)
      PROVE  c = d /\ i = j
  <2>1. /\ c # b /\ Was(c) \in V /\ Leads(A, Was(c), i, t)
        /\ d # b /\ Was(d) \in V /\ Leads(A, Was(d), j, t)
    BY <1>6, <1>7
  <2>2. Was(c) = Was(d) /\ i = j
    <3> HIDE DEF Was
    <3> QED
      BY <2>1, SoleLeads DEF V
  <2> QED
    BY <2>1, <2>2
<1> QED
  BY <1>2, <1>7, SoleLeads DEF B

\* No further locals are named.
LEMMA TakeInNames ==
  ASSUME NEW A, NEW a, NEW b, CanTakeIn(A, a, b), NEW L, Names(A, L)
  PROVE  Names(TakeIn(A, a, b), L)
<1> DEFINE B == TakeIn(A, a, b)
           V == DOMAIN A
           p == A[a].stmts
           q == A[b].stmts
           u == A[b].term
           Of(stmts) == UNION {{s.dest.local} \union LocalsOf(s.args) : s \in ToSet(stmts)}
           End(term) == CASE term.kind = "switch" -> LocalsOf(<<term.discr>>)
                          [] term.kind = "call"   -> LocalsOf(<<term.dest>> \o term.args)
                          [] OTHER -> {}
<1>1. IsGraph(A) /\ a \in V /\ b \in V /\ a # b
  BY DEF CanTakeIn
<1>2. /\ DOMAIN B = V
      /\ B[a] = [stmts |-> p \o q, term |-> u]
      /\ B[b] = EmptyBlock
  BY <1>1, TakenIn
<1>3. \A c \in V \ {a, b} : B[c] = A[c]
  BY <1>1, TakenInOther
<1>4. \A block : LocalsNamed(block) = Of(block.stmts) \union End(block.term)
  BY DEF LocalsNamed
<1>5. p \in Seq(ToSet(p)) /\ q \in Seq(ToSet(q))
  BY <1>1 DEF IsGraph, IsBlock
<1>6. ToSet(p \o q) \subseteq ToSet(p) \union ToSet(q)
  <2> DEFINE X == ToSet(p)
             Y == ToSet(q)
  <2>1. ASSUME NEW i \in 1 .. Len(p \o q) PROVE (p \o q)[i] \in X \union Y
    <3> HIDE DEF p, q, X, Y
    <3>1. p \in Seq(X \union Y) /\ q \in Seq(X \union Y)
      BY <1>5 DEF X, Y
    <3>2. p \o q \in Seq(X \union Y)
      BY <3>1
    <3> QED
      BY <2>1, <3>2
  <2>2. DOMAIN (p \o q) = 1 .. Len(p \o q)
    <3> HIDE DEF p, q
    <3> QED
      BY <1>5
  <2> HIDE DEF p, q
  <2> QED
    BY <2>1, <2>2 DEF ToSet
<1>7. Of(p \o q) \subseteq Of(p) \union Of(q)
  <2> HIDE DEF p, q
  <2> QED
    BY <1>6
<1>8. LocalsNamed(B[a]) \subseteq L
  <2>1. LocalsNamed(A[a]) \subseteq L /\ LocalsNamed(A[b]) \subseteq L
    BY <1>1 DEF Names
  <2>2. Of(p) \subseteq L /\ Of(q) \subseteq L /\ End(u) \subseteq L
    <3> HIDE DEF Of, End
    <3> QED
      BY <1>4, <2>1
  <2> DEFINE r == p \o q
  <2>3. B[a].stmts = r /\ B[a].term = u
    <3>1. B[a] = [stmts |-> r, term |-> u]
      BY <1>2
    <3> HIDE DEF r, u, B
    <3> QED
      BY <3>1
  <2> HIDE DEF Of, End, B, r, u, p, q
  <2> QED
    BY <1>4, <1>7, <2>2, <2>3 DEF r
<1>9. LocalsNamed(B[b]) = {}
  <2>1. ToSet(<<>>) = {}
    BY DEF ToSet
  <2>2. Of(<<>>) = {} /\ End(Unreachable) = {}
    BY <2>1 DEF Unreachable
  <2> HIDE DEF Of, End, B
  <2> QED
    BY <1>2, <1>4, <2>2 DEF EmptyBlock
<1> HIDE DEF Of, End, B, p, q, u
<1>10. \A c \in V : LocalsNamed(B[c]) \subseteq L
  BY <1>3, <1>8, <1>9 DEF Names
<1> QED
  BY <1>2, <1>10 DEF Names, B

\* The graphs on the way through the blocks.
Merges(f, blocks, preds) ==
  f = [n \in 0 .. Len(blocks) |-> IF n = 0 THEN blocks ELSE MergeAt(f[n - 1], n, preds)]

\* MergeSinglePredecessor follows such a function.
LEMMA MergesExist ==
  ASSUME NEW blocks, Len(blocks) \in Nat
  PROVE  \E f : /\ Merges(f, blocks, PredecessorCounts(blocks))
                /\ MergeSinglePredecessor(blocks) = f[Len(blocks)]
<1> DEFINE preds == PredecessorCounts(blocks)
           Upto(f, m) ==
             f = [n \in 0 .. m |-> IF n = 0 THEN blocks ELSE MergeAt(f[n - 1], n, preds)]
           S == {m \in Nat : \E f : Upto(f, m)}
<1> HIDE DEF preds
<1>1. 0 \in S
  <2>1. Upto([n \in 0 .. 0 |-> blocks], 0)
    OBVIOUS
  <2> QED
    BY <2>1
<1>2. ASSUME NEW m \in Nat, m \in S PROVE m + 1 \in S
  <2>1. PICK f : Upto(f, m)
    BY <1>2
  <2> DEFINE g == [n \in 0 .. m + 1 |->
                     IF n = m + 1 THEN MergeAt(f[m], m + 1, preds) ELSE f[n]]
  <2>2. \A n \in 0 .. m : f[n] = IF n = 0 THEN blocks ELSE MergeAt(f[n - 1], n, preds)
    BY <2>1
  <2>3. ASSUME NEW n \in 0 .. m + 1
        PROVE  g[n] = IF n = 0 THEN blocks ELSE MergeAt(g[n - 1], n, preds)
    <3>1. CASE n = m + 1
      <4>1. n - 1 = m /\ n # 0 /\ n - 1 \in 0 .. m + 1 /\ m # m + 1
        BY <3>1
      <4> QED
        BY <3>1, <4>1
    <3>2. CASE n # m + 1
      <4>1. n \in 0 .. m /\ (n # 0 => n - 1 \in 0 .. m + 1 /\ n - 1 # m + 1)
        BY <3>2
      <4> QED
        BY <3>2, <4>1, <2>2
    <3> QED
      BY <3>1, <3>2
  <2>4. Upto(g, m + 1)
    <3>1. g = [n \in 0 .. m + 1 |-> g[n]]
      OBVIOUS
    <3> HIDE DEF g
    <3>2. [n \in 0 .. m + 1 |-> g[n]]
            = [n \in 0 .. m + 1 |-> IF n = 0 THEN blocks ELSE MergeAt(g[n - 1], n, preds)]
      BY <2>3
    <3> QED
      BY <3>1, <3>2
  <2> HIDE DEF Upto, g
  <2> QED
    BY <2>4
<1>3. Nat \subseteq S
  <2> HIDE DEF S
  <2> QED
    BY <1>1, <1>2, SetInduction
<1>4. \E f : Merges(f, blocks, preds)
  BY <1>3 DEF Merges
<1> DEFINE merged == CHOOSE f : Merges(f, blocks, preds)
<1>5. MergeSinglePredecessor(blocks) = merged[Len(blocks)]
  BY DEF MergeSinglePredecessor, Merges, preds
<1> QED
  BY <1>4, <1>5 DEF preds

\* What the graphs on the way keep.
MergedSoFar(was, now) ==
  /\ IsGraph(now)
  /\ DOMAIN now = DOMAIN was
  /\ SameRuns(was, now)
  /\ \A t : Sole(was, t) => Sole(now, t)
  /\ \A L : Names(was, L) => Names(now, L)

\* What a step over one block does.
LEMMA MergeAtTakes ==
  ASSUME NEW was, IsGraph(was), NEW now, MergedSoFar(was, now), NEW n \in DOMAIN was
  PROVE  LET preds == PredecessorCounts(was)
             t     == now[n].term.target
             takes == now[n].term.kind = "goto" /\ t # n /\ preds[t] = 1
         IN /\ ~takes => MergeAt(now, n, preds) = now
            /\ takes => MergeAt(now, n, preds) = TakeIn(now, n, t) /\ CanTakeIn(now, n, t)
<1> DEFINE preds == PredecessorCounts(was)
           t == now[n].term.target
           takes == now[n].term.kind = "goto" /\ t # n /\ preds[t] = 1
<1>1. ~takes => MergeAt(now, n, preds) = now
  BY DEF MergeAt
<1>2. takes => MergeAt(now, n, preds) = TakeIn(now, n, t)
  BY DEF MergeAt
<1>3. ASSUME takes PROVE CanTakeIn(now, n, t)
  <2>1. n \in DOMAIN now /\ IsGraph(now) /\ IsTerminator(now[n].term)
    BY DEF MergedSoFar, IsGraph, IsBlock
  <2>2. t \in DOMAIN now
    BY <1>3, <2>1, Redirected DEF IsGraph
  <2>3. Sole(was, t)
    BY <1>3, <2>2, CountedOnce DEF MergedSoFar
  <2> QED
    BY <1>3, <2>1, <2>2, <2>3 DEF MergedSoFar, CanTakeIn
<1> QED
  BY <1>1, <1>2, <1>3

\* ... keeps them.
LEMMA MergeAtKeeps ==
  ASSUME NEW was, IsGraph(was), NEW now, MergedSoFar(was, now), NEW n \in DOMAIN was
  PROVE  MergedSoFar(was, MergeAt(now, n, PredecessorCounts(was)))
<1> DEFINE new == MergeAt(now, n, PredecessorCounts(was))
           t == now[n].term.target
<1>1. CASE new = now
  BY <1>1
<1>2. CASE new = TakeIn(now, n, t) /\ CanTakeIn(now, n, t)
  <2>1. IsGraph(TakeIn(now, n, t)) /\ DOMAIN TakeIn(now, n, t) = DOMAIN was
    BY <1>2, TakeInGraph DEF MergedSoFar
  <2>2. SameRuns(was, TakeIn(now, n, t))
    BY <1>2, TakeInKeepsRuns, SameRunsThrough DEF MergedSoFar
  <2>3. \A u : Sole(was, u) => Sole(TakeIn(now, n, t), u)
    BY <1>2, SoleKept DEF MergedSoFar
  <2>4. \A L : Names(was, L) => Names(TakeIn(now, n, t), L)
    BY <1>2, TakeInNames DEF MergedSoFar
  <2> QED
    BY <1>2, <2>1, <2>2, <2>3, <2>4 DEF MergedSoFar
<1> QED
  BY <1>1, <1>2, MergeAtTakes

\* The graphs on the way, the first of which is the given one.
LEMMA MergeSteps ==
  ASSUME NEW blocks, IsGraph(blocks)
  PROVE  \E f : /\ f[0] = blocks
                /\ MergeSinglePredecessor(blocks) = f[Len(blocks)]
                /\ \A n \in 1 .. Len(blocks) :
                     f[n] = MergeAt(f[n - 1], n, PredecessorCounts(blocks))
                /\ \A n \in 0 .. Len(blocks) : MergedSoFar(blocks, f[n])
<1> DEFINE N == Len(blocks)
           preds == PredecessorCounts(blocks)
<1>1. N \in Nat /\ DOMAIN blocks = 1 .. N
  BY GraphDomain
<1>2. PICK f : Merges(f, blocks, preds) /\ MergeSinglePredecessor(blocks) = f[N]
  BY <1>1, MergesExist
<1>3. \A n \in 0 .. N : f[n] = IF n = 0 THEN blocks ELSE MergeAt(f[n - 1], n, preds)
  <2>1. f = [n \in 0 .. N |-> IF n = 0 THEN blocks ELSE MergeAt(f[n - 1], n, preds)]
    BY <1>2 DEF Merges
  <2> HIDE DEF preds, N
  <2> QED
    BY <2>1
<1>4. f[0] = blocks /\ \A n \in 1 .. N : f[n] = MergeAt(f[n - 1], n, preds)
  BY <1>1, <1>3
<1> DEFINE T == {n \in 0 .. N : MergedSoFar(blocks, f[n])}
<1>5. 0 \in T
  BY <1>1, <1>4, SameRunsSame DEF MergedSoFar
<1>6. ASSUME NEW n \in 1 .. N, n - 1 \in T PROVE n \in T
  <2>1. f[n] = MergeAt(f[n - 1], n, preds) /\ n \in 0 .. N /\ n \in DOMAIN blocks
    BY <1>1, <1>4
  <2>2. MergedSoFar(blocks, f[n - 1])
    BY <1>6
  <2> HIDE DEF preds
  <2> QED
    BY <2>1, <2>2, MergeAtKeeps DEF preds
<1>7. 0 .. N \subseteq T
  <2> HIDE DEF T, N
  <2> QED
    BY <1>1, <1>5, <1>6, IntervalInduction
<1> HIDE DEF preds
<1> QED
  BY <1>2, <1>4, <1>7 DEF preds

\* And so does the whole step.
LEMMA MergeKeeps ==
  ASSUME NEW blocks, IsGraph(blocks)
  PROVE  MergedSoFar(blocks, MergeSinglePredecessor(blocks))
<1>1. Len(blocks) \in Nat
  BY GraphDomain
<1>2. Len(blocks) \in 0 .. Len(blocks)
  BY <1>1
<1> QED
  BY <1>2, MergeSteps

-----------------------------------------------------------------------------
(* What can be reached. *)

\* One level more.
Widen(blocks, S) == S \union UNION {ToSet(Successors(blocks[b].term)) : b \in S}

\* It stays among the blocks.
LEMMA WidenInside ==
  ASSUME NEW blocks, IsGraph(blocks), NEW S \in SUBSET DOMAIN blocks
  PROVE  Widen(blocks, S) \in SUBSET DOMAIN blocks
BY DEF IsGraph, Widen

\* Reachable widens as many times as there are blocks.
LEMMA ReachLevels ==
  ASSUME NEW blocks, IsGraph(blocks)
  PROVE  \E seen \in [0 .. Len(blocks) -> SUBSET DOMAIN blocks] :
           /\ Reachable(blocks) = seen[Len(blocks)]
           /\ seen[0] = {START}
           /\ \A n \in 1 .. Len(blocks) : seen[n] = Widen(blocks, seen[n - 1])
<1> DEFINE N == Len(blocks)
           V == SUBSET DOMAIN blocks
           first == {START}
           G == [n \in 1 .. N |-> [S \in V |-> Widen(blocks, S)]]
           AreLevels(f) == f = [n \in 0 .. N |-> IF n = 0 THEN first ELSE Widen(blocks, f[n - 1])]
           seen == CHOOSE f : AreLevels(f)
<1>1. first \in V /\ N \in Nat
  BY GraphDomain
<1>2. \E f : AreLevels(f)
  <2>1. G \in [1 .. N -> [V -> V]]
    BY <1>1, WidenInside
  <2>2. PICK g \in [0 .. N -> V] : Iterates(g, N, first, G)
    <3> HIDE DEF G, N, V, first
    <3> QED
      BY <1>1, <2>1, RecursionExists
  <2>3. g[0] = first /\ \A n \in 1 .. N : g[n] = Widen(blocks, g[n - 1])
    <3>1. \A n \in 1 .. N : g[n - 1] \in V
      BY <1>1, <2>2
    <3> QED
      BY <2>2, <3>1 DEF Iterates
  <2>4. \A n \in 0 .. N : n = 0 \/ n \in 1 .. N
    BY <1>1
  <2>5. AreLevels(g)
    BY <2>2, <2>3, <2>4
  <2> QED
    BY <2>5
<1>3. AreLevels(seen)
  <2> HIDE DEF AreLevels
  <2> QED
    BY <1>2
<1>4. seen[0] = first /\ \A n \in 1 .. N : seen[n] = Widen(blocks, seen[n - 1])
  <2> HIDE DEF seen, first
  <2> QED
    BY <1>1, <1>3
<1>5. \A n \in 0 .. N : seen[n] \in V
  <2> DEFINE T == {n \in 0 .. N : seen[n] \in V}
  <2>1. 0 \in T /\ \A n \in 1 .. N : n - 1 \in T => n \in T
    <3>1. \A S \in V : Widen(blocks, S) \in V
      BY WidenInside
    <3> HIDE DEF seen, first, V
    <3> QED
      BY <1>1, <1>4, <3>1
  <2>2. 0 .. N \subseteq T
    <3> HIDE DEF T, N
    <3> QED
      BY <1>1, <2>1, IntervalInduction
  <2> QED
    BY <2>2
<1>6. seen \in [0 .. N -> V]
  <2> HIDE DEF seen, V
  <2> QED
    BY <1>3, <1>5
<1>7. Reachable(blocks) = seen[N]
  BY DEF Reachable, Widen
<1> HIDE DEF seen
<1> QED
  BY <1>4, <1>6, <1>7

\* By then nothing is missing: the set is closed.  Every level that is not has
\* a block more than the one before.
LEMMA ReachableClosed ==
  ASSUME NEW blocks, IsGraph(blocks)
  PROVE  /\ Reachable(blocks) \subseteq DOMAIN blocks
         /\ START \in Reachable(blocks)
         /\ \A b \in Reachable(blocks) :
              ToSet(Successors(blocks[b].term)) \subseteq Reachable(blocks)
<1> DEFINE N == Len(blocks)
           V == DOMAIN blocks
           IsClosed(S) == \A b \in S : ToSet(Successors(blocks[b].term)) \subseteq S
<1>1. PICK seen \in [0 .. N -> SUBSET V] :
        /\ Reachable(blocks) = seen[N] /\ seen[0] = {START}
        /\ \A n \in 1 .. N : seen[n] = Widen(blocks, seen[n - 1])
  BY ReachLevels
<1>2. /\ N \in Nat /\ \A n \in 0 .. N : n = 0 \/ n \in 1 .. N
      /\ IsFiniteSet(V) /\ Cardinality(V) = N
  <2>1. N \in Nat /\ V = 1 .. N /\ 1 \in Int /\ N \in Int
    BY GraphDomain
  <2>2. IsFiniteSet(1 .. N) /\ Cardinality(1 .. N) = N
    <3> HIDE DEF N
    <3> QED
      BY <2>1, FS_Interval
  <2> HIDE DEF N, V
  <2> QED
    BY <2>1, <2>2
<1>3. ASSUME NEW n \in 0 .. N
      PROVE  /\ IsFiniteSet(seen[n]) /\ Cardinality(seen[n]) \in Nat
             /\ Cardinality(seen[n]) <= N
  <2>1. seen[n] \in SUBSET V
    BY <1>1
  <2> HIDE DEF N, V
  <2> QED
    BY <1>2, <2>1, FS_Subset, FS_CardinalityType
<1> DEFINE T == {n \in 0 .. N : /\ seen[0] \subseteq seen[n]
                                /\ IsClosed(seen[n]) \/ Cardinality(seen[n]) > n}
<1>4. 0 \in T
  <2>1. Cardinality(seen[0]) = 1 /\ 0 \in 0 .. N
    BY <1>1, <1>2, FS_Singleton
  <2> QED
    BY <2>1
<1>5. ASSUME NEW n \in 1 .. N, n - 1 \in T
      PROVE  n \in T
  <2>1. /\ n \in 0 .. N /\ n - 1 \in 0 .. N /\ seen[n] = Widen(blocks, seen[n - 1])
        /\ seen[n - 1] \subseteq seen[n] /\ seen[0] \subseteq seen[n]
    BY <1>1, <1>2, <1>5 DEF Widen
  <2>2. CASE IsClosed(seen[n - 1])
    <3>1. seen[n] = seen[n - 1]
      BY <2>1, <2>2 DEF Widen
    <3> QED
      BY <2>1, <2>2, <3>1
  <2>3. CASE ~IsClosed(seen[n - 1])
    <3>1. seen[n] # seen[n - 1]
      BY <2>1, <2>3 DEF Widen
    <3>2. Cardinality(seen[n - 1]) > n - 1
      BY <1>5, <2>3
    <3>3. /\ Cardinality(seen[n - 1]) <= Cardinality(seen[n])
          /\ Cardinality(seen[n - 1]) # Cardinality(seen[n])
      BY <1>3, <2>1, <3>1, FS_Subset
    <3>4. Cardinality(seen[n]) > n
      BY <1>3, <2>1, <3>2, <3>3
    <3> QED
      BY <2>1, <3>4
  <2> QED
    BY <2>2, <2>3
<1>6. N \in T
  <2>1. 0 .. N \subseteq T
    <3> HIDE DEF T, N
    <3> QED
      BY <1>2, <1>4, <1>5, IntervalInduction
  <2> QED
    BY <1>2, <2>1
<1>7. IsClosed(seen[N])
  BY <1>2, <1>3, <1>6
<1> QED
  BY <1>1, <1>2, <1>6, <1>7

\* Nor is there anything in it that a closed set could do without.
LEMMA ReachableLeast ==
  ASSUME NEW blocks, IsGraph(blocks), NEW S, START \in S,
         \A b \in S \intersect DOMAIN blocks : ToSet(Successors(blocks[b].term)) \subseteq S
  PROVE  Reachable(blocks) \subseteq S
<1> DEFINE N == Len(blocks)
<1>1. PICK seen \in [0 .. N -> SUBSET DOMAIN blocks] :
        /\ Reachable(blocks) = seen[N] /\ seen[0] = {START}
        /\ \A n \in 1 .. N : seen[n] = Widen(blocks, seen[n - 1])
  BY ReachLevels
<1>2. N \in Nat
  BY GraphDomain
<1> DEFINE T == {n \in 0 .. N : seen[n] \subseteq S}
<1>3. 0 \in T
  BY <1>1, <1>2
<1>4. ASSUME NEW n \in 1 .. N, n - 1 \in T
      PROVE  n \in T
  <2>1. seen[n - 1] \subseteq S \intersect DOMAIN blocks
    BY <1>1, <1>4
  <2>2. \A b \in seen[n - 1] : ToSet(Successors(blocks[b].term)) \subseteq S
    BY <2>1
  <2>3. seen[n] \subseteq S
    BY <1>1, <2>1, <2>2 DEF Widen
  <2> QED
    BY <1>2, <2>3
<1>5. 0 .. N \subseteq T
  <2> HIDE DEF T, N
  <2> QED
    BY <1>2, <1>3, <1>4, IntervalInduction
<1> QED
  BY <1>1, <1>2, <1>5

-----------------------------------------------------------------------------
(* Removing. *)

\* The place of every element of a finite set of numbers in their order.
LEMMA Renumbering ==
  ASSUME NEW seen \in SUBSET Nat, IsFiniteSet(seen), NEW to,
         to = [b \in seen |-> Cardinality({c \in seen : c <= b})]
  PROVE  /\ to \in [seen -> 1 .. Cardinality(seen)]
         /\ \A b, c \in seen : to[b] = to[c] => b = c
         /\ \A i \in 1 .. Cardinality(seen) : \E b \in seen : to[b] = i
         /\ \A b \in seen : (\A c \in seen : b <= c) => to[b] = 1
<1> DEFINE n == Cardinality(seen)
           Upto(b) == {c \in seen : c <= b}
<1>0. \A b \in seen : b \in Nat
  OBVIOUS
<1>1. n \in Nat
  BY FS_CardinalityType
<1>2. ASSUME NEW b \in seen
      PROVE  /\ IsFiniteSet(Upto(b)) /\ Cardinality(Upto(b)) \in Nat
             /\ Cardinality(Upto(b)) <= n /\ Cardinality(Upto(b)) # 0
  <2>1. Upto(b) \in SUBSET seen /\ b \in Upto(b)
    OBVIOUS
  <2>2. IsFiniteSet(Upto(b)) /\ Cardinality(Upto(b)) <= n
    <3> HIDE DEF Upto
    <3> QED
      BY <2>1, FS_Subset
  <2>3. Cardinality(Upto(b)) \in Nat /\ Cardinality(Upto(b)) # 0
    <3> HIDE DEF Upto
    <3> QED
      BY <2>1, <2>2, FS_CardinalityType, FS_EmptySet
  <2> QED
    BY <2>2, <2>3
<1>3. ASSUME NEW b \in seen, NEW c \in seen, b < c
      PROVE  Cardinality(Upto(b)) < Cardinality(Upto(c))
  <2>1. Upto(b) \in SUBSET Upto(c)
    <3>1. ASSUME NEW d \in seen, d <= b PROVE d <= c
      BY <1>0, <1>3, <3>1
    <3> QED
      BY <3>1
  <2>2. c \in Upto(c) /\ c \notin Upto(b)
    BY <1>3
  <2>3. Upto(b) # Upto(c)
    BY <2>2
  <2> HIDE DEF Upto
  <2> QED
    BY <1>2, <2>1, <2>3, FS_Subset
<1>4. \A b \in seen : to[b] = Cardinality(Upto(b))
  OBVIOUS
<1>5. to \in [seen -> 1 .. n]
  <2> HIDE DEF Upto, n
  <2>1. \A b \in seen : to[b] \in 1 .. n
    BY <1>1, <1>2, <1>4
  <2> QED
    BY <2>1
<1> HIDE DEF Upto
<1>6. \A b, c \in seen : to[b] = to[c] => b = c
  <2> SUFFICES ASSUME NEW b \in seen, NEW c \in seen, to[b] = to[c]
               PROVE  b = c
    OBVIOUS
  <2>1. b \in Nat /\ c \in Nat
    OBVIOUS
  <2>2. ~(b < c) /\ ~(c < b)
    BY <1>2, <1>3, <1>4
  <2> QED
    BY <2>1, <2>2
<1>7. \A i \in 1 .. n : \E b \in seen : to[b] = i
  <2>1. to \in Injection(seen, 1 .. n)
    BY <1>5, <1>6 DEF Injection, IsInjective
  <2>2. IsFiniteSet(1 .. n) /\ Cardinality(1 .. n) = n
    <3>1. 1 \in Int /\ n \in Int
      BY <1>1
    <3> HIDE DEF n
    <3> QED
      BY <1>1, <3>1, FS_Interval
  <2>3. to \in Surjection(seen, 1 .. n)
    BY <2>1, <2>2, FS_Injection
  <2> QED
    BY <2>3 DEF Surjection
<1>8. ASSUME NEW b \in seen, \A c \in seen : b <= c
      PROVE  to[b] = 1
  <2>1. Upto(b) = {b}
    <3>1. ASSUME NEW d \in seen, d <= b PROVE d = b
      <4>1. b <= d /\ b \in Nat /\ d \in Nat
        BY <1>0, <1>8
      <4> QED
        BY <3>1, <4>1
    <3>2. b <= b
      BY <1>8
    <3> QED
      BY <3>1, <3>2 DEF Upto
  <2>2. Cardinality({b}) = 1
    BY FS_Singleton
  <2> QED
    BY <1>4, <2>1, <2>2
<1> QED
  BY <1>5, <1>6, <1>7, <1>8

\* The new number of every reachable block.
Places(blocks) ==
  [b \in Reachable(blocks) |-> Cardinality({c \in Reachable(blocks) : c <= b})]

\* The numbers are those from 1, each of one block, and bb0 keeps its own.
LEMMA PlacesAre ==
  ASSUME NEW blocks, IsGraph(blocks)
  PROVE  LET seen == Reachable(blocks)
             to   == Places(blocks)
             n    == Cardinality(seen)
         IN /\ n \in Nat /\ n > 0
            /\ to \in [seen -> 1 .. n]
            /\ \A b, c \in seen : to[b] = to[c] => b = c
            /\ \A i \in 1 .. n : \E b \in seen : to[b] = i
            /\ to[START] = START
<1> DEFINE seen == Reachable(blocks)
           to == Places(blocks)
           N == Len(blocks)
<1>1. seen \subseteq DOMAIN blocks /\ START \in seen
  BY ReachableClosed
<1>2. DOMAIN blocks = 1 .. N /\ N \in Nat
  BY GraphDomain
<1>3. IsFiniteSet(1 .. N)
  <2>1. 1 \in Int /\ N \in Int
    BY <1>2
  <2> HIDE DEF N
  <2> QED
    BY <2>1, FS_Interval
<1>4. seen \in SUBSET Nat /\ IsFiniteSet(seen)
  <2>1. seen \in SUBSET (1 .. N) /\ seen \in SUBSET Nat
    BY <1>1, <1>2
  <2> HIDE DEF seen, N
  <2>2. IsFiniteSet(seen)
    BY <1>3, <2>1, FS_Subset
  <2> QED
    BY <2>1, <2>2
<1>5. to = [b \in seen |-> Cardinality({c \in seen : c <= b})]
  BY DEF Places
<1>6. /\ to \in [seen -> 1 .. Cardinality(seen)]
      /\ \A b, c \in seen : to[b] = to[c] => b = c
      /\ \A i \in 1 .. Cardinality(seen) : \E b \in seen : to[b] = i
      /\ \A b \in seen : (\A c \in seen : b <= c) => to[b] = 1
  <2> HIDE DEF seen, to
  <2> QED
    BY <1>4, <1>5, Renumbering
<1>7. to[START] = START
  <2>1. \A c \in seen : START <= c
    BY <1>1, <1>2 DEF START
  <2> QED
    BY <1>1, <1>6, <2>1 DEF START
<1>8. Cardinality(seen) \in Nat /\ Cardinality(seen) > 0
  <2>1. Cardinality(seen) \in Nat
    BY <1>4, FS_CardinalityType
  <2>2. to[START] \in 1 .. Cardinality(seen)
    BY <1>1, <1>6
  <2> QED
    BY <2>1, <2>2
<1> QED
  BY <1>6, <1>7, <1>8

\* The block with the new number is the old one with its targets renumbered.
LEMMA KeptBlock ==
  ASSUME NEW blocks, IsGraph(blocks), NEW b \in Reachable(blocks)
  PROVE  LET new == KeepReachable(blocks)
             to  == Places(blocks)
         IN /\ DOMAIN new = 1 .. Cardinality(Reachable(blocks))
            /\ to[b] \in DOMAIN new
            /\ new[to[b]] = [stmts |-> blocks[b].stmts, term |-> Redirect(blocks[b].term, to)]
<1> DEFINE seen == Reachable(blocks)
           to == Places(blocks)
           n == Cardinality(seen)
           Old(i) == CHOOSE c \in seen : to[c] = i
<1>1. KeepReachable(blocks)
        = [i \in 1 .. n |-> [blocks[Old(i)] EXCEPT !.term = Redirect(@, to)]]
  BY DEF KeepReachable, Places
<1>2. to[b] \in 1 .. n
  BY PlacesAre
<1>3. Old(to[b]) = b
  <2>1. \A c \in seen : to[c] = to[b] => c = b
    BY PlacesAre
  <2> HIDE DEF to, seen
  <2> QED
    BY <2>1 DEF seen
<1>4. blocks[b] = [stmts |-> blocks[b].stmts, term |-> blocks[b].term]
  BY ReachableClosed DEF IsGraph, IsBlock
<1> HIDE DEF to, n, Old
<1>5. [blocks[b] EXCEPT !.term = Redirect(@, to)]
        = [stmts |-> blocks[b].stmts, term |-> Redirect(blocks[b].term, to)]
  BY <1>4
<1>6. KeepReachable(blocks)[to[b]] = [blocks[b] EXCEPT !.term = Redirect(@, to)]
  BY <1>1, <1>2, <1>3
<1>7. DOMAIN KeepReachable(blocks) = 1 .. n
  BY <1>1
<1> QED
  BY <1>2, <1>5, <1>6, <1>7 DEF to, n

\* The same, field by field and from the new block.
LEMMA KeptFields ==
  ASSUME NEW blocks, IsGraph(blocks), NEW b \in Reachable(blocks)
  PROVE  LET new == KeepReachable(blocks)
             to  == Places(blocks)
         IN /\ new[to[b]].stmts = blocks[b].stmts
            /\ new[to[b]].term = Redirect(blocks[b].term, to)
<1> DEFINE new == KeepReachable(blocks)
           to == Places(blocks)
           u == Redirect(blocks[b].term, to)
<1>1. new[to[b]] = [stmts |-> blocks[b].stmts, term |-> u]
  BY KeptBlock
<1> HIDE DEF new, to, u
<1>2. new[to[b]].stmts = blocks[b].stmts /\ new[to[b]].term = u
  BY <1>1
<1> QED
  BY <1>2 DEF new, to, u

\* Removing the unreachable blocks keeps the runs.
LEMMA KeepReachableRuns ==
  ASSUME NEW blocks, IsGraph(blocks)
  PROVE  SameRuns(blocks, KeepReachable(blocks))
<1> DEFINE V == Reachable(blocks)
           to == Places(blocks)
           new == KeepReachable(blocks)
           K == {<<x, to[x], 0>> : x \in V}
<1>1. V \subseteq Nat /\ START \in V /\ 0 \in Nat /\ V \subseteq DOMAIN blocks
  BY GraphDomain, ReachableClosed
<1>2. \A x \in V : to[x] \in Nat
  <2> DEFINE n == Cardinality(V)
  <2>1. to \in [V -> 1 .. n] /\ n \in Nat
    BY PlacesAre
  <2> HIDE DEF to, V, n
  <2> QED
    BY <2>1
<1>3. to[START] = START
  BY PlacesAre
<1> HIDE DEF V, to
<1>4. K \subseteq Nat \X Nat \X Nat /\ <<START, START, 0>> \in K
  <2>1. \A x \in V : <<x, to[x], 0>> \in Nat \X Nat \X Nat
    BY <1>1, <1>2
  <2>2. <<START, to[START], 0>> \in K
    BY <1>1
  <2> QED
    BY <1>3, <2>1, <2>2
<1>5. \A x \in V : <<x, to[x], 0>> \in K
  OBVIOUS
<1>6. \A x, y, k : <<x, y, k>> \in K => x \in V /\ y = to[x]
  OBVIOUS
<1> HIDE DEF K
<1>7. ASSUME NEW input, NEW x \in V, NEW s, IsState(s), Going(s)
      PROVE  Alike(K, Step(blocks, [at |-> x, s |-> s], input),
                      Step(new, [at |-> to[x], s |-> s], input))
  <2> DEFINE one == Step(blocks, [at |-> x, s |-> s], input)
             nxt == Step(new, [at |-> to[x], s |-> s], input)
  <2>1. new[to[x]].stmts = blocks[x].stmts /\ new[to[x]].term = Redirect(blocks[x].term, to)
    BY KeptFields DEF V, to
  <2>2. IsTerminator(blocks[x].term) /\ ToSet(Successors(blocks[x].term)) \subseteq V
    BY <1>1, ReachableClosed DEF IsGraph, IsBlock, V
  <2>3. IsState(s) /\ Going(s)
    BY <1>7
  <2> HIDE DEF new
  <2>4. /\ one.s = nxt.s
        /\ Going(one.s) => one.at \in ToSet(Successors(blocks[x].term)) /\ nxt.at = to[one.at]
    BY <2>1, <2>2, <2>3, RedirectedStep
  <2> HIDE DEF one, nxt
  <2>5. Going(one.s) => <<one.at, nxt.at, 0>> \in K
    BY <1>5, <2>2, <2>4
  <2>6. Alike(K, one, nxt)
    BY <1>1, <2>4, <2>5 DEF Alike
  <2> QED
    BY <2>6 DEF one, nxt
<1> HIDE DEF new
<1>8. ASSUME NEW input PROVE Simulates(blocks, new, K, input)
  <2> SUFFICES ASSUME NEW x \in Nat, NEW y \in Nat, NEW k \in Nat, <<x, y, k>> \in K,
                      NEW s, IsState(s), Going(s)
               PROVE  Alike(K, Step(blocks, [at |-> x, s |-> s], input),
                               Step(new, [at |-> y, s |-> s], input))
    BY <1>4 DEF Simulates
  <2>1. x \in V /\ y = to[x]
    BY <1>6
  <2> QED
    BY <1>7, <2>1
<1> QED
  BY <1>1, <1>4, <1>8, SimulationGivesRuns DEF new

\* It leaves a graph, of which every block is reachable.
LEMMA KeepReachableGraph ==
  ASSUME NEW blocks, IsGraph(blocks)
  PROVE  LET new == KeepReachable(blocks)
         IN /\ IsGraph(new)
            /\ Reachable(new) = DOMAIN new
            /\ \A L : Names(blocks, L) => Names(new, L)
<1> DEFINE V == Reachable(blocks)
           to == Places(blocks)
           new == KeepReachable(blocks)
           n == Cardinality(V)
<1>1. V \subseteq DOMAIN blocks /\ START \in V
  BY ReachableClosed
<1>2. /\ n \in Nat /\ n > 0
      /\ to \in [V -> 1 .. n]
      /\ \A b, c \in V : to[b] = to[c] => b = c
      /\ \A i \in 1 .. n : \E b \in V : to[b] = i
      /\ to[START] = START
  BY PlacesAre
<1>3. DOMAIN new = 1 .. n
  BY <1>1, KeptBlock
<1>4. \A x \in V : new[to[x]] = [stmts |-> blocks[x].stmts, term |-> Redirect(blocks[x].term, to)]
  BY KeptBlock
<1>5. \A x \in V : /\ new[to[x]].stmts = blocks[x].stmts
                   /\ new[to[x]].term = Redirect(blocks[x].term, to)
  BY KeptFields
<1>6. \A x \in V : /\ IsBlock(blocks[x]) /\ IsTerminator(blocks[x].term)
                   /\ ToSet(Successors(blocks[x].term)) \subseteq V
                   /\ START \notin ToSet(Successors(blocks[x].term))
  BY <1>1, ReachableClosed DEF IsGraph, IsBlock
<1>7. new \in Seq(ToSet(new)) \ {<<>>}
  <2>1. new = [i \in 1 .. n |-> new[i]]
    BY <1>3 DEF KeepReachable
  <2>2. \A i \in 1 .. n : new[i] \in ToSet(new)
    BY <1>3 DEF ToSet
  <2> HIDE DEF new, n
  <2>3. [i \in 1 .. n |-> new[i]] \in Seq(ToSet(new))
    BY <1>2, <2>2
  <2>4. new # <<>>
    BY <1>2, <1>3
  <2> QED
    BY <2>1, <2>3, <2>4
<1> HIDE DEF new, to, V, n
<1>8. ASSUME NEW x \in V
      PROVE  /\ IsBlock(new[to[x]])
             /\ ToSet(Successors(new[to[x]].term)) = {to[y] : y \in ToSet(Successors(blocks[x].term))}
  <2>1. \A y \in ToSet(Successors(blocks[x].term)) : to[y] # START
    BY <1>1, <1>2, <1>6
  <2>2. IsBlock([stmts |-> blocks[x].stmts, term |-> Redirect(blocks[x].term, to)])
    BY <1>6, <2>1, RedirectedBlock
  <2>3. IsBlock(new[to[x]])
    BY <1>4, <2>2
  <2> QED
    BY <1>5, <1>6, <2>3, RedirectedTerm
<1>9. IsGraph(new)
  <2>1. ASSUME NEW i \in DOMAIN new
        PROVE  IsBlock(new[i]) /\ ToSet(Successors(new[i].term)) \subseteq DOMAIN new
    <3>1. PICK x \in V : to[x] = i
      BY <1>2, <1>3
    <3>2. \A y \in ToSet(Successors(blocks[x].term)) : to[y] \in DOMAIN new
      BY <1>2, <1>3, <1>6
    <3> QED
      BY <1>8, <3>1, <3>2
  <2> QED
    BY <1>7, <2>1 DEF IsGraph
<1>10. Reachable(new) = DOMAIN new
  <2> DEFINE R == Reachable(new)
             S == {b \in V : to[b] \in R}
  <2>1. /\ R \subseteq DOMAIN new /\ START \in R
        /\ \A i \in R : ToSet(Successors(new[i].term)) \subseteq R
    BY <1>9, ReachableClosed
  <2>2. START \in S
    BY <1>1, <1>2, <2>1
  <2>3. ASSUME NEW b \in S PROVE ToSet(Successors(blocks[b].term)) \subseteq S
    BY <1>6, <1>8, <2>1
  <2>4. V \subseteq S
    <3> HIDE DEF S
    <3> QED
      BY <2>2, <2>3, ReachableLeast DEF V
  <2>5. \A i \in DOMAIN new : i \in R
    <3>1. \A i \in DOMAIN new : \E b \in V : to[b] = i
      BY <1>2, <1>3
    <3> QED
      BY <2>4, <3>1
  <2> QED
    BY <2>1, <2>5
<1>11. ASSUME NEW L, Names(blocks, L) PROVE Names(new, L)
  <2>1. ASSUME NEW i \in DOMAIN new PROVE LocalsNamed(new[i]) \subseteq L
    <3>1. PICK x \in V : to[x] = i
      BY <1>2, <1>3
    <3>2. LocalsNamed(new[i]) = LocalsNamed(blocks[x])
      BY <1>5, <1>6, <3>1, RedirectedNames
    <3> QED
      BY <1>1, <1>11, <3>2 DEF Names
  <2> QED
    BY <2>1 DEF Names
<1> QED
  BY <1>9, <1>10, <1>11 DEF new

-----------------------------------------------------------------------------
(* The end of the rounds. *)

\* No edge leads to t.
NoEdge(A, t) == \A c \in DOMAIN A : t \notin ToSet(Successors(A[c].term))

\* Taking in draws no edge to a block that had none ...
LEMMA NoEdgeKept ==
  ASSUME NEW A, NEW a, NEW b, CanTakeIn(A, a, b), NEW t, NoEdge(A, t)
  PROVE  NoEdge(TakeIn(A, a, b), t)
<1>1. b \in DOMAIN A
  BY DEF CanTakeIn
<1>2. ASSUME NEW c \in DOMAIN A PROVE t \notin ToSet(Successors(TakeIn(A, a, b)[c].term))
  BY <1>1, TakenInTerms DEF NoEdge
<1> QED
  BY <1>1, <1>2, TakenInTerms DEF NoEdge

\* ... and leaves none to the block taken in.
LEMMA NoEdgeLeft ==
  ASSUME NEW A, NEW a, NEW b, CanTakeIn(A, a, b)
  PROVE  NoEdge(TakeIn(A, a, b), b)
<1>1. b \in DOMAIN A /\ a # b
  BY DEF CanTakeIn
<1>2. \A c \in DOMAIN A \ {a} : b \notin ToSet(Successors(A[c].term))
  BY OnlyFrom
<1>3. ASSUME NEW c \in DOMAIN A PROVE b \notin ToSet(Successors(TakeIn(A, a, b)[c].term))
  BY <1>1, <1>2, TakenInTerms
<1> QED
  BY <1>1, <1>3, TakenInTerms DEF NoEdge

\* A merge that changes nothing has taken in nothing.
LEMMA NothingTaken ==
  ASSUME NEW B, IsGraph(B), MergeSinglePredecessor(B) = B, NEW n \in DOMAIN B,
         B[n].term.kind = "goto"
  PROVE  B[n].term.target = n \/ PredecessorCounts(B)[B[n].term.target] # 1
<1> DEFINE N == Len(B)
           preds == PredecessorCounts(B)
<1>1. N \in Nat /\ DOMAIN B = 1 .. N
  BY GraphDomain
<1>2. PICK f : /\ f[0] = B /\ MergeSinglePredecessor(B) = f[N]
               /\ \A k \in 1 .. N : f[k] = MergeAt(f[k - 1], k, preds)
               /\ \A k \in 0 .. N : MergedSoFar(B, f[k])
  BY MergeSteps
<1> HIDE DEF preds
<1>4. \A k \in 1 .. N : f[k] = MergeAt(f[k - 1], k, preds) /\ k - 1 \in 0 .. N /\ k \in 0 .. N /\ k \in DOMAIN B
  BY <1>1, <1>2
<1>5. f[0] = B /\ f[N] = B
  BY <1>2
<1>6. \A k \in 0 .. N : MergedSoFar(B, f[k])
  BY <1>2
<1> HIDE DEF N
\* Whatever is taken in leaves a block that no edge leads to any more.
<1>7. ASSUME NEW k \in 1 .. N, f[k - 1] = B
      PROVE  ~(B[k].term.kind = "goto" /\ B[k].term.target # k /\ preds[B[k].term.target] = 1)
  <2> DEFINE t == B[k].term.target
  <2> SUFFICES ASSUME B[k].term.kind = "goto", t # k, preds[t] = 1
               PROVE  FALSE
    OBVIOUS
  <2>0. k \in DOMAIN B /\ MergedSoFar(B, B)
    BY <1>4, <1>6, <1>7
  <2>1. f[k] = TakeIn(B, k, t) /\ CanTakeIn(B, k, t)
    BY <1>4, <1>7, <2>0, MergeAtTakes DEF preds
  <2> DEFINE T == {m \in 0 .. N : m >= k => NoEdge(f[m], t)}
  <2>2. 0 \in T
    BY <1>1
  <2>3. ASSUME NEW m \in 1 .. N, m - 1 \in T PROVE m \in T
    <3> SUFFICES ASSUME m >= k PROVE NoEdge(f[m], t)
      BY <1>4
    <3>1. CASE m = k
      BY <2>1, <3>1, NoEdgeLeft
    <3>2. CASE m # k
      <4>1. NoEdge(f[m - 1], t)
        BY <2>3, <3>2
      <4>2. MergedSoFar(B, f[m - 1]) /\ f[m] = MergeAt(f[m - 1], m, preds) /\ m \in DOMAIN B
        BY <1>4, <1>6
      <4>3. \/ f[m] = f[m - 1]
            \/ \E b : f[m] = TakeIn(f[m - 1], m, b) /\ CanTakeIn(f[m - 1], m, b)
        BY <4>2, MergeAtTakes DEF preds
      <4> QED
        BY <4>1, <4>3, NoEdgeKept
    <3> QED
      BY <3>1, <3>2
  <2>4. 0 .. N \subseteq T
    <3> HIDE DEF T
    <3> QED
      BY <1>1, <2>2, <2>3, IntervalInduction
  <2>5. NoEdge(B, t)
    <3>1. N \in 0 .. N /\ N >= k
      BY <1>1
    <3> QED
      BY <1>5, <2>4, <3>1
  <2>6. IsTerminator(B[k].term)
    BY <2>0 DEF IsGraph, IsBlock
  <2> QED
    BY <2>0, <2>5, <2>6, Redirected DEF NoEdge
<1>8. \A k \in 0 .. N : f[k] = B
  <2> DEFINE T == {k \in 0 .. N : f[k] = B}
  <2>1. 0 \in T
    BY <1>1, <1>5
  <2>2. ASSUME NEW k \in 1 .. N, k - 1 \in T PROVE k \in T
    <3>1. f[k - 1] = B
      BY <2>2
    <3>2. f[k] = MergeAt(B, k, preds) /\ k \in 0 .. N /\ k \in DOMAIN B /\ MergedSoFar(B, B)
      BY <1>4, <1>6, <3>1
    <3>3. ~(B[k].term.kind = "goto" /\ B[k].term.target # k /\ preds[B[k].term.target] = 1)
      BY <1>7, <3>1
    <3>4. MergeAt(B, k, preds) = B
      BY <3>3 DEF MergeAt
    <3> QED
      BY <3>2, <3>4
  <2>3. 0 .. N \subseteq T
    <3> HIDE DEF T
    <3> QED
      BY <1>1, <2>1, <2>2, IntervalInduction
  <2> QED
    BY <2>3
<1>9. n \in 1 .. N /\ f[n - 1] = B
  BY <1>1, <1>4, <1>8
<1> QED
  BY <1>7, <1>9 DEF preds

\* A reachable block has an edge to it, and one that is not its own.
LEMMA EdgeFromOther ==
  ASSUME NEW B, IsGraph(B), Reachable(B) = DOMAIN B, NEW b \in DOMAIN B, b # START
  PROVE  \E c \in DOMAIN B \ {b} : b \in ToSet(Successors(B[c].term))
<1> SUFFICES ASSUME \A c \in DOMAIN B \ {b} : b \notin ToSet(Successors(B[c].term))
             PROVE  FALSE
  OBVIOUS
<1> DEFINE S == DOMAIN B \ {b}
<1>1. START \in S
  BY GraphDomain
<1>2. \A c \in S \intersect DOMAIN B : ToSet(Successors(B[c].term)) \subseteq S
  BY DEF IsGraph
<1>3. Reachable(B) \subseteq S
  <2> HIDE DEF S
  <2> QED
    BY <1>1, <1>2, ReachableLeast
<1> QED
  BY <1>3

\* Where no step changes anything, there is nothing left to do.
LEMMA FixedIsSettled ==
  ASSUME NEW B, IsGraph(B), Reachable(B) = DOMAIN B, ThreadGotos(B) = B,
         CollapseUniformSwitches(B) = B, MergeSinglePredecessor(B) = B
  PROVE  Settled(B)
<1> DEFINE V == DOMAIN B
           to == [c \in V |-> Resolve(B, c)]
<1>1. \A b \in V : /\ IsTerminator(B[b].term)
                   /\ ToSet(Successors(B[b].term)) \subseteq V
                   /\ START \notin ToSet(Successors(B[b].term))
  BY DEF IsGraph, IsBlock
<1>2. ASSUME NEW b \in V, B[b].term.kind = "switch" PROVE B[b].term.hit # B[b].term.otherwise
  <2> SUFFICES ASSUME B[b].term.hit = B[b].term.otherwise PROVE FALSE
    OBVIOUS
  <2>1. B[b] = [stmts |-> B[b].stmts, term |-> Goto(B[b].term.otherwise)]
    BY <1>2, CollapsedBlock
  <2>2. B[b].term.kind = "goto"
    BY <2>1, TerminatorFields
  <2> QED
    BY <1>2, <2>2
<1>3. ASSUME NEW b \in V, B[b].term.kind = "goto"
      PROVE  PredecessorCounts(B)[B[b].term.target] > 1
  <2> DEFINE t == B[b].term.target
             edges == EdgesTo(B, t)
  <2>1. t \in ToSet(Successors(B[b].term)) /\ t \in V /\ t # START
    <3>1. ToSet(Successors(B[b].term)) = {t}
      BY <1>1, <1>3, Redirected
    <3> QED
      BY <1>1, <3>1
  <2>2. PredecessorCounts(B)[t] = Cardinality(edges)
    BY <2>1 DEF PredecessorCounts
  <2>3. IsFiniteSet(edges)
    <3>1. V = 1 .. Len(B) /\ Len(B) \in Int /\ 1 \in Int /\ 2 \in Int
      BY GraphDomain
    <3>2. IsFiniteSet(V) /\ IsFiniteSet(1 .. 2)
      BY <3>1, FS_Interval
    <3>3. IsFiniteSet(V \X (1 .. 2))
      <4> HIDE DEF V
      <4> QED
        BY <3>2, FS_Product
    <3>4. edges \in SUBSET (V \X (1 .. 2))
      BY DEF EdgesTo
    <3> HIDE DEF edges, V
    <3> QED
      BY <3>3, <3>4, FS_Subset
  <2>4. \E i \in 1 .. 2 : <<b, i>> \in edges
    BY <2>1, EdgeTo
  <2>5. Cardinality(edges) \in Nat /\ Cardinality(edges) # 0
    <3> HIDE DEF edges
    <3> QED
      BY <2>3, <2>4, FS_CardinalityType, FS_EmptySet
  <2>6. Cardinality(edges) # 1
    <3>1. CASE t = b
      <4>1. PICK c \in V \ {t} : t \in ToSet(Successors(B[c].term))
        BY <2>1, EdgeFromOther
      <4>2. PICK i \in 1 .. 2 : <<c, i>> \in edges
        BY <4>1, EdgeTo
      <4>3. PICK j \in 1 .. 2 : <<b, j>> \in edges
        BY <2>4
      <4>4. <<c, i>> # <<b, j>>
        BY <3>1, <4>1
      <4> HIDE DEF edges
      <4> QED
        BY <2>3, <4>2, <4>3, <4>4, FS_Singleton
    <3>2. CASE t # b
      <4>1. t = b \/ PredecessorCounts(B)[t] # 1
        BY <1>3, NothingTaken
      <4> QED
        BY <2>2, <3>2, <4>1
    <3> QED
      BY <3>1, <3>2
  <2> HIDE DEF edges, t
  <2>7. PredecessorCounts(B)[t] > 1
    BY <2>2, <2>5, <2>6
  <2> QED
    BY <2>7 DEF t
<1>4. ASSUME NEW b \in V, b # START PROVE Resolve(B, b) = b
  <2>1. PICK c \in V : b \in ToSet(Successors(B[c].term))
    BY <1>4, EdgeFromOther
  <2> DEFINE t == B[c].term
  <2>2. t = Redirect(t, to)
    BY ThreadedBlock
  <2>3. t.kind \in {"goto", "call", "switch", "return", "unreachable"}
    BY <1>1, Redirected
  <2>4. CASE t.kind = "goto"
    <3>1. t = Goto(to[t.target]) /\ b = t.target
      BY <1>1, <2>1, <2>2, <2>4, Redirected
    <3> HIDE DEF t, to
    <3>2. t.target = to[t.target]
      BY <3>1, TerminatorFields
    <3> QED
      BY <3>1, <3>2 DEF to
  <2>5. CASE t.kind = "call"
    <3>1. t = Call(t.args, t.dest, to[t.target]) /\ b = t.target
      BY <1>1, <2>1, <2>2, <2>5, Redirected
    <3> HIDE DEF t, to
    <3>2. t.target = to[t.target]
      BY <3>1, TerminatorFields
    <3> QED
      BY <3>1, <3>2 DEF to
  <2>6. CASE t.kind = "switch"
    <3>1. t = Switch(t.discr, t.value, to[t.hit], to[t.otherwise]) /\ b \in {t.hit, t.otherwise}
      BY <1>1, <2>1, <2>2, <2>6, Redirected
    <3> HIDE DEF t, to
    <3>2. t.hit = to[t.hit] /\ t.otherwise = to[t.otherwise]
      BY <3>1, TerminatorFields
    <3> QED
      BY <3>1, <3>2 DEF to
  <2>7. CASE t.kind \in {"return", "unreachable"}
    BY <1>1, <2>1, <2>7, Redirected
  <2> QED
    BY <2>3, <2>4, <2>5, <2>6, <2>7
<1> QED
  BY <1>2, <1>3, <1>4 DEF Settled

-----------------------------------------------------------------------------
(* The invariant. *)

\* The blocks of a body that validation does not object to.
LEMMA BodyGraph ==
  ASSUME NEW b, IsBody(b), InRange(b)
  PROVE  IsGraph(b.blocks) /\ Names(b.blocks, 0 .. b.locals - 1)
BY DEF IsBody, InRange, IsGraph, Names

\* A body with other blocks in place of its own.
LEMMA GraphBody ==
  ASSUME NEW b, IsBody(b), InRange(b), NEW blocks, IsGraph(blocks),
         Names(blocks, 0 .. b.locals - 1), NEW c, c = [b EXCEPT !.blocks = blocks]
  PROVE  IsBody(c) /\ InRange(c) /\ c.locals = b.locals /\ c.blocks = blocks
<1>1. c = [locals |-> b.locals, blocks |-> blocks]
  BY DEF IsBody
<1>2. c.locals = b.locals /\ c.blocks = blocks /\ c = [locals |-> c.locals, blocks |-> c.blocks]
  BY <1>1
<1>3. b.locals \in Nat /\ b.locals > 0
  BY DEF IsBody, InRange
<1>4. IsBody(c)
  BY <1>2, <1>3 DEF IsBody, IsGraph
<1>5. InRange(c)
  BY <1>2, <1>3 DEF InRange, IsGraph, Names
<1> QED
  BY <1>2, <1>4, <1>5

\* What validation asks for besides.
LEMMA ValidIs ==
  ASSUME NEW b
  PROVE  IsValid(b) <=> InRange(b) /\ Reachable(b.blocks) = DOMAIN b.blocks
BY DEF IsValid, InRange

\* All along, the body has the runs and the locals of the one that came.
RunsInv ==
  stage # "build" => SameRuns(given.blocks, body.blocks) /\ body.locals = given.locals

\* The inductive invariant.
IInv == SimplifyInv /\ RunsInv

\* What each of the steps makes of the blocks.
StepKeeps(was, now) ==
  /\ IsGraph(now)
  /\ SameRuns(was, now)
  /\ \A L : Names(was, L) => Names(now, L)

\* Each of the four does.
LEMMA StepsKeep ==
  ASSUME NEW blocks, IsGraph(blocks)
  PROVE  /\ StepKeeps(blocks, ThreadGotos(blocks))
         /\ StepKeeps(blocks, CollapseUniformSwitches(blocks))
         /\ StepKeeps(blocks, MergeSinglePredecessor(blocks))
         /\ StepKeeps(blocks, RemoveUnreachable(blocks))
         /\ Reachable(RemoveUnreachable(blocks)) = DOMAIN RemoveUnreachable(blocks)
<1>1. StepKeeps(blocks, ThreadGotos(blocks))
  BY ThreadGraph, ThreadKeepsRuns DEF StepKeeps
<1>2. StepKeeps(blocks, CollapseUniformSwitches(blocks))
  BY CollapseGraph, CollapseKeepsRuns DEF StepKeeps
<1>3. StepKeeps(blocks, MergeSinglePredecessor(blocks))
  BY MergeKeeps DEF MergedSoFar, StepKeeps
<1>4. /\ StepKeeps(blocks, RemoveUnreachable(blocks))
      /\ Reachable(RemoveUnreachable(blocks)) = DOMAIN RemoveUnreachable(blocks)
  BY KeepReachableGraph, KeepReachableRuns DEF StepKeeps, RemoveUnreachable
<1> QED
  BY <1>1, <1>2, <1>3, <1>4

\* The body with the blocks of a step.
LEMMA StepBody ==
  ASSUME IInv, stage \in {"thread", "collapse", "merge", "remove"},
         NEW blocks, StepKeeps(body.blocks, blocks),
         body' = [body EXCEPT !.blocks = blocks], given' = given
  PROVE  /\ IsBody(body') /\ InRange(body')
         /\ body'.locals = given'.locals
         /\ body'.blocks = blocks
         /\ SameRuns(given'.blocks, body'.blocks)
<1>1. IsBody(body) /\ InRange(body) /\ body.locals = given.locals
  BY DEF IInv, SimplifyInv, ValidInv
<1>2. IsGraph(body.blocks) /\ Names(body.blocks, 0 .. body.locals - 1)
  BY <1>1, BodyGraph
<1>3. IsGraph(blocks) /\ Names(blocks, 0 .. body.locals - 1) /\ SameRuns(body.blocks, blocks)
  BY <1>2 DEF StepKeeps
<1>4. IsBody(body') /\ InRange(body') /\ body'.locals = body.locals /\ body'.blocks = blocks
  BY <1>1, <1>3, GraphBody
<1>5. SameRuns(given.blocks, body.blocks)
  BY DEF IInv, RunsInv
<1>6. SameRuns(given.blocks, blocks)
  BY <1>3, <1>5, SameRunsThrough
<1> QED
  BY <1>1, <1>4, <1>6

\* The steps are taken on graphs.
LEMMA BodyIsGraph ==
  ASSUME SimplifyInv, stage \in {"thread", "collapse", "merge", "remove"}
  PROVE  IsGraph(body.blocks)
BY BodyGraph DEF SimplifyInv, ValidInv

\* The invariant holds at first ...
LEMMA InitInv == SimplifyInit => IInv
<1>1. 1 \in 1 .. MaxRounds
  BY RoundsAssumption
<1> QED
  BY <1>1 DEF SimplifyInit, IInv, SimplifyInv, ValidInv, SettledInv, RunsInv

\* ... when the lowering hands over a body ...
LEMMA BeginInv ==
  ASSUME IInv, NEW b \in Bodies, Begin(b)
  PROVE  IInv'
<1>1. IsBody(b)
  BY BodiesAssumption
<1>2. given' = b /\ body' = b /\ stage' = (IF IsValid(b) THEN "thread" ELSE "broken")
  BY DEF Begin
<1>3. SameRuns(b.blocks, b.blocks)
  BY SameRunsSame
<1>4. RunsInv'
  BY <1>2, <1>3 DEF RunsInv
<1>5. ValidInv'
  <2>1. CASE IsValid(b)
    BY <1>1, <1>2, <2>1, ValidIs DEF ValidInv
  <2>2. CASE ~IsValid(b)
    BY <1>2, <2>2 DEF ValidInv
  <2> QED
    BY <2>1, <2>2
<1>6. SettledInv'
  BY <1>2 DEF SettledInv
<1>7. round' = round /\ changed' = changed
  BY DEF Begin
<1> QED
  BY <1>2, <1>4, <1>5, <1>6, <1>7 DEF IInv, SimplifyInv

\* A step on the blocks in the middle of a round.
LEMMA ApplyInv ==
  ASSUME IInv, stage \in {"thread", "collapse", "merge"}, NEW blocks, Apply(blocks),
         StepKeeps(body.blocks, blocks), stage' \in {"collapse", "merge", "remove"}
  PROVE  /\ ValidInv' /\ RunsInv'
         /\ body'.blocks = blocks
         /\ round' \in 1 .. MaxRounds /\ changed' \in BOOLEAN
         /\ ~changed' => ~changed /\ blocks = body.blocks
<1>1. /\ body' = [body EXCEPT !.blocks = blocks] /\ given' = given
      /\ round' = round /\ changed' = (changed \/ blocks # body.blocks)
  BY DEF Apply
<1>2. /\ IsBody(body') /\ InRange(body')
      /\ body'.locals = given'.locals
      /\ body'.blocks = blocks
      /\ SameRuns(given'.blocks, body'.blocks)
  BY <1>1, StepBody
<1>3. ValidInv' /\ RunsInv'
  BY <1>2 DEF ValidInv, RunsInv
<1> QED
  BY <1>1, <1>2, <1>3 DEF IInv, SimplifyInv

\* ... after each of the steps ...
LEMMA ThreadInv == IInv /\ DoThreadGotos => IInv'
<1> SUFFICES ASSUME IInv, DoThreadGotos PROVE IInv'
  OBVIOUS
<1> DEFINE blocks == ThreadGotos(body.blocks)
<1>1. stage = "thread" /\ Apply(blocks) /\ stage' = "collapse"
  BY DEF DoThreadGotos
<1>2. StepKeeps(body.blocks, blocks)
  BY <1>1, BodyIsGraph, StepsKeep DEF IInv
<1> HIDE DEF blocks
<1>3. /\ ValidInv' /\ RunsInv' /\ body'.blocks = blocks
      /\ round' \in 1 .. MaxRounds /\ changed' \in BOOLEAN
      /\ ~changed' => ~changed /\ blocks = body.blocks
  BY <1>1, <1>2, ApplyInv
<1>4. SettledInv'
  BY <1>1, <1>3 DEF SettledInv, blocks
<1> QED
  BY <1>1, <1>3, <1>4 DEF IInv, SimplifyInv

\* (collapsing)
LEMMA CollapseInv == IInv /\ DoCollapse => IInv'
<1> SUFFICES ASSUME IInv, DoCollapse PROVE IInv'
  OBVIOUS
<1> DEFINE blocks == CollapseUniformSwitches(body.blocks)
<1>1. stage = "collapse" /\ Apply(blocks) /\ stage' = "merge"
  BY DEF DoCollapse
<1>2. StepKeeps(body.blocks, blocks)
  BY <1>1, BodyIsGraph, StepsKeep DEF IInv
<1> HIDE DEF blocks
<1>3. /\ ValidInv' /\ RunsInv' /\ body'.blocks = blocks
      /\ round' \in 1 .. MaxRounds /\ changed' \in BOOLEAN
      /\ ~changed' => ~changed /\ blocks = body.blocks
  BY <1>1, <1>2, ApplyInv
<1>4. SettledInv
  BY DEF IInv, SimplifyInv
<1>5. SettledInv'
  BY <1>1, <1>3, <1>4 DEF SettledInv, blocks
<1> QED
  BY <1>1, <1>3, <1>5 DEF IInv, SimplifyInv

\* (merging)
LEMMA MergeInv == IInv /\ DoMerge => IInv'
<1> SUFFICES ASSUME IInv, DoMerge PROVE IInv'
  OBVIOUS
<1> DEFINE blocks == MergeSinglePredecessor(body.blocks)
<1>1. stage = "merge" /\ Apply(blocks) /\ stage' = "remove"
  BY DEF DoMerge
<1>2. StepKeeps(body.blocks, blocks)
  BY <1>1, BodyIsGraph, StepsKeep DEF IInv
<1> HIDE DEF blocks
<1>3. /\ ValidInv' /\ RunsInv' /\ body'.blocks = blocks
      /\ round' \in 1 .. MaxRounds /\ changed' \in BOOLEAN
      /\ ~changed' => ~changed /\ blocks = body.blocks
  BY <1>1, <1>2, ApplyInv
<1>4. SettledInv
  BY DEF IInv, SimplifyInv
<1>5. SettledInv'
  BY <1>1, <1>3, <1>4 DEF SettledInv, blocks
<1> QED
  BY <1>1, <1>3, <1>5 DEF IInv, SimplifyInv

\* (removing: the step that ends a round and may end them all)
LEMMA RemoveInv == IInv /\ DoRemove => IInv'
<1> SUFFICES ASSUME IInv, DoRemove PROVE IInv'
  OBVIOUS
<1> DEFINE blocks == RemoveUnreachable(body.blocks)
           again == (changed \/ blocks # body.blocks) /\ round < MaxRounds
<1>1. stage = "remove" /\ SimplifyInv
  BY DEF DoRemove, IInv
<1>2. IsGraph(body.blocks)
  BY <1>1, BodyIsGraph
<1>3. StepKeeps(body.blocks, blocks) /\ Reachable(blocks) = DOMAIN blocks
  BY <1>2, StepsKeep
<1>4. /\ body' = [body EXCEPT !.blocks = blocks] /\ given' = given /\ changed' = FALSE
      /\ round' = IF again THEN round + 1 ELSE round
      /\ stage' = IF again THEN "thread" ELSE IF IsValid(body') THEN "simplified" ELSE "broken"
  BY DEF DoRemove
<1> HIDE DEF blocks
<1>5. /\ IsBody(body') /\ InRange(body')
      /\ body'.locals = given'.locals
      /\ body'.blocks = blocks
      /\ SameRuns(given'.blocks, body'.blocks)
  BY <1>1, <1>3, <1>4, StepBody
<1>6. IsValid(body')
  BY <1>3, <1>5, ValidIs
<1>7. stage' = IF again THEN "thread" ELSE "simplified"
  BY <1>4, <1>6
<1>8. ValidInv' /\ RunsInv'
  BY <1>5, <1>6, <1>7 DEF ValidInv, RunsInv
<1>9. round' \in 1 .. MaxRounds
  BY <1>1, <1>4, RoundsAssumption DEF SimplifyInv
<1>10. SettledInv'
  <2>1. CASE again
    BY <1>7, <2>1 DEF SettledInv
  <2>2. CASE ~again
    <3>1. stage' = "simplified" /\ round' = round
      BY <1>4, <1>7, <2>2
    <3>2. ASSUME round < MaxRounds PROVE Settled(blocks)
      <4>1. ~changed /\ blocks = body.blocks
        BY <2>2, <3>2
      <4>2. /\ ThreadGotos(body.blocks) = body.blocks
            /\ CollapseUniformSwitches(body.blocks) = body.blocks
            /\ MergeSinglePredecessor(body.blocks) = body.blocks
        BY <1>1, <4>1 DEF SimplifyInv, SettledInv
      <4> QED
        BY <1>2, <1>3, <4>1, <4>2, FixedIsSettled
    <3> QED
      BY <1>5, <3>1, <3>2 DEF SettledInv
  <2> QED
    BY <2>1, <2>2
<1> QED
  BY <1>4, <1>7, <1>8, <1>9, <1>10 DEF IInv, SimplifyInv

\* ... and so always.
LEMMA NextInv == IInv /\ [SimplifyNext]_simplifyVars => IInv'
<1>1. ASSUME IInv, UNCHANGED simplifyVars PROVE IInv'
  BY <1>1 DEF simplifyVars, IInv, SimplifyInv, ValidInv, SettledInv, RunsInv
<1> QED
  BY <1>1, BeginInv, ThreadInv, CollapseInv, MergeInv, RemoveInv DEF SimplifyNext

\* The invariant holds in every state.
LEMMA Invariance == SimplifySpec => []IInv
BY InitInv, NextInv, PTL DEF SimplifySpec

\* A body that validation has accepted is accepted again after every round and
\* at the end, its blocks and locals in range after every single step; and when the
\* rounds end before the limit, no step has anything left to do.  So the second
\* validation of the pass never fails: a body it would refuse is the lowering's.
THEOREM StaysValid == SimplifySpec => []SimplifyInv
<1>1. IInv => SimplifyInv
  BY DEF IInv
<1> QED
  BY <1>1, Invariance, PTL

\* The body behaves as the one that came, on whatever input and however long a
\* run takes.
SameBehaviour == stage # "build" => SameResults(given, body)

\* From step to step of every round, simplify_cfg keeps what a body does: a run of
\* the given body that ends, ends in the same state in the simplified one, after no
\* more blocks; and a run of the simplified body that ends, ends so in the given
\* one.  So neither of the two runs on for ever where the other ends.
THEOREM BehaviourKept == SimplifySpec => []SameBehaviour
<1>1. IInv => SameBehaviour
  BY RunsAreResults DEF IInv, RunsInv, SameBehaviour
<1> QED
  BY <1>1, Invariance, PTL

\* RunKept, which the run checks for one bound and a few inputs, always holds.
THEOREM EndsKept == SimplifySpec => []RunKept
<1>1. SameBehaviour => RunKept
  BY FuelAssumption DEF SameBehaviour, SameResults, RunKept
<1> QED
  BY <1>1, BehaviourKept, PTL
=============================================================================
