-------------------------- MODULE DominatorsProofs --------------------------
(***************************************************************************)
(* Theorems about Dominators, for all bodies: the walk of the graph comes  *)
(* to an end and gives a reverse postorder; round after round, the blocks  *)
(* then have fewer and fewer blocks that may dominate them, and never lose *)
(* one that does; when nothing changes any more, they have no other.       *)
(***************************************************************************)
EXTENDS Dominators, SimplifyCfgProofs

-----------------------------------------------------------------------------
(* Sequences and successors. *)

\* An element more at the end.
Longer(s, e) == Append(s, e)

LEMMA Appended ==
  ASSUME NEW V, NEW s \in Seq(V), NEW e \in V
  PROVE  /\ Longer(s, e) \in Seq(V)
         /\ Len(s) \in Nat /\ Len(Longer(s, e)) = Len(s) + 1
BY AppendProperties, LenProperties DEF Longer

\* Its elements.
LEMMA AppendedAt ==
  ASSUME NEW V, NEW s \in Seq(V), NEW e \in V
  PROVE  /\ \A i \in 1 .. Len(s) : Longer(s, e)[i] = s[i]
         /\ Longer(s, e)[Len(s) + 1] = e
BY AppendProperties DEF Longer

LEMMA AppendedSet ==
  ASSUME NEW V, NEW s \in Seq(V), NEW e \in V
  PROVE  ToSet(Longer(s, e)) = ToSet(s) \union {e}
<1> DEFINE t == Longer(s, e)
<1>1. t \in Seq(V) /\ Len(s) \in Nat /\ Len(t) = Len(s) + 1
  BY Appended
<1>2. DOMAIN s = 1 .. Len(s) /\ DOMAIN t = 1 .. Len(s) + 1
  BY <1>1, LenProperties
<1>3. (\A i \in 1 .. Len(s) : t[i] = s[i]) /\ t[Len(s) + 1] = e
  BY AppendedAt
<1> HIDE DEF t
<1>4. ToSet(t) = ToSet(s) \union {e}
  BY <1>1, <1>2, <1>3 DEF ToSet
<1> QED
  BY <1>4 DEF t

\* The last element taken away.
LEMMA Fronted ==
  ASSUME NEW V, NEW s \in Seq(V), s # <<>>, NEW t, t = Front(s)
  PROVE  /\ t \in Seq(V)
         /\ Len(s) \in Nat \ {0} /\ Len(t) = Len(s) - 1
         /\ \A i \in 1 .. Len(t) : t[i] = s[i]
         /\ Last(s) = s[Len(s)] /\ Last(s) \in V
         /\ ToSet(s) = ToSet(t) \union {Last(s)}
<1>1. Len(s) \in Nat \ {0} /\ s \in [1 .. Len(s) -> V]
  BY EmptySeq, LenProperties
<1>2. PICK n \in Nat : Len(s) = n + 1
  <2>1. \A m \in Nat \ {0} : m - 1 \in Nat /\ m = m - 1 + 1
    OBVIOUS
  <2> QED
    BY <1>1, <2>1
<1>3. s \in [1 .. n + 1 -> V] /\ Len(s) - 1 = n
  BY <1>1, <1>2
<1>4. /\ SubSeq(s, 1, n) \in Seq(V)
      /\ Len(SubSeq(s, 1, n)) = IF 1 <= n THEN n - 1 + 1 ELSE 0
      /\ \A i \in 1 .. n - 1 + 1 : SubSeq(s, 1, n)[i] = s[1 + i - 1]
  <2>1. \A i \in 1 .. n : s[i] \in V
    BY <1>3
  <2>2. 1 \in Int /\ n \in Int
    OBVIOUS
  <2> QED
    BY <2>1, <2>2, SubSeqProperties
<1>5. t = SubSeq(s, 1, n)
  BY <1>3 DEF Front
<1>6. t \in Seq(V) /\ Len(t) = n /\ \A i \in 1 .. n : t[i] = s[i]
  BY <1>4, <1>5
<1>7. DOMAIN t = 1 .. n
  BY <1>6, LenProperties
<1>8. Last(s) = s[n + 1] /\ Last(s) \in V
  BY <1>2, <1>3 DEF Last
<1>9. ToSet(s) = ToSet(t) \union {Last(s)}
  BY <1>3, <1>6, <1>7, <1>8 DEF ToSet
<1> QED
  BY <1>1, <1>2, <1>3, <1>6, <1>8, <1>9

\* A block has at most two successors, and bb0 is not among them.
LEMMA SuccessorsOf ==
  ASSUME NEW blocks, IsGraph(blocks), NEW b \in DOMAIN blocks, NEW succs,
         succs = Successors(blocks[b].term)
  PROVE  /\ Len(succs) \in 0 .. 2
         /\ DOMAIN succs = 1 .. Len(succs)
         /\ \A i \in 1 .. Len(succs) : succs[i] \in DOMAIN blocks
         /\ \A i \in 1 .. Len(succs) : succs[i] \in ToSet(succs)
         /\ \A c \in ToSet(succs) : c \in DOMAIN blocks /\ \E i \in 1 .. Len(succs) : succs[i] = c
         /\ START \notin ToSet(succs)
<1> DEFINE t == blocks[b].term
<1>1. IsTerminator(t) /\ START \notin ToSet(succs) /\ ToSet(succs) \subseteq DOMAIN blocks
  BY DEF IsGraph, IsBlock
<1>2. t.kind \in {"goto", "call", "switch", "return", "unreachable"}
  BY <1>1 DEF IsTerminator
<1>3. \/ succs = <<>>
      \/ succs = <<t.target>>
      \/ succs = <<t.hit, t.otherwise>>
  BY <1>2 DEF Successors
<1>4. Len(succs) \in 0 .. 2 /\ DOMAIN succs = 1 .. Len(succs)
  <2> HIDE DEF t
  <2> QED
    BY <1>3
<1> QED
  BY <1>1, <1>4 DEF ToSet

-----------------------------------------------------------------------------
(* The walk. *)

Succs(blocks, b) == Successors(blocks[b].term)

\* The blocks visited are those on the stack and those left, each of them once.
EachOnce(w) ==
  /\ w.visited = ToSet(w.stack) \union ToSet(w.post)
  /\ ToSet(w.stack) \intersect ToSet(w.post) = {}
  /\ \A i, j \in 1 .. Len(w.stack) : w.stack[i] = w.stack[j] => i = j
  /\ \A i, j \in 1 .. Len(w.post) : w.post[i] = w.post[j] => i = j

\* What has been looked at has been visited, and a block is left when all its
\* successors have been looked at.
Looked(blocks, w) ==
  \A b \in DOMAIN blocks :
    /\ w.next[b] <= Len(Succs(blocks, b))
    /\ \A i \in 1 .. w.next[b] : Succs(blocks, b)[i] \in w.visited
    /\ b \in ToSet(w.post) => w.next[b] = Len(Succs(blocks, b))

\* The stack is a path from bb0.
IsPath(blocks, stack) ==
  /\ stack # <<>> => stack[1] = START
  /\ \A i \in 1 .. Len(stack) - 1 : stack[i + 1] \in ToSet(Succs(blocks, stack[i]))

\* A block is left before one that leads to it; bb0 comes last.
LeftBefore(blocks, w) ==
  \A i \in 1 .. Len(w.post) :
    \/ i = Len(w.post) /\ w.post[i] = START /\ w.stack = <<>>
    \/ \E q \in DOMAIN blocks :
         /\ w.post[i] \in ToSet(Succs(blocks, q))
         /\ q \in ToSet(w.stack) \/ \E j \in i + 1 .. Len(w.post) : w.post[j] = q

WalkType(blocks) ==
  [visited : SUBSET DOMAIN blocks, stack : Seq(DOMAIN blocks),
   next : [DOMAIN blocks -> 0 .. 2], post : Seq(DOMAIN blocks)]

IsWalk(blocks, w) ==
  /\ w \in WalkType(blocks)
  /\ START \in w.visited
  /\ EachOnce(w)
  /\ Looked(blocks, w)
  /\ IsPath(blocks, w.stack)
  /\ LeftBefore(blocks, w)

\* What a walk has done so far: a step for every successor of a block that it
\* has looked at, and one for every block it has left.
DoneSteps(blocks, w) ==
  {t \in (DOMAIN blocks) \X (0 .. 2) :
     t[2] < w.next[t[1]] \/ (t[1] \in ToSet(w.post) /\ t[2] = w.next[t[1]])}

\* It begins at bb0 and has done nothing.
LEMMA WalkStarts ==
  ASSUME NEW blocks, IsGraph(blocks), NEW w, w = WalkStart(blocks)
  PROVE  IsWalk(blocks, w) /\ DoneSteps(blocks, w) = {}
<1>1. START \in DOMAIN blocks
  BY GraphDomain
<1>2. /\ w.visited = {START} /\ w.stack = <<START>> /\ w.post = <<>>
      /\ w.next = [b \in DOMAIN blocks |-> 0]
      /\ w = [visited |-> w.visited, stack |-> w.stack, next |-> w.next, post |-> w.post]
  BY DEF WalkStart
<1>3. /\ <<START>> \in Seq(DOMAIN blocks) /\ <<>> \in Seq(DOMAIN blocks)
      /\ ToSet(<<START>>) = {START} /\ ToSet(<<>>) = {}
      /\ Len(<<START>>) = 1 /\ Len(<<>>) = 0 /\ <<START>>[1] = START
  BY <1>1 DEF ToSet
<1>4. w \in WalkType(blocks)
  <2>1. w.visited \in SUBSET DOMAIN blocks /\ w.stack \in Seq(DOMAIN blocks) /\ w.post \in Seq(DOMAIN blocks)
    BY <1>1, <1>2, <1>3
  <2>2. w.next \in [DOMAIN blocks -> 0 .. 2]
    BY <1>2
  <2> QED
    BY <1>2, <2>1, <2>2 DEF WalkType
<1>5. EachOnce(w)
  BY <1>2, <1>3 DEF EachOnce
<1>6. Looked(blocks, w)
  <2> SUFFICES ASSUME NEW b \in DOMAIN blocks
               PROVE  w.next[b] = 0 /\ 0 <= Len(Succs(blocks, b)) /\ b \notin ToSet(w.post)
    BY DEF Looked
  <2> QED
    BY <1>2, <1>3, SuccessorsOf DEF Succs
<1>7. IsPath(blocks, w.stack)
  BY <1>2, <1>3 DEF IsPath
<1>8. LeftBefore(blocks, w)
  BY <1>2, <1>3 DEF LeftBefore
<1>9. DoneSteps(blocks, w) = {}
  BY <1>2, <1>3 DEF DoneSteps
<1> QED
  BY <1>2, <1>4, <1>5, <1>6, <1>7, <1>8, <1>9 DEF IsWalk

\* It looks at the next successor of the block on top.
LEMMA WalkLooks ==
  ASSUME NEW blocks, IsGraph(blocks), NEW w, IsWalk(blocks, w), w.stack # <<>>,
         NEW b, b = Last(w.stack), NEW i, i = w.next[b] + 1, i <= Len(Succs(blocks, b)),
         NEW s, s = Succs(blocks, b)[i], NEW v \in WalkType(blocks),
         v.visited = w.visited \union {s}, v.next = [w.next EXCEPT ![b] = i], v.post = w.post,
         v.stack = IF s \in w.visited THEN w.stack ELSE Append(w.stack, s)
  PROVE  /\ IsWalk(blocks, v)
         /\ \E x : /\ x \notin DoneSteps(blocks, w)
                   /\ DoneSteps(blocks, w) \union {x} \subseteq DoneSteps(blocks, v)
<1> DEFINE B == DOMAIN blocks
<1>1. /\ w.visited \in SUBSET B /\ w.stack \in Seq(B) /\ w.next \in [B -> 0 .. 2] /\ w.post \in Seq(B)
      /\ EachOnce(w) /\ Looked(blocks, w) /\ IsPath(blocks, w.stack) /\ LeftBefore(blocks, w)
      /\ START \in w.visited
  BY DEF IsWalk, WalkType
<1>2. /\ b \in B /\ b \in ToSet(w.stack)
      /\ Len(w.stack) \in Nat \ {0} /\ b = w.stack[Len(w.stack)]
  BY <1>1, Fronted
<1>3. /\ Len(Succs(blocks, b)) \in 0 .. 2 /\ i \in 1 .. Len(Succs(blocks, b))
      /\ w.next[b] \in 0 .. 2 /\ i \in 1 .. 2
      /\ s \in B /\ s \in ToSet(Succs(blocks, b))
  <2>1. w.next[b] \in 0 .. 2 /\ Len(Succs(blocks, b)) \in 0 .. 2
    BY <1>1, <1>2, SuccessorsOf DEF Succs
  <2>2. i \in 1 .. Len(Succs(blocks, b)) /\ i \in 1 .. 2
    <3>1. PICK m \in 0 .. 2 : m = w.next[b]
      BY <2>1
    <3>2. PICK k \in 0 .. 2 : k = Len(Succs(blocks, b))
      BY <2>1
    <3>3. i = m + 1 /\ i <= k
      BY <3>1, <3>2
    <3>4. i \in 1 .. k /\ i \in 1 .. 2
      BY ONLY <3>3, m \in 0 .. 2, k \in 0 .. 2
    <3> QED
      BY ONLY <3>2, <3>4
  <2>3. s \in B /\ s \in ToSet(Succs(blocks, b))
    <3>1. /\ \A j \in 1 .. Len(Succs(blocks, b)) : Succs(blocks, b)[j] \in B
          /\ \A j \in 1 .. Len(Succs(blocks, b)) : Succs(blocks, b)[j] \in ToSet(Succs(blocks, b))
      BY <1>2, SuccessorsOf DEF Succs
    <3>2. s = Succs(blocks, b)[i]
      OBVIOUS
    <3> QED
      BY ONLY <2>2, <3>1, <3>2
  <2> QED
    BY <2>1, <2>2, <2>3
<1>4. b \notin ToSet(w.post)
  BY <1>1, <1>2 DEF EachOnce
<1>5. /\ v.next[b] = i /\ v.next[b] = w.next[b] + 1
      /\ \A c \in B : c # b => v.next[c] = w.next[c]
      /\ \A c \in B : w.next[c] \in 0 .. 2
  BY <1>1, <1>2
<1>6. Looked(blocks, v)
  <2> SUFFICES ASSUME NEW c \in B
               PROVE  /\ v.next[c] <= Len(Succs(blocks, c))
                      /\ \A j \in 1 .. v.next[c] : Succs(blocks, c)[j] \in v.visited
                      /\ c \in ToSet(v.post) => v.next[c] = Len(Succs(blocks, c))
    BY DEF Looked
  <2>1. /\ w.next[c] <= Len(Succs(blocks, c))
        /\ \A j \in 1 .. w.next[c] : Succs(blocks, c)[j] \in w.visited
        /\ c \in ToSet(w.post) => w.next[c] = Len(Succs(blocks, c))
    BY <1>1 DEF Looked
  <2>2. CASE c # b
    BY <1>5, <2>1, <2>2
  <2>3. CASE c = b
    <3>1. \A j \in 1 .. i : j \in 1 .. w.next[b] \/ j = i
      BY <1>3
    <3>2. v.next[c] = i /\ i <= Len(Succs(blocks, c)) /\ c \notin ToSet(v.post)
      BY <1>4, <1>5, <2>3
    <3>3. /\ \A j \in 1 .. w.next[b] : Succs(blocks, b)[j] \in w.visited
          /\ s = Succs(blocks, b)[i] /\ v.visited = w.visited \union {s}
      BY <2>1, <2>3
    <3>4. \A j \in 1 .. i : Succs(blocks, b)[j] \in v.visited
      BY ONLY <3>1, <3>3
    <3> QED
      BY ONLY <2>3, <3>2, <3>4
  <2> QED
    BY <2>2, <2>3
<1>7. EachOnce(v) /\ IsPath(blocks, v.stack) /\ LeftBefore(blocks, v)
  <2>1. CASE s \in w.visited
    <3>1. v.visited = w.visited /\ v.stack = w.stack /\ v.post = w.post
      BY <2>1
    <3>2. EachOnce(w) /\ IsPath(blocks, w.stack) /\ LeftBefore(blocks, w)
      BY <1>1
    <3>3. EachOnce(v)
      BY ONLY <3>1, <3>2 DEF EachOnce
    <3>4. LeftBefore(blocks, v)
      BY ONLY <3>1, <3>2 DEF LeftBefore
    <3>5. IsPath(blocks, v.stack)
      BY ONLY <3>1, <3>2
    <3> QED
      BY <3>3, <3>4, <3>5
  <2>2. CASE s \notin w.visited
    <3>1. v.stack = Longer(w.stack, s)
      BY <2>2 DEF Longer
    <3>2. PICK n \in Nat \ {0} : n = Len(w.stack)
      BY <1>2
    <3>3. PICK t : t = v.stack
      OBVIOUS
    <3>4. /\ t \in Seq(B) /\ Len(t) = n + 1
          /\ \A j \in 1 .. n : t[j] = w.stack[j]
          /\ t[n + 1] = s /\ ToSet(t) = ToSet(w.stack) \union {s}
      <4>1. w.stack \in Seq(B) /\ s \in B /\ t = Longer(w.stack, s)
        BY <1>1, <1>3, <3>1, <3>3
      <4>2. t \in Seq(B) /\ Len(t) = n + 1
        BY ONLY <3>2, <4>1, Appended
      <4>4. ToSet(t) = ToSet(w.stack) \union {s}
        BY ONLY <4>1, AppendedSet
      <4>3. (\A j \in 1 .. n : t[j] = w.stack[j]) /\ t[n + 1] = s
        BY ONLY <3>2, <4>1, AppendedAt
      <4> QED
        BY <4>2, <4>3, <4>4
    <3>5. /\ \A j \in 1 .. n : w.stack[j] \in ToSet(w.stack)
          /\ \A j, k \in 1 .. n : w.stack[j] = w.stack[k] => j = k
          /\ w.stack[1] = START /\ w.stack[n] = b
          /\ \A j \in 1 .. n - 1 : w.stack[j + 1] \in ToSet(Succs(blocks, w.stack[j]))
      <4>1. DOMAIN w.stack = 1 .. n
        BY <1>1, <3>2, LenProperties
      <4> QED
        BY <1>1, <1>2, <3>2, <4>1 DEF EachOnce, IsPath, ToSet
    <3>6. s \notin ToSet(w.stack) /\ s \notin ToSet(w.post)
      BY <1>1, <2>2 DEF EachOnce
    <3>7. \A j, k \in 1 .. n + 1 : t[j] = t[k] => j = k
      <4>1. /\ \A j \in 1 .. n : t[j] # t[n + 1]
            /\ \A j, k \in 1 .. n : t[j] = t[k] => j = k
        BY <3>4, <3>5, <3>6
      <4>2. ASSUME NEW j \in 1 .. n + 1, NEW k \in 1 .. n + 1, t[j] = t[k]
            PROVE  j = k
        <5>1. (j \in 1 .. n \/ j = n + 1) /\ (k \in 1 .. n \/ k = n + 1)
          OBVIOUS
        <5> QED
          BY <4>1, <4>2, <5>1
      <4> QED
        BY <4>2
    <3>8. EachOnce(v)
      <4>1. /\ v.visited = ToSet(v.stack) \union ToSet(v.post)
            /\ ToSet(v.stack) \intersect ToSet(v.post) = {}
            /\ \A j, k \in 1 .. Len(v.post) : v.post[j] = v.post[k] => j = k
        <5>1. /\ w.visited = ToSet(w.stack) \union ToSet(w.post)
              /\ ToSet(w.stack) \intersect ToSet(w.post) = {}
              /\ \A j, k \in 1 .. Len(w.post) : w.post[j] = w.post[k] => j = k
          BY <1>1 DEF EachOnce
        <5>2. ToSet(v.stack) = ToSet(w.stack) \union {s} /\ ToSet(v.post) = ToSet(w.post)
          BY <3>3, <3>4
        <5>3. v.visited = w.visited \union {s} /\ v.post = w.post
          OBVIOUS
        <5> QED
          BY ONLY <3>6, <5>1, <5>2, <5>3
      <4>2. \A j, k \in 1 .. Len(v.stack) : v.stack[j] = v.stack[k] => j = k
        <5>1. Len(t) = n + 1
          BY <3>4
        <5> QED
          BY ONLY <3>3, <3>7, <5>1
      <4> QED
        BY <4>1, <4>2 DEF EachOnce
    <3>9. IsPath(blocks, t)
      <4>1. t[1] = START
        BY <3>4, <3>5
      <4>2. ASSUME NEW j \in 1 .. n
            PROVE  t[j + 1] \in ToSet(Succs(blocks, t[j]))
        <5>1. CASE j = n
          BY <1>3, <3>4, <3>5, <5>1
        <5>2. CASE j # n
          <6>1. j \in 1 .. n - 1 /\ j + 1 \in 1 .. n
            BY <5>2
          <6> QED
            BY <3>4, <3>5, <6>1
        <5> QED
          BY <5>1, <5>2
      <4>3. Len(t) - 1 = n
        BY <3>4
      <4> QED
        BY <4>1, <4>2, <4>3 DEF IsPath
    <3>10. LeftBefore(blocks, v)
      <4>1. w.stack # <<>> /\ v.post = w.post /\ ToSet(w.stack) \subseteq ToSet(v.stack)
        BY <3>3, <3>4
      <4> QED
        BY <1>1, <4>1 DEF LeftBefore
    <3> QED
      BY <3>3, <3>8, <3>9, <3>10
  <2> QED
    BY <2>1, <2>2
<1>8. IsWalk(blocks, v)
  BY <1>1, <1>6, <1>7 DEF IsWalk
<1>9. \E x : /\ x \notin DoneSteps(blocks, w)
             /\ DoneSteps(blocks, w) \union {x} \subseteq DoneSteps(blocks, v)
  <2> DEFINE x == <<b, w.next[b]>>
  <2>1. x \notin DoneSteps(blocks, w)
    BY <1>3, <1>4 DEF DoneSteps
  <2>2. x \in DoneSteps(blocks, v)
    <3>1. x \in B \X (0 .. 2) /\ x[1] = b /\ x[2] = w.next[b]
      BY <1>2, <1>3
    <3>2. x[2] < v.next[x[1]]
      <4>1. w.next[b] \in 0 .. 2 /\ v.next[b] = w.next[b] + 1
        BY <1>3, <1>5
      <4> HIDE DEF x
      <4> QED
        BY ONLY <3>1, <4>1
    <3> HIDE DEF x
    <3> QED
      BY ONLY <3>1, <3>2 DEF DoneSteps
  <2>3. DoneSteps(blocks, w) \subseteq DoneSteps(blocks, v)
    <3> SUFFICES ASSUME NEW t \in B \X (0 .. 2),
                        t[2] < w.next[t[1]] \/ (t[1] \in ToSet(w.post) /\ t[2] = w.next[t[1]])
                 PROVE  t[2] < v.next[t[1]] \/ (t[1] \in ToSet(v.post) /\ t[2] = v.next[t[1]])
      BY DEF DoneSteps
    <3>1. t[1] \in B /\ t[2] \in 0 .. 2 /\ v.post = w.post
      OBVIOUS
    <3>2. CASE t[1] = b
      <4>1. t[2] < w.next[b]
        BY <1>4, <3>2
      <4>2. w.next[b] \in 0 .. 2 /\ v.next[b] = w.next[b] + 1
        BY <1>3, <1>5
      <4> QED
        BY ONLY <3>1, <3>2, <4>1, <4>2
    <3>3. CASE t[1] # b
      <4>1. v.next[t[1]] = w.next[t[1]]
        BY <1>5, <3>1, <3>3
      <4> QED
        BY <3>1, <4>1
    <3> QED
      BY <3>2, <3>3
  <2> QED
    BY <2>1, <2>2, <2>3
<1> QED
  BY <1>8, <1>9

\* It leaves the block on top, all of whose successors it has looked at.
LEMMA WalkLeaves ==
  ASSUME NEW blocks, IsGraph(blocks), NEW w, IsWalk(blocks, w), w.stack # <<>>,
         NEW b, b = Last(w.stack), w.next[b] = Len(Succs(blocks, b)), NEW v \in WalkType(blocks),
         v.visited = w.visited, v.next = w.next, v.post = Longer(w.post, b),
         v.stack = Front(w.stack)
  PROVE  /\ IsWalk(blocks, v)
         /\ \E x : /\ x \notin DoneSteps(blocks, w)
                   /\ DoneSteps(blocks, w) \union {x} \subseteq DoneSteps(blocks, v)
<1> DEFINE B == DOMAIN blocks
<1>1. /\ w.visited \in SUBSET B /\ w.stack \in Seq(B) /\ w.next \in [B -> 0 .. 2] /\ w.post \in Seq(B)
      /\ EachOnce(w) /\ Looked(blocks, w) /\ IsPath(blocks, w.stack) /\ LeftBefore(blocks, w)
      /\ START \in w.visited
  BY DEF IsWalk, WalkType
<1>2. PICK t, p : t = v.stack /\ p = v.post
  OBVIOUS
<1>3. PICK n \in Nat \ {0} : n = Len(w.stack)
  BY <1>1, Fronted
<1>4. /\ t \in Seq(B) /\ Len(t) = n - 1 /\ (\A j \in 1 .. n - 1 : t[j] = w.stack[j])
      /\ b = w.stack[n] /\ b \in B /\ ToSet(w.stack) = ToSet(t) \union {b}
  <2>1. w.stack \in Seq(B) /\ t = Front(w.stack)
    BY <1>1, <1>2
  <2> QED
    BY <1>3, <2>1, Fronted
<1>5. PICK m \in Nat : m = Len(w.post)
  BY <1>1, LenProperties
<1>6. /\ p \in Seq(B) /\ Len(p) = m + 1 /\ ToSet(p) = ToSet(w.post) \union {b}
      /\ \A j \in 1 .. m : p[j] = w.post[j]
      /\ p[m + 1] = b
  <2>1. w.post \in Seq(B) /\ b \in B /\ p = Longer(w.post, b)
    <3>1. w.post \in Seq(B) /\ b \in B
      BY ONLY <1>1, <1>4
    <3> QED
      BY <1>2, <3>1
  <2>2. p \in Seq(B) /\ Len(p) = m + 1
    BY ONLY <1>5, <2>1, Appended
  <2>4. ToSet(p) = ToSet(w.post) \union {b}
    BY ONLY <2>1, AppendedSet
  <2>3. (\A j \in 1 .. m : p[j] = w.post[j]) /\ p[m + 1] = b
    BY ONLY <1>5, <2>1, AppendedAt
  <2> QED
    BY <2>2, <2>3, <2>4
<1>7. /\ w.visited = ToSet(w.stack) \union ToSet(w.post)
      /\ ToSet(w.stack) \intersect ToSet(w.post) = {}
      /\ \A j, k \in 1 .. n : w.stack[j] = w.stack[k] => j = k
      /\ \A j, k \in 1 .. m : w.post[j] = w.post[k] => j = k
  BY <1>1, <1>3, <1>5 DEF EachOnce
<1>8. /\ \A j \in 1 .. n : w.stack[j] \in ToSet(w.stack)
      /\ \A j \in 1 .. m : w.post[j] \in ToSet(w.post)
      /\ \A j \in 1 .. n - 1 : t[j] \in ToSet(t)
      /\ \A c \in ToSet(t) : \E j \in 1 .. n - 1 : t[j] = c
  <2>1. DOMAIN w.stack = 1 .. n /\ DOMAIN w.post = 1 .. m /\ DOMAIN t = 1 .. n - 1
    BY <1>1, <1>3, <1>4, <1>5, LenProperties
  <2> QED
    BY <2>1 DEF ToSet
<1>9. b \notin ToSet(t) /\ b \notin ToSet(w.post)
  <2>1. \A j \in 1 .. n - 1 : t[j] # b
    BY <1>3, <1>4, <1>7
  <2> QED
    BY <1>4, <1>7, <1>8, <2>1
<1>10. EachOnce(v)
  <2>1. /\ v.visited = ToSet(v.stack) \union ToSet(v.post)
        /\ ToSet(v.stack) \intersect ToSet(v.post) = {}
    <3>1. /\ v.visited = w.visited /\ v.stack = t /\ v.post = p
          /\ w.visited = ToSet(w.stack) \union ToSet(w.post)
          /\ ToSet(w.stack) \intersect ToSet(w.post) = {}
      BY <1>2, <1>7
    <3>2. ToSet(w.stack) = ToSet(t) \union {b} /\ ToSet(p) = ToSet(w.post) \union {b}
      BY <1>4, <1>6
    <3>3. v.visited = ToSet(v.stack) \union ToSet(v.post)
      BY ONLY <3>1, <3>2
    <3>4. ToSet(t) \subseteq ToSet(w.stack)
      BY ONLY <3>2
    <3>5. ToSet(t) \intersect ToSet(p) = {}
      BY ONLY <1>9, <3>1, <3>2, <3>4
    <3> QED
      BY ONLY <3>1, <3>3, <3>5
  <2>2. \A j, k \in 1 .. n - 1 : t[j] = t[k] => j = k
    <3>1. \A j \in 1 .. n - 1 : j \in 1 .. n
      BY <1>3
    <3>2. \A j \in 1 .. n - 1 : t[j] = w.stack[j]
      BY <1>4
    <3> QED
      BY ONLY <1>7, <3>1, <3>2
  <2>3. ASSUME NEW j \in 1 .. m + 1, NEW k \in 1 .. m + 1, p[j] = p[k]
        PROVE  j = k
    <3>1. (j \in 1 .. m \/ j = m + 1) /\ (k \in 1 .. m \/ k = m + 1)
      OBVIOUS
    <3> QED
      BY <1>6, <1>7, <1>8, <1>9, <2>3, <3>1
  <2>4. Len(v.stack) = n - 1 /\ Len(v.post) = m + 1
    BY <1>2, <1>4, <1>6
  <2> QED
    BY <1>2, <2>1, <2>2, <2>3, <2>4 DEF EachOnce
<1>11. Looked(blocks, v)
  BY <1>1, <1>2, <1>6 DEF Looked
<1>12. IsPath(blocks, t)
  <2>1. w.stack[1] = START /\ \A j \in 1 .. n - 1 : w.stack[j + 1] \in ToSet(Succs(blocks, w.stack[j]))
    BY <1>1, <1>3 DEF IsPath
  <2>2. t # <<>> => t[1] = START
    <3>1. t # <<>> => n - 1 # 0
      BY <1>4, EmptySeq
    <3> QED
      BY <1>3, <1>4, <2>1, <3>1
  <2>3. \A j \in 1 .. n - 1 - 1 : t[j + 1] \in ToSet(Succs(blocks, t[j]))
    <3> TAKE j \in 1 .. n - 1 - 1
    <3>1. j \in 1 .. n - 1 /\ j + 1 \in 1 .. n - 1
      BY <1>3
    <3> QED
      BY <1>4, <2>1, <3>1
  <2> QED
    BY <1>4, <2>2, <2>3 DEF IsPath
<1>13. LeftBefore(blocks, v)
  <2> SUFFICES ASSUME NEW i \in 1 .. m + 1
               PROVE  \/ i = m + 1 /\ p[i] = START /\ t = <<>>
                      \/ \E q \in B : /\ p[i] \in ToSet(Succs(blocks, q))
                                      /\ q \in ToSet(t) \/ \E j \in i + 1 .. m + 1 : p[j] = q
    BY <1>2, <1>6 DEF LeftBefore
  <2>1. CASE i = m + 1
    <3>1. CASE n = 1
      <4>1. t = <<>> /\ b = START
        BY <1>1, <1>3, <1>4, <3>1, EmptySeq DEF IsPath
      <4> QED
        BY <1>6, <2>1, <4>1
    <3>2. CASE n # 1
      <4>1. n - 1 \in 1 .. n - 1 /\ n - 1 + 1 = n
        <5>1. n \in Nat \ {0} /\ n # 1
          BY <3>2
        <5> QED
          BY ONLY <5>1
      <4>2. b \in ToSet(Succs(blocks, w.stack[n - 1]))
        BY <1>1, <1>3, <1>4, <4>1 DEF IsPath
      <4>3. w.stack[n - 1] = t[n - 1] /\ t[n - 1] \in ToSet(t) /\ t[n - 1] \in B
        BY <1>4, <1>8, <4>1, ElementOfSeq
      <4> QED
        BY <1>6, <2>1, <4>2, <4>3
    <3> QED
      BY <3>1, <3>2
  <2>2. CASE i # m + 1
    <3>1. i \in 1 .. m /\ p[i] = w.post[i]
      BY <1>6, <2>2
    <3>2. PICK q \in B : /\ w.post[i] \in ToSet(Succs(blocks, q))
                         /\ q \in ToSet(w.stack) \/ \E j \in i + 1 .. m : w.post[j] = q
      BY <1>1, <1>5, <3>1 DEF LeftBefore
    <3>3. q \in ToSet(t) \/ \E j \in i + 1 .. m + 1 : p[j] = q
      <4>1. CASE q = b
        <5>1. m + 1 \in i + 1 .. m + 1
          BY <3>1
        <5> QED
          BY <1>6, <4>1, <5>1
      <4>2. CASE q # b /\ q \in ToSet(w.stack)
        BY <1>4, <4>2
      <4>3. ASSUME NEW j \in i + 1 .. m, w.post[j] = q
            PROVE  \E k \in i + 1 .. m + 1 : p[k] = q
        <5>1. j \in 1 .. m /\ j \in i + 1 .. m + 1
          BY <3>1
        <5> QED
          BY <1>6, <4>3, <5>1
      <4> QED
        BY <3>2, <4>1, <4>2, <4>3
    <3> QED
      BY <3>1, <3>2, <3>3
  <2> QED
    BY <2>1, <2>2
<1>14. IsWalk(blocks, v)
  BY <1>1, <1>2, <1>10, <1>11, <1>12, <1>13 DEF IsWalk
<1>15. \E x : /\ x \notin DoneSteps(blocks, w)
              /\ DoneSteps(blocks, w) \union {x} \subseteq DoneSteps(blocks, v)
  <2> DEFINE x == <<b, w.next[b]>>
  <2>1. w.next[b] \in 0 .. 2 /\ v.next = w.next
    BY <1>1, <1>4
  <2>2. x \notin DoneSteps(blocks, w)
    BY <1>9, <2>1 DEF DoneSteps
  <2>3. x \in DoneSteps(blocks, v)
    BY <1>2, <1>4, <1>6, <2>1 DEF DoneSteps
  <2>4. DoneSteps(blocks, w) \subseteq DoneSteps(blocks, v)
    BY <1>2, <1>6, <2>1 DEF DoneSteps
  <2> QED
    BY <2>2, <2>3, <2>4
<1> QED
  BY <1>14, <1>15

\* Every step of a walk that is not over is one of the two.
LEMMA WalkSteps ==
  ASSUME NEW blocks, IsGraph(blocks), NEW w, IsWalk(blocks, w), NEW v, v = WalkStep(blocks, w)
  PROVE  /\ IsWalk(blocks, v)
         /\ w.stack = <<>> => v = w
         /\ w.stack # <<>> =>
              \E x : /\ x \notin DoneSteps(blocks, w)
                     /\ DoneSteps(blocks, w) \union {x} \subseteq DoneSteps(blocks, v)
<1> DEFINE B == DOMAIN blocks
           b == Last(w.stack)
           succs == Succs(blocks, b)
           i == w.next[b] + 1
           s == succs[i]
<1>1. w \in WalkType(blocks)
  BY DEF IsWalk
<1>2. CASE w.stack = <<>>
  BY <1>2 DEF WalkStep
<1>3. CASE w.stack # <<>>
  <2>1. b \in B /\ Front(w.stack) \in Seq(B)
    BY <1>1, <1>3, Fronted DEF WalkType
  <2>2. /\ w.next[b] \in 0 .. 2 /\ Len(succs) \in 0 .. 2 /\ w.next[b] <= Len(succs)
        /\ \A j \in 1 .. Len(succs) : succs[j] \in B
    BY <1>1, <2>1, SuccessorsOf DEF IsWalk, WalkType, Looked, Succs
  <2>3. CASE i <= Len(succs)
    <3>1. v = [w EXCEPT !.next[b] = i,
                        !.stack = IF s \in w.visited THEN @ ELSE Append(@, s),
                        !.visited = @ \union {s}]
      BY <1>3, <2>3 DEF WalkStep, Succs
    <3>2. i \in 1 .. Len(succs) /\ i \in 0 .. 2 /\ s \in B
      BY <2>2, <2>3
    <3>3. Append(w.stack, s) \in Seq(B)
      BY <1>1, <3>2 DEF WalkType
    <3>4. /\ v.visited = w.visited \union {s} /\ v.next = [w.next EXCEPT ![b] = i]
          /\ v.post = w.post
          /\ v.stack = IF s \in w.visited THEN w.stack ELSE Append(w.stack, s)
      <4> HIDE DEF i, s, b
      <4> QED
        BY <1>1, <3>1 DEF WalkType
    <3>5. v \in WalkType(blocks)
      <4>1. w.visited \in SUBSET B /\ w.stack \in Seq(B) /\ w.next \in [B -> 0 .. 2] /\ w.post \in Seq(B)
        BY <1>1 DEF WalkType
      <4>2. /\ v.next \in [B -> 0 .. 2] /\ v.visited \in SUBSET B
            /\ v.stack \in Seq(B) /\ v.post \in Seq(B)
        <5> HIDE DEF i, s, b
        <5> QED
          BY <3>2, <3>3, <3>4, <4>1
      <4>3. v = [visited |-> v.visited, stack |-> v.stack, next |-> v.next, post |-> v.post]
        <5> HIDE DEF i, s, b
        <5> QED
          BY <1>1, <3>1 DEF WalkType
      <4> QED
        BY <4>2, <4>3 DEF WalkType
    <3> QED
      <4> HIDE DEF i, s, b
      <4> QED
        BY <1>3, <3>2, <3>4, <3>5, WalkLooks DEF i, s, b
  <2>4. CASE ~(i <= Len(succs))
    <3>1. v = [w EXCEPT !.stack = Front(@), !.post = Append(@, b)]
      BY <1>3, <2>4 DEF WalkStep, Succs
    <3>2. w.next[b] = Len(succs)
      BY <2>2, <2>4
    <3>3. /\ v.visited = w.visited /\ v.next = w.next /\ v.post = Longer(w.post, b)
          /\ v.stack = Front(w.stack)
      BY <1>1, <3>1 DEF WalkType, Longer
    <3>4. v \in WalkType(blocks)
      <4>1. Append(w.post, b) \in Seq(B)
        BY <1>1, <2>1 DEF WalkType
      <4> HIDE DEF b
      <4> QED
        BY <1>1, <2>1, <3>1, <4>1 DEF WalkType
    <3> QED
      BY <1>3, <3>2, <3>3, <3>4, WalkLeaves
  <2> QED
    BY <2>3, <2>4
<1> QED
  BY <1>2, <1>3

Walks(blocks) == {w \in WalkType(blocks) : IsWalk(blocks, w)}

\* The walk that ReversePostorder makes.
LEMMA WalkLevels ==
  ASSUME NEW blocks, IsGraph(blocks), NEW N, N = 3 * Len(blocks)
  PROVE  \E after \in [0 .. N -> Walks(blocks)] :
           /\ ReversePostorder(blocks) = Reverse(after[N].post)
           /\ after[0] = WalkStart(blocks)
           /\ \A n \in 1 .. N : after[n] = WalkStep(blocks, after[n - 1])
<1> DEFINE V == Walks(blocks)
           first == WalkStart(blocks)
           G == [n \in 1 .. N |-> [w \in V |-> WalkStep(blocks, w)]]
           AreLevels(f) == f = [n \in 0 .. N |-> IF n = 0 THEN first ELSE WalkStep(blocks, f[n - 1])]
           after == CHOOSE f : AreLevels(f)
<1>1. first \in V /\ N \in Nat
  BY GraphDomain, WalkStarts DEF IsWalk, Walks
<1>2. \A w \in V : WalkStep(blocks, w) \in V
  BY WalkSteps DEF IsWalk, Walks
<1>3. PICK g \in [0 .. N -> V] : Iterates(g, N, first, G)
  <2>1. G \in [1 .. N -> [V -> V]]
    BY <1>2
  <2> HIDE DEF G, first
  <2> QED
    BY <1>1, <2>1, RecursionExists
<1>4. \E f : AreLevels(f)
  <2>1. g[0] = first /\ \A n \in 1 .. N : g[n] = WalkStep(blocks, g[n - 1])
    <3>1. \A n \in 1 .. N : g[n - 1] \in V
      BY <1>1, <1>3
    <3> HIDE DEF first
    <3> QED
      BY <1>3, <3>1 DEF Iterates
  <2>2. \A n \in 0 .. N : n = 0 \/ n \in 1 .. N
    BY <1>1
  <2>3. AreLevels(g)
    <3> HIDE DEF first
    <3> QED
      BY <1>3, <2>1, <2>2
  <2> QED
    BY <2>3
<1>5. AreLevels(after)
  <2> HIDE DEF AreLevels
  <2> QED
    BY <1>4
<1>6. after[0] = first /\ \A n \in 1 .. N : after[n] = WalkStep(blocks, after[n - 1])
  <2> HIDE DEF after, first
  <2> QED
    BY <1>1, <1>5
<1>7. \A n \in 0 .. N : after[n] \in V
  <2> DEFINE T == {n \in 0 .. N : after[n] \in V}
  <2>1. 0 \in T /\ \A n \in 1 .. N : n - 1 \in T => n \in T
    <3> HIDE DEF after, first
    <3> QED
      BY <1>1, <1>2, <1>6
  <2>2. 0 .. N \subseteq T
    <3> HIDE DEF T
    <3> QED
      BY <1>1, <2>1, IntervalInduction
  <2> QED
    BY <2>2
<1>8. after \in [0 .. N -> V]
  <2> HIDE DEF after
  <2> QED
    BY <1>5, <1>7
<1>9. ReversePostorder(blocks) = Reverse(after[N].post)
  BY DEF ReversePostorder
<1> HIDE DEF after
<1> QED
  BY <1>6, <1>8, <1>9

\* There are three things to do for a block at most, so it is over then.
LEMMA WalkEnds ==
  ASSUME NEW blocks, IsGraph(blocks)
  PROVE  \E w : IsWalk(blocks, w) /\ w.stack = <<>> /\ ReversePostorder(blocks) = Reverse(w.post)
<1> DEFINE B == DOMAIN blocks
           all == B \X (0 .. 2)
<1>0. PICK N : N = 3 * Len(blocks)
  OBVIOUS
<1>1. PICK after \in [0 .. N -> Walks(blocks)] :
        /\ ReversePostorder(blocks) = Reverse(after[N].post)
        /\ after[0] = WalkStart(blocks)
        /\ \A n \in 1 .. N : after[n] = WalkStep(blocks, after[n - 1])
  BY <1>0, WalkLevels
<1>2. /\ N \in Nat /\ N \in 0 .. N
      /\ \A n \in 0 .. N : IsWalk(blocks, after[n])
  BY <1>0, <1>1, GraphDomain DEF Walks
<1>3. IsFiniteSet(all) /\ Cardinality(all) = N
  <2>1. IsFiniteSet(0 .. 2) /\ Cardinality(0 .. 2) = 3
    <3>1. 0 \in Int /\ 2 \in Int /\ 2 - 0 + 1 = 3 /\ ~(0 > 2)
      OBVIOUS
    <3> QED
      BY <3>1, FS_Interval
  <2>2. IsFiniteSet(B) /\ Cardinality(B) = Len(blocks)
    <3>1. B = 1 .. Len(blocks) /\ Len(blocks) \in Nat
      BY GraphDomain
    <3>2. \A m \in Nat : IsFiniteSet(1 .. m) /\ Cardinality(1 .. m) = m
      BY FS_Interval
    <3> QED
      BY <3>1, <3>2
  <2>3. IsFiniteSet(all) /\ Cardinality(all) = Cardinality(B) * Cardinality(0 .. 2)
    <3> HIDE DEF B
    <3> QED
      BY <2>1, <2>2, FS_Product
  <2>4. Len(blocks) \in Nat
    BY GraphDomain
  <2> QED
    BY <1>0, <2>1, <2>2, <2>3, <2>4
<1>4. \A w : DoneSteps(blocks, w) \in SUBSET all
  BY DEF DoneSteps
<1> DEFINE done(n) == Cardinality(DoneSteps(blocks, after[n]))
           T == {n \in 0 .. N : after[n].stack # <<>> => done(n) >= n}
<1>5. \A D \in SUBSET all : IsFiniteSet(D) /\ Cardinality(D) \in Nat /\ Cardinality(D) <= N
  <2> HIDE DEF all
  <2> QED
    BY <1>2, <1>3, FS_Subset, FS_CardinalityType
<1>6. 0 \in T
  <2>1. done(0) \in Nat
    BY <1>4, <1>5
  <2> QED
    BY <1>2, <2>1
<1>7. ASSUME NEW n \in 1 .. N, n - 1 \in T
      PROVE  n \in T
  <2> DEFINE w == after[n - 1]
             v == after[n]
             D == DoneSteps(blocks, w)
             E == DoneSteps(blocks, v)
  <2>1. n \in 0 .. N /\ n - 1 \in 0 .. N /\ v = WalkStep(blocks, w) /\ IsWalk(blocks, w)
    BY <1>1, <1>2
  <2>2. CASE w.stack = <<>>
    <3>1. v = w
      BY <2>1, <2>2, WalkSteps
    <3> QED
      BY <2>1, <2>2, <3>1
  <2>3. CASE w.stack # <<>>
    <3>1. PICK x : x \notin D /\ D \union {x} \subseteq E
      <4> HIDE DEF w, v
      <4> QED
        BY <2>1, <2>3, WalkSteps
    <3>2. Cardinality(D \union {x}) = Cardinality(D) + 1
      <4> HIDE DEF D, all
      <4>1. D \in SUBSET all
        BY <1>4 DEF D
      <4> QED
        BY <1>5, <3>1, <4>1, FS_AddElement
    <3>3. Cardinality(D \union {x}) <= Cardinality(E)
      <4> HIDE DEF D, E, all
      <4>1. E \in SUBSET all
        BY <1>4 DEF E
      <4> QED
        BY <1>5, <3>1, <4>1, FS_Subset
    <3>4. Cardinality(D) >= n - 1 /\ Cardinality(D) \in Nat /\ Cardinality(E) \in Nat
      BY <1>4, <1>5, <1>7, <2>3
    <3>5. Cardinality(E) >= n
      <4> HIDE DEF D, E
      <4> QED
        BY <3>2, <3>3, <3>4
    <3> QED
      BY <2>1, <3>5
  <2> QED
    BY <2>2, <2>3
<1>8. N \in T
  <2>1. 0 .. N \subseteq T
    <3> HIDE DEF T
    <3> QED
      BY <1>2, <1>6, <1>7, IntervalInduction
  <2> QED
    BY <1>2, <2>1
<1> DEFINE w == after[N]
<1>9. w.stack = <<>>
  <2> SUFFICES ASSUME w.stack # <<>> PROVE FALSE
    OBVIOUS
  <2>1. DoneSteps(blocks, w) = all
    <3>1. Cardinality(DoneSteps(blocks, w)) >= N
      BY <1>8
    <3>2. DoneSteps(blocks, w) \in SUBSET all
      BY <1>4
    <3> HIDE DEF w, all
    <3>3. Cardinality(DoneSteps(blocks, w)) \in Nat /\ Cardinality(DoneSteps(blocks, w)) <= N
      BY <1>5, <3>2
    <3>4. Cardinality(DoneSteps(blocks, w)) = N
      BY <1>2, <3>1, <3>3
    <3> QED
      BY <1>3, <3>2, <3>4, FS_Subset
  <2>2. /\ w.stack \in Seq(B) /\ w.next \in [B -> 0 .. 2] /\ EachOnce(w)
    BY <1>2 DEF IsWalk, WalkType
  <2>3. Last(w.stack) \in B /\ Last(w.stack) \in ToSet(w.stack)
    <3>1. PICK s, t : s = w.stack /\ t = Front(s)
      OBVIOUS
    <3>2. s \in Seq(B) /\ s # <<>>
      BY <2>2, <3>1
    <3>3. Last(s) \in B /\ ToSet(s) = ToSet(t) \union {Last(s)}
      BY ONLY <3>1, <3>2, Fronted
    <3> QED
      BY <3>1, <3>3
  <2>4. Last(w.stack) \notin ToSet(w.post)
    BY <2>2, <2>3 DEF EachOnce
  <2>5. <<Last(w.stack), 2>> \in all
    BY <2>3
  <2>6. 2 < w.next[Last(w.stack)]
    <3> HIDE DEF w
    <3> QED
      BY <2>1, <2>4, <2>5 DEF DoneSteps
  <2> QED
    BY <2>2, <2>3, <2>6
<1> QED
  BY <1>1, <1>2, <1>9

-----------------------------------------------------------------------------
(* The order. *)

\* Every block has its place, bb0 the first, and is led to from an earlier one.
IsOrder(blocks, rpo, rank) ==
  /\ Len(rpo) \in Nat
  /\ rank \in [DOMAIN blocks -> 1 .. Len(rpo)]
  /\ \A i \in 1 .. Len(rpo) : rpo[i] \in DOMAIN blocks /\ rank[rpo[i]] = i
  /\ \A b \in DOMAIN blocks : rpo[rank[b]] = b
  /\ rank[START] = 1
  /\ \A b \in DOMAIN blocks \ {START} :
       \E q \in DOMAIN blocks : b \in ToSet(Succs(blocks, q)) /\ rank[q] < rank[b]

\* When all blocks can be reached, ReversePostorder is such an order.
LEMMA OrderFound ==
  ASSUME NEW blocks, IsGraph(blocks), Reachable(blocks) = DOMAIN blocks,
         NEW rpo, rpo = ReversePostorder(blocks), NEW rank, rank = RankIn(blocks, rpo)
  PROVE  IsOrder(blocks, rpo, rank)
<1> DEFINE B == DOMAIN blocks
<1>1. PICK w : IsWalk(blocks, w) /\ w.stack = <<>> /\ rpo = Reverse(w.post)
  BY WalkEnds
<1>2. PICK post : post = w.post
  OBVIOUS
<1>3. /\ post \in Seq(B) /\ w.visited = ToSet(post) /\ START \in ToSet(post)
      /\ \A i, j \in 1 .. Len(post) : post[i] = post[j] => i = j
  <2>1. ToSet(w.stack) = {}
    BY <1>1 DEF ToSet
  <2> QED
    BY <1>1, <1>2, <2>1 DEF IsWalk, WalkType, EachOnce
<1>4. PICK n \in Nat : n = Len(post) /\ DOMAIN post = 1 .. n
  BY <1>3, LenProperties
<1>5. /\ \A i \in 1 .. n : post[i] \in B
      /\ \A c \in ToSet(post) : \E i \in 1 .. n : post[i] = c
  BY <1>3, <1>4 DEF ToSet
<1>6. \A b \in B : \E i \in 1 .. n : post[i] = b
  <2>1. ASSUME NEW b \in ToSet(post) \intersect B
        PROVE  ToSet(Successors(blocks[b].term)) \subseteq ToSet(post)
    <3>1. /\ w.next[b] = Len(Succs(blocks, b))
          /\ \A i \in 1 .. w.next[b] : Succs(blocks, b)[i] \in ToSet(post)
      BY <1>1, <1>2, <1>3 DEF IsWalk, Looked
    <3>2. PICK succs : succs = Succs(blocks, b)
      OBVIOUS
    <3>3. b \in DOMAIN blocks /\ succs = Successors(blocks[b].term)
      BY <3>2 DEF Succs
    <3>4. \A c \in ToSet(succs) : \E i \in 1 .. Len(succs) : succs[i] = c
      <4>1. DOMAIN succs = 1 .. Len(succs)
        BY <3>3, SuccessorsOf
      <4> QED
        BY ONLY <4>1 DEF ToSet
    <3>5. ToSet(succs) \subseteq ToSet(post)
      BY ONLY <3>1, <3>2, <3>4
    <3> QED
      BY <3>3, <3>5
  <2>2. B \subseteq ToSet(post)
    BY <1>3, <2>1, ReachableLeast
  <2> QED
    BY <1>5, <2>2
<1>7. /\ Len(rpo) = n /\ DOMAIN rpo = 1 .. n
      /\ \A i \in 1 .. n : n - i + 1 \in 1 .. n /\ rpo[i] = post[n - i + 1]
      /\ \A i \in 1 .. n : n - i + 1 \in 1 .. n /\ rpo[n - i + 1] = post[i]
  <2>1. rpo = [i \in 1 .. n |-> post[n - i + 1]]
    BY <1>1, <1>2, <1>4 DEF Reverse
  <2>2. \A i \in 1 .. n : n - i + 1 \in 1 .. n /\ n - (n - i + 1) + 1 = i
    BY <1>4
  <2>3. Len(rpo) = n
    BY <1>4, <2>1
  <2> QED
    BY <2>1, <2>2, <2>3
<1>8. /\ \A b \in B : \E i \in 1 .. n : rpo[i] = b
      /\ \A i, j \in 1 .. n : rpo[i] = rpo[j] => i = j
      /\ \A i \in 1 .. n : rpo[i] \in B
  <2>1. ASSUME NEW b \in B PROVE \E i \in 1 .. n : rpo[i] = b
    <3>1. PICK i \in 1 .. n : post[i] = b
      BY <1>6
    <3> WITNESS n - i + 1 \in 1 .. n
    <3> QED
      BY <1>7, <3>1
  <2>2. ASSUME NEW i \in 1 .. n, NEW j \in 1 .. n, rpo[i] = rpo[j]
        PROVE  i = j
    <3>1. PICK k \in 1 .. n, l \in 1 .. n : k = n - i + 1 /\ l = n - j + 1
      BY <1>7
    <3>2. post[k] = post[l]
      BY <1>7, <2>2, <3>1
    <3>3. k = l
      BY <1>3, <1>4, <3>2
    <3> QED
      BY <1>4, <3>1, <3>3
  <2> QED
    BY <1>5, <1>7, <2>1, <2>2
<1>9. /\ rank \in [B -> 1 .. n]
      /\ \A b \in B : rpo[rank[b]] = b
      /\ \A i \in 1 .. n : rpo[i] \in B /\ rank[rpo[i]] = i
  <2>1. rank = [b \in B |-> CHOOSE i \in 1 .. n : rpo[i] = b]
    BY <1>7 DEF RankIn
  <2>2. \A b \in B : rank[b] \in 1 .. n /\ rpo[rank[b]] = b
    BY <1>8, <2>1
  <2> QED
    BY <1>8, <2>1, <2>2
<1>10. \A i \in 1 .. n :
         \/ i = n /\ post[i] = START
         \/ \E q \in B : /\ post[i] \in ToSet(Succs(blocks, q))
                         /\ \E j \in i + 1 .. n : post[j] = q
  <2>1. LeftBefore(blocks, w) /\ ToSet(w.stack) = {}
    BY <1>1 DEF IsWalk, ToSet
  <2> QED
    BY <1>2, <1>4, <2>1 DEF LeftBefore
<1>11. rank[START] = 1
  <2>1. PICK i \in 1 .. n : post[i] = START
    BY <1>3, <1>5
  <2>2. \A q \in B : START \notin ToSet(Succs(blocks, q))
    BY SuccessorsOf DEF Succs
  <2>3. i = n
    BY <1>10, <2>1, <2>2
  <2>4. 1 \in 1 .. n /\ n - 1 + 1 = n
    BY <1>4, <2>1
  <2>5. rpo[1] = START
    BY <1>7, <2>1, <2>3, <2>4
  <2> QED
    BY <1>9, <2>4, <2>5
<1>12. ASSUME NEW b \in B \ {START}
       PROVE  \E q \in B : b \in ToSet(Succs(blocks, q)) /\ rank[q] < rank[b]
  <2>1. PICK i \in 1 .. n : post[i] = b
    BY <1>6
  <2>2. PICK q \in B, j \in i + 1 .. n : b \in ToSet(Succs(blocks, q)) /\ post[j] = q
    BY <1>10, <2>1
  <2>3. j \in 1 .. n /\ n - j + 1 < n - i + 1
    BY <1>4, <2>1
  <2>4. rank[b] = n - i + 1 /\ rank[q] = n - j + 1
    BY <1>7, <1>9, <2>1, <2>2, <2>3
  <2> QED
    BY <2>2, <2>3, <2>4
<1> QED
  BY <1>4, <1>7, <1>9, <1>11, <1>12 DEF IsOrder

-----------------------------------------------------------------------------
(* Trees: every block that has a dominator has it, in the order, before it. *)

\* Ranks of the blocks B, of which bb0 is the first.
IsRank(B, rank) ==
  /\ START \in B /\ NoBlock \notin B
  /\ rank \in [B -> Nat]
  /\ \A a, b \in B : rank[a] = rank[b] => a = b
  /\ \A b \in B \ {START} : rank[START] < rank[b]

IsTree(B, rank, idom) ==
  /\ idom \in [B -> B \union {NoBlock}]
  /\ idom[START] = START
  /\ \A b \in B \ {START} :
       idom[b] # NoBlock => /\ idom[b] \in B /\ idom[idom[b]] # NoBlock
                            /\ rank[idom[b]] < rank[b]

Known(idom) == {b \in DOMAIN idom : idom[b] # NoBlock}

\* The way from b up: what no set can do without that holds b and with every
\* block the one above it.
Up(idom, b) ==
  {a \in Known(idom) :
     \A S \in SUBSET Known(idom) : b \in S /\ (\A x \in S : idom[x] \in S) => a \in S}

\* What holds of a block whenever it holds of those of lower rank, holds of all.
LEMMA RankInduction ==
  ASSUME NEW B, NEW rank \in [B -> Nat], NEW T,
         \A b \in B : (\A c \in B : rank[c] < rank[b] => c \in T) => b \in T
  PROVE  B \subseteq T
<1> DEFINE S == {n \in Nat : \A b \in B : rank[b] < n => b \in T}
<1>1. 0 \in S
  OBVIOUS
<1>2. ASSUME NEW n \in Nat, n \in S PROVE n + 1 \in S
  <2> SUFFICES ASSUME NEW b \in B, rank[b] < n + 1 PROVE b \in T
    BY <1>2
  <2>1. \A c \in B : rank[c] < rank[b] => c \in T
    BY <1>2
  <2> QED
    BY <2>1
<1>3. Nat \subseteq S
  <2> HIDE DEF S
  <2> QED
    BY <1>1, <1>2, SetInduction
<1> SUFFICES ASSUME NEW b \in B PROVE b \in T
  OBVIOUS
<1>4. rank[b] \in Nat /\ rank[b] + 1 \in S /\ rank[b] < rank[b] + 1
  <2>1. rank[b] \in Nat /\ rank[b] + 1 \in Nat /\ rank[b] < rank[b] + 1
    OBVIOUS
  <2> HIDE DEF S
  <2> QED
    BY <1>3, <2>1
<1> QED
  BY <1>4

\* The known blocks of a tree.
LEMMA TreeFacts ==
  ASSUME NEW B, NEW rank, IsRank(B, rank), NEW idom, IsTree(B, rank, idom)
  PROVE  /\ DOMAIN idom = B /\ Known(idom) \subseteq B /\ START \in Known(idom)
         /\ \A b \in B : rank[b] \in Nat
         /\ \A b \in Known(idom) : idom[b] \in Known(idom)
         /\ \A b \in Known(idom) \ {START} : rank[idom[b]] < rank[b]
         /\ idom[START] = START
BY DEF IsRank, IsTree, Known

\* The way from a block leads on from the one above it, and is made of known blocks.
LEMMA UpOne ==
  ASSUME NEW B, NEW rank, IsRank(B, rank), NEW idom, IsTree(B, rank, idom),
         NEW b \in Known(idom)
  PROVE  /\ Up(idom, b) \subseteq Known(idom)
         /\ Up(idom, b) = {b} \union Up(idom, idom[b])
         /\ b \in Up(idom, b)
         /\ b = START => Up(idom, b) = {START}
<1> DEFINE K == Known(idom)
           c == idom[b]
           T == {b} \union Up(idom, c)
<1>1. c \in K /\ \A x \in K : idom[x] \in K
  BY TreeFacts
<1>2. \A x \in K : Up(idom, x) \subseteq K /\ x \in Up(idom, x)
  BY DEF Up
<1>3. \A x, y \in K : y \in Up(idom, x) => idom[y] \in Up(idom, x)
  BY <1>1 DEF Up
<1>4. T \in SUBSET K /\ b \in T /\ \A x \in T : idom[x] \in T
  BY <1>1, <1>2, <1>3
<1>5. Up(idom, b) \subseteq T
  <2> HIDE DEF T
  <2> QED
    BY <1>4 DEF Up
<1>6. T \subseteq Up(idom, b)
  BY <1>1, <1>2 DEF Up
<1>7. ASSUME b = START PROVE Up(idom, b) = {START}
  <2>1. idom[START] = START /\ START \in K
    BY TreeFacts
  <2>2. Up(idom, b) \subseteq {START}
    <3>1. {START} \in SUBSET K /\ b \in {START} /\ \A x \in {START} : idom[x] \in {START}
      BY <1>7, <2>1
    <3> QED
      BY <3>1 DEF Up
  <2> QED
    BY <1>2, <1>7, <2>2
<1> QED
  BY <1>2, <1>5, <1>6, <1>7

\* It goes to blocks of lower rank and ends at bb0.
LEMMA UpRanks ==
  ASSUME NEW B, NEW rank, IsRank(B, rank), NEW idom, IsTree(B, rank, idom),
         NEW b \in Known(idom)
  PROVE  /\ START \in Up(idom, b)
         /\ \A a \in Up(idom, b) : a \in B /\ (a = b \/ rank[a] < rank[b])
<1> DEFINE K == Known(idom)
           P(x) == /\ START \in Up(idom, x)
                   /\ \A a \in Up(idom, x) : a \in B /\ (a = x \/ rank[a] < rank[x])
           T == {x \in B : x \in K => P(x)}
<1>1. /\ K \subseteq B /\ START \in K
      /\ \A x \in B : rank[x] \in Nat
      /\ \A x \in K : idom[x] \in K
      /\ \A x \in K \ {START} : rank[idom[x]] < rank[x]
  BY TreeFacts
<1>2. ASSUME NEW x \in B, \A y \in B : rank[y] < rank[x] => y \in T
      PROVE  x \in T
  <2> SUFFICES ASSUME x \in K PROVE P(x)
    OBVIOUS
  <2>1. /\ Up(idom, x) = {x} \union Up(idom, idom[x])
        /\ x = START => Up(idom, x) = {START}
    BY UpOne
  <2>2. CASE x = START
    BY <1>1, <2>1, <2>2
  <2>3. CASE x # START
    <3>1. idom[x] \in K /\ idom[x] \in B /\ rank[idom[x]] < rank[x]
      BY <1>1, <2>3
    <3>2. P(idom[x])
      BY <1>2, <3>1
    <3>3. START \in Up(idom, x)
      BY <2>1, <3>2
    <3>4. ASSUME NEW a \in Up(idom, x)
          PROVE  a \in B /\ (a = x \/ rank[a] < rank[x])
      <4>1. CASE a = x
        BY <4>1
      <4>2. CASE a \in Up(idom, idom[x])
        <5>1. a \in B /\ (a = idom[x] \/ rank[a] < rank[idom[x]])
          BY <3>2, <4>2
        <5> QED
          BY <1>1, <3>1, <5>1
      <4> QED
        BY <2>1, <4>1, <4>2
    <3> QED
      BY <3>3, <3>4
  <2> QED
    BY <2>2, <2>3
<1>3. B \subseteq T
  <2>1. rank \in [B -> Nat]
    BY DEF IsRank
  <2> HIDE DEF T
  <2> QED
    BY <1>2, <2>1, RankInduction
<1> QED
  BY <1>1, <1>3

\* Two blocks on a way are one on the way from the other.
LEMMA UpLine ==
  ASSUME NEW B, NEW rank, IsRank(B, rank), NEW idom, IsTree(B, rank, idom),
         NEW b \in Known(idom), NEW c \in Up(idom, b)
  PROVE  /\ Up(idom, c) \subseteq Up(idom, b)
         /\ \A a \in Up(idom, b) : rank[a] <= rank[c] => a \in Up(idom, c)
<1> DEFINE K == Known(idom)
           P(x) == \A y \in Up(idom, x), a \in Up(idom, x) : rank[a] <= rank[y] => a \in Up(idom, y)
           T == {x \in B : x \in K => P(x)}
<1>1. /\ K \subseteq B /\ START \in K
      /\ \A x \in B : rank[x] \in Nat
      /\ \A x \in K : idom[x] \in K
      /\ \A x \in K \ {START} : rank[idom[x]] < rank[x]
  BY TreeFacts
<1>2. ASSUME NEW x \in B, \A y \in B : rank[y] < rank[x] => y \in T
      PROVE  x \in T
  <2> SUFFICES ASSUME x \in K PROVE P(x)
    OBVIOUS
  <2>1. /\ Up(idom, x) = {x} \union Up(idom, idom[x])
        /\ x \in Up(idom, x)
        /\ x = START => Up(idom, x) = {START}
    BY UpOne
  <2>2. CASE x = START
    BY <1>1, <2>1, <2>2
  <2>3. CASE x # START
    <3>1. idom[x] \in K /\ idom[x] \in B /\ rank[idom[x]] < rank[x]
      BY <1>1, <2>3
    <3>2. P(idom[x])
      BY <1>2, <3>1
    <3>3. ASSUME NEW y \in Up(idom, x), NEW a \in Up(idom, x), rank[a] <= rank[y]
          PROVE  a \in Up(idom, y)
      <4>1. CASE y = x
        BY <4>1
      <4>2. CASE y # x /\ a = x
        <5>1. y \in B /\ rank[y] < rank[x]
          BY <4>2, UpRanks
        <5> QED
          BY <1>1, <3>3, <4>2, <5>1
      <4>3. CASE y # x /\ a # x
        BY <2>1, <3>2, <3>3, <4>3
      <4> QED
        BY <4>1, <4>2, <4>3
    <3> QED
      BY <3>3
  <2> QED
    BY <2>2, <2>3
<1>3. B \subseteq T
  <2>1. rank \in [B -> Nat]
    BY DEF IsRank
  <2> HIDE DEF T
  <2> QED
    BY <1>2, <2>1, RankInduction
<1>4. P(b)
  BY <1>1, <1>3
<1>5. Up(idom, c) \subseteq Up(idom, b)
  <2> SUFFICES ASSUME NEW a \in Up(idom, c) PROVE a \in Up(idom, b)
    OBVIOUS
  <2>1. \A S \in SUBSET K : b \in S /\ (\A x \in S : idom[x] \in S) => c \in S
    BY DEF Up
  <2>2. a \in K /\ \A S \in SUBSET K : c \in S /\ (\A x \in S : idom[x] \in S) => a \in S
    BY DEF Up
  <2> QED
    BY <2>1, <2>2 DEF Up
<1> QED
  BY <1>4, <1>5

\* So no two blocks have the same way.
LEMMA UpOnce ==
  ASSUME NEW B, NEW rank, IsRank(B, rank), NEW idom, IsTree(B, rank, idom),
         NEW b \in Known(idom), NEW c \in Known(idom), Up(idom, b) = Up(idom, c)
  PROVE  b = c
<1>1. b \in Up(idom, c) /\ c \in Up(idom, b) /\ b \in B /\ c \in B
  BY UpOne, TreeFacts
<1>2. (b = c \/ rank[b] < rank[c]) /\ (b = c \/ rank[c] < rank[b])
  BY <1>1, UpRanks
<1>3. rank[b] \in Nat /\ rank[c] \in Nat
  BY <1>1, TreeFacts
<1> QED
  BY <1>2, <1>3

-----------------------------------------------------------------------------
(* Where two ways meet. *)

\* A set of blocks of bounded rank has one of the highest.
LEMMA HighestRank ==
  ASSUME NEW B, NEW rank \in [B -> Nat], NEW S \in SUBSET B, S # {}, NEW n \in Nat,
         \A a \in S : rank[a] <= n
  PROVE  \E m \in S : \A a \in S : rank[a] <= rank[m]
<1> SUFFICES ASSUME ~ \E m \in S : \A a \in S : rank[a] <= rank[m] PROVE FALSE
  OBVIOUS
<1> DEFINE T == {k \in Nat : \E a \in S : rank[a] >= k}
<1>1. 0 \in T
  BY DEF T
<1>2. ASSUME NEW k \in Nat, k \in T PROVE k + 1 \in T
  <2>1. PICK a \in S : rank[a] >= k
    BY <1>2
  <2>2. PICK c \in S : ~(rank[c] <= rank[a])
    OBVIOUS
  <2>3. rank[a] \in Nat /\ rank[c] \in Nat
    OBVIOUS
  <2>4. rank[c] >= k + 1
    BY <2>1, <2>2, <2>3
  <2> QED
    BY <2>4
<1>3. Nat \subseteq T
  <2> HIDE DEF T
  <2> QED
    BY <1>1, <1>2, SetInduction
<1>4. n + 1 \in T
  <2> HIDE DEF T
  <2> QED
    BY <1>3
<1> QED
  BY <1>4

\* The way of one known block is what the ways of two have in common.
LEMMA MeetingExists ==
  ASSUME NEW B, NEW rank, IsRank(B, rank), NEW idom, IsTree(B, rank, idom),
         NEW a \in Known(idom), NEW b \in Known(idom)
  PROVE  \E m \in Known(idom) : Up(idom, m) = Up(idom, a) \intersect Up(idom, b)
<1> DEFINE S == Up(idom, a) \intersect Up(idom, b)
<1>1. START \in S /\ S \subseteq Known(idom) /\ S \in SUBSET B
  BY UpRanks, UpOne
<1>2. rank \in [B -> Nat] /\ a \in B /\ rank[a] \in Nat
  BY TreeFacts DEF IsRank
<1>3. \A x \in S : rank[x] <= rank[a]
  BY <1>2, UpRanks, TreeFacts
<1>4. PICK m \in S : \A x \in S : rank[x] <= rank[m]
  <2> HIDE DEF S
  <2> QED
    BY <1>1, <1>2, <1>3, HighestRank
<1>5. Up(idom, m) \subseteq S
  BY UpLine
<1>6. S \subseteq Up(idom, m)
  BY <1>4, UpLine
<1> QED
  BY <1>1, <1>5, <1>6

\* The next two blocks of Intersect, when a and b are not the same.
Higher(idom, rank, p) ==
  IF rank[p[1]] > rank[p[2]] THEN <<idom[p[1]], p[2]>> ELSE <<p[1], idom[p[2]]>>

\* They are known, their ranks together are lower, and they meet where a and b do.
LEMMA HigherMeets ==
  ASSUME NEW B, NEW rank, IsRank(B, rank), NEW idom, IsTree(B, rank, idom),
         NEW a \in Known(idom), NEW b \in Known(idom), a # b,
         NEW c, NEW d, <<c, d>> = Higher(idom, rank, <<a, b>>)
  PROVE  /\ c \in Known(idom) /\ d \in Known(idom)
         /\ rank[c] + rank[d] < rank[a] + rank[b]
         /\ Up(idom, c) \intersect Up(idom, d) = Up(idom, a) \intersect Up(idom, b)
         /\ rank[a] > rank[b] => idom[a] \notin {NoBlock, a}
         /\ ~(rank[a] > rank[b]) => idom[b] \notin {NoBlock, b}
<1> DEFINE K == Known(idom)
<1>1. /\ K \subseteq B /\ START \in K
      /\ \A x \in B : rank[x] \in Nat
      /\ \A x \in K : idom[x] \in K
      /\ \A x \in K \ {START} : rank[idom[x]] < rank[x]
      /\ NoBlock \notin K
      /\ \A x \in B \ {START} : rank[START] < rank[x]
      /\ \A x, y \in B : rank[x] = rank[y] => x = y
  BY TreeFacts DEF IsRank
<1>2. ASSUME NEW x \in K, NEW y \in K, rank[x] > rank[y]
      PROVE  /\ idom[x] \in K /\ rank[idom[x]] < rank[x] /\ idom[x] \notin {NoBlock, x}
             /\ Up(idom, idom[x]) \intersect Up(idom, y) = Up(idom, x) \intersect Up(idom, y)
  <2>1. x # START
    BY <1>1, <1>2
  <2>2. idom[x] \in K /\ rank[idom[x]] < rank[x] /\ rank[x] \in Nat /\ rank[y] \in Nat
    BY <1>1, <2>1
  <2>3. idom[x] # x /\ idom[x] # NoBlock
    BY <1>1, <2>2
  <2>4. x \notin Up(idom, y)
    BY <1>2, <2>2, UpRanks
  <2>5. Up(idom, x) = {x} \union Up(idom, idom[x])
    BY UpOne
  <2> QED
    BY <2>2, <2>3, <2>4, <2>5
<1>3. CASE rank[a] > rank[b]
  <2>1. c = idom[a] /\ d = b
    BY <1>3 DEF Higher
  <2>2. /\ idom[a] \in K /\ rank[idom[a]] < rank[a] /\ idom[a] \notin {NoBlock, a}
        /\ Up(idom, idom[a]) \intersect Up(idom, b) = Up(idom, a) \intersect Up(idom, b)
    BY <1>2, <1>3
  <2>3. rank[idom[a]] \in Nat /\ rank[a] \in Nat /\ rank[b] \in Nat
    BY <1>1, <2>2
  <2> QED
    BY <1>3, <2>1, <2>2, <2>3
<1>4. CASE ~(rank[a] > rank[b])
  <2>1. c = a /\ d = idom[b]
    BY <1>4 DEF Higher
  <2>2. rank[b] > rank[a]
    BY <1>1, <1>4
  <2>3. /\ idom[b] \in K /\ rank[idom[b]] < rank[b] /\ idom[b] \notin {NoBlock, b}
        /\ Up(idom, idom[b]) \intersect Up(idom, a) = Up(idom, b) \intersect Up(idom, a)
    BY <1>2, <2>2
  <2>4. rank[idom[b]] \in Nat /\ rank[a] \in Nat /\ rank[b] \in Nat
    BY <1>1, <2>3
  <2> QED
    BY <1>4, <2>1, <2>3, <2>4
<1> QED
  BY <1>3, <1>4

\* Intersect finds that block.
LEMMA IntersectMeets ==
  ASSUME NEW B, NEW rank, IsRank(B, rank), NEW idom, IsTree(B, rank, idom),
         NEW a \in Known(idom), NEW b \in Known(idom), NEW m, m = Intersect(a, b, idom, rank)
  PROVE  m \in Known(idom) /\ Up(idom, m) = Up(idom, a) \intersect Up(idom, b)
<1> DEFINE K == Known(idom)
           Above(g, p) == CASE p[1] = p[2] -> p[1]
                            [] rank[p[1]] > rank[p[2]] ->
                                 IF idom[p[1]] \in {NoBlock, p[1]} THEN p[2] ELSE g[<<idom[p[1]], p[2]>>]
                            [] OTHER ->
                                 IF idom[p[2]] \in {NoBlock, p[2]} THEN p[1] ELSE g[<<p[1], idom[p[2]]>>]
           IsUp(g) == g = [p \in K \X K |-> Above(g, p)]
           up == CHOOSE g : IsUp(g)
           Meets(p, x) == x \in K /\ Up(idom, x) = Up(idom, p[1]) \intersect Up(idom, p[2])
           f == [p \in K \X K |-> CHOOSE x : Meets(p, x)]
<1>1. \A p \in K \X K : Meets(p, f[p])
  <2> SUFFICES ASSUME NEW p \in K \X K PROVE \E x : Meets(p, x)
    OBVIOUS
  <2>1. PICK c, d : c = p[1] /\ d = p[2] /\ c \in K /\ d \in K
    OBVIOUS
  <2>2. \E x \in K : Up(idom, x) = Up(idom, c) \intersect Up(idom, d)
    BY <2>1, MeetingExists
  <2>3. PICK x \in K : Up(idom, x) = Up(idom, c) \intersect Up(idom, d)
    BY <2>2
  <2>4. Meets(p, x)
    BY <2>1, <2>3
  <2> QED
    BY <2>4
<1>2. \A x, y \in K : Up(idom, x) = Up(idom, y) => x = y
  BY UpOnce
<1>3. ASSUME NEW g, NEW p \in K \X K, p[1] # p[2]
      PROVE  /\ Higher(idom, rank, p) \in K \X K
             /\ Above(g, p) = g[Higher(idom, rank, p)]
             /\ \A x : Meets(p, x) <=> Meets(Higher(idom, rank, p), x)
             /\ rank[Higher(idom, rank, p)[1]] + rank[Higher(idom, rank, p)[2]] < rank[p[1]] + rank[p[2]]
  <2>1. PICK x, y, c, d : /\ x = p[1] /\ y = p[2] /\ p = <<x, y>>
                          /\ <<c, d>> = Higher(idom, rank, p)
    BY DEF Higher
  <2>2. x \in K /\ y \in K /\ x # y
    BY <1>3, <2>1
  <2>3. /\ c \in K /\ d \in K
        /\ rank[c] + rank[d] < rank[x] + rank[y]
        /\ Up(idom, c) \intersect Up(idom, d) = Up(idom, x) \intersect Up(idom, y)
        /\ rank[x] > rank[y] => idom[x] \notin {NoBlock, x}
        /\ ~(rank[x] > rank[y]) => idom[y] \notin {NoBlock, y}
    BY <2>1, <2>2, HigherMeets
  <2>4. Above(g, p) = g[Higher(idom, rank, p)]
    BY <2>1, <2>2, <2>3 DEF Higher
  <2>5. <<c, d>>[1] = c /\ <<c, d>>[2] = d /\ <<c, d>> \in K \X K
    BY <2>3
  <2> QED
    BY <2>1, <2>3, <2>4, <2>5
<1>4. ASSUME NEW g, NEW p \in K \X K, p[1] = p[2]
      PROVE  Above(g, p) = p[1] /\ Meets(p, p[1]) /\ f[p] = p[1]
  <2>1. Above(g, p) = p[1] /\ Meets(p, p[1])
    <3>1. p[1] \in K /\ rank[p[1]] \in Nat
      BY TreeFacts
    <3>2. Above(g, p) = p[1]
      <4>1. ~(rank[p[1]] > rank[p[2]])
        BY <1>4, <3>1
      <4> QED
        BY ONLY <1>4, <4>1
    <3> QED
      BY <1>4, <3>1, <3>2
  <2> HIDE DEF f
  <2>2. f[p] = p[1]
    BY <1>1, <1>2, <2>1
  <2> QED
    BY <2>1, <2>2
<1>5. IsUp(f)
  <2>1. ASSUME NEW p \in K \X K PROVE f[p] = Above(f, p)
    <3>1. CASE p[1] = p[2]
      <4> HIDE DEF f, Above, Meets
      <4> QED
        BY <1>4, <3>1
    <3>2. CASE p[1] # p[2]
      <4>1. PICK q : q = Higher(idom, rank, p)
        OBVIOUS
      <4>2. q \in K \X K /\ Above(f, p) = f[q] /\ \A x : Meets(p, x) <=> Meets(q, x)
        <5> HIDE DEF Meets, Above, f
        <5> QED
          BY <1>3, <3>2, <4>1
      <4>3. Meets(p, f[p]) /\ Meets(p, f[q])
        <5> HIDE DEF Meets, f
        <5> QED
          BY <1>1, <4>2
      <4>4. f[p] = f[q]
        <5> HIDE DEF f
        <5> QED
          BY <1>2, <4>3
      <4> QED
        BY <4>2, <4>4
    <3> QED
      BY <3>1, <3>2
  <2> HIDE DEF Above
  <2>2. f = [p \in K \X K |-> f[p]]
    OBVIOUS
  <2> HIDE DEF f
  <2> QED
    BY <2>1, <2>2
<1>6. IsUp(up)
  <2> HIDE DEF IsUp
  <2> QED
    BY <1>5
<1> DEFINE T == {n \in Nat : \A p \in K \X K : rank[p[1]] + rank[p[2]] < n => up[p] = f[p]}
<1>7. /\ K \subseteq B /\ \A x \in K : rank[x] \in Nat
      /\ \A p \in K \X K : rank[p[1]] + rank[p[2]] \in Nat
  BY TreeFacts
<1>8. \A p \in K \X K : up[p] = Above(up, p)
  <2> HIDE DEF up, Above
  <2> QED
    BY <1>6
<1>9. \A p \in K \X K : f[p] = Above(f, p)
  <2> HIDE DEF f, Above
  <2> QED
    BY <1>5
<1>10. 0 \in T
  <2> HIDE DEF up, f
  <2> QED
    BY <1>7
<1>11. ASSUME NEW n \in Nat, n \in T PROVE n + 1 \in T
  <2> HIDE DEF up, f
  <2> SUFFICES ASSUME NEW p \in K \X K, rank[p[1]] + rank[p[2]] < n + 1
               PROVE  up[p] = f[p]
    OBVIOUS
  <2>1. CASE p[1] = p[2]
    <3> HIDE DEF Above
    <3> QED
      BY <1>4, <1>8, <2>1
  <2>2. CASE p[1] # p[2]
    <3>1. PICK q : q = Higher(idom, rank, p)
      OBVIOUS
    <3>2. /\ q \in K \X K /\ Above(f, p) = f[q] /\ Above(up, p) = up[q]
          /\ rank[q[1]] + rank[q[2]] < rank[p[1]] + rank[p[2]]
      <4> HIDE DEF Above, Meets
      <4> QED
        BY <1>3, <2>2, <3>1
    <3>3. rank[q[1]] + rank[q[2]] < n
      BY <1>7, <3>2
    <3>4. up[q] = f[q]
      BY <1>11, <3>2, <3>3
    <3> HIDE DEF Above
    <3> QED
      BY <1>8, <1>9, <3>2, <3>4
  <2> QED
    BY <2>1, <2>2
<1>12. Nat \subseteq T
  <2> HIDE DEF T
  <2> QED
    BY <1>10, <1>11, SetInduction
<1>13. up[<<a, b>>] = f[<<a, b>>]
  <2>1. PICK p : p = <<a, b>>
    OBVIOUS
  <2>2. p \in K \X K
    BY <2>1
  <2>3. PICK n : n = rank[p[1]] + rank[p[2]]
    OBVIOUS
  <2>4. n \in Nat /\ n + 1 \in Nat /\ n < n + 1
    BY <1>7, <2>2, <2>3
  <2>5. n + 1 \in T
    <3> HIDE DEF T
    <3> QED
      BY <1>12, <2>4
  <2> HIDE DEF up, f
  <2> QED
    BY <2>1, <2>2, <2>3, <2>4, <2>5
<1>14. m = up[<<a, b>>]
  BY DEF Intersect, Known
<1>15. <<a, b>> \in K \X K /\ <<a, b>>[1] = a /\ <<a, b>>[2] = b
  OBVIOUS
<1>16. Meets(<<a, b>>, f[<<a, b>>])
  <2> HIDE DEF Meets, f
  <2> QED
    BY <1>1, <1>15
<1> HIDE DEF up, f
<1> QED
  BY <1>13, <1>14, <1>15, <1>16

-----------------------------------------------------------------------------
(* What the predecessors have in common. *)

\* The predecessors of b that have a dominator so far, among the first n blocks.
LeadingOf(blocks, idom, b, n) ==
  {q \in Known(idom) : q <= n /\ b \in ToSet(Succs(blocks, q))}

Leading(blocks, idom, b) == {q \in Known(idom) : b \in ToSet(Succs(blocks, q))}

\* x stands for the blocks in D: its way is what theirs have in common.
StandsFor(idom, x, D) ==
  /\ D = {} => x = NoBlock
  /\ D # {} => x \in Known(idom) /\ \A a : a \in Up(idom, x) <=> \A q \in D : a \in Up(idom, q)

\* A step of MeetOf.
MeetStep(blocks, b, idom, rank, p, cur) ==
  CASE b \notin ToSet(Successors(blocks[p].term)) \/ idom[p] = NoBlock -> cur
    [] OTHER -> IF cur = NoBlock THEN p ELSE Intersect(p, cur, idom, rank)

LEMMA MeetSteps ==
  ASSUME NEW blocks, IsGraph(blocks), NEW rank, IsRank(DOMAIN blocks, rank),
         NEW idom, IsTree(DOMAIN blocks, rank, idom), NEW b \in DOMAIN blocks,
         NEW p \in 1 .. Len(blocks), NEW cur \in Known(idom) \union {NoBlock}
  PROVE  /\ MeetStep(blocks, b, idom, rank, p, cur) \in Known(idom) \union {NoBlock}
         /\ StandsFor(idom, cur, LeadingOf(blocks, idom, b, p - 1)) =>
              StandsFor(idom, MeetStep(blocks, b, idom, rank, p, cur), LeadingOf(blocks, idom, b, p))
<1> DEFINE K == Known(idom)
           D == LeadingOf(blocks, idom, b, p - 1)
           E == LeadingOf(blocks, idom, b, p)
           next == MeetStep(blocks, b, idom, rank, p, cur)
<1>1. /\ Len(blocks) \in Nat /\ DOMAIN blocks = 1 .. Len(blocks) /\ K \subseteq DOMAIN blocks
      /\ DOMAIN idom = DOMAIN blocks /\ NoBlock \notin K
  BY GraphDomain, TreeFacts DEF IsRank
<1>2. CASE b \notin ToSet(Succs(blocks, p)) \/ idom[p] = NoBlock
  <2>1. next = cur
    BY <1>2 DEF MeetStep, Succs
  <2>2. p \notin K \/ b \notin ToSet(Succs(blocks, p))
    BY <1>2 DEF Known
  <2>3. E = D
    <3>1. \A q \in K : q <= p /\ b \in ToSet(Succs(blocks, q)) <=> q <= p - 1 /\ b \in ToSet(Succs(blocks, q))
      <4> TAKE q \in K
      <4>1. q \in Nat /\ (q <= p <=> q <= p - 1 \/ q = p)
        BY <1>1
      <4> QED
        BY <2>2, <4>1
    <3> QED
      BY <3>1 DEF LeadingOf
  <2> QED
    BY <2>1, <2>3
<1>3. CASE b \in ToSet(Succs(blocks, p)) /\ idom[p] # NoBlock
  <2>1. p \in K
    BY <1>1, <1>3 DEF Known
  <2>2. E = D \union {p}
    <3>1. \A q \in K : q <= p <=> q <= p - 1 \/ q = p
      BY <1>1
    <3> QED
      BY <1>3, <2>1, <3>1 DEF LeadingOf
  <2>3. next = IF cur = NoBlock THEN p ELSE Intersect(p, cur, idom, rank)
    BY <1>3 DEF MeetStep, Succs
  <2>4. CASE cur = NoBlock
    <3>1. next = p
      BY <2>3, <2>4
    <3>2. StandsFor(idom, cur, D) => D = {}
      BY <1>1, <2>4 DEF StandsFor
    <3>3. D = {} => StandsFor(idom, next, E)
      BY <2>1, <2>2, <3>1 DEF StandsFor
    <3> QED
      BY <2>1, <3>1, <3>2, <3>3
  <2>5. CASE cur # NoBlock
    <3>1. cur \in K /\ next = Intersect(p, cur, idom, rank)
      BY <2>3, <2>5
    <3>2. next \in K /\ Up(idom, next) = Up(idom, p) \intersect Up(idom, cur)
      BY <2>1, <3>1, IntersectMeets
    <3>3. StandsFor(idom, cur, D) => StandsFor(idom, next, E)
      <4> SUFFICES ASSUME StandsFor(idom, cur, D) PROVE StandsFor(idom, next, E)
        OBVIOUS
      <4>1. \A a : a \in Up(idom, cur) <=> \A q \in D : a \in Up(idom, q)
        BY <2>5 DEF StandsFor
      <4>2. \A a : a \in Up(idom, next) <=> \A q \in E : a \in Up(idom, q)
        BY <2>2, <3>2, <4>1
      <4> QED
        BY <2>2, <3>2, <4>2 DEF StandsFor
    <3> QED
      BY <3>2, <3>3
  <2> QED
    BY <2>4, <2>5
<1> QED
  BY <1>2, <1>3

\* MeetOf finds what stands for all of them.
LEMMA MeetFound ==
  ASSUME NEW blocks, IsGraph(blocks), NEW rank, IsRank(DOMAIN blocks, rank),
         NEW idom, IsTree(DOMAIN blocks, rank, idom), NEW b \in DOMAIN blocks
  PROVE  StandsFor(idom, MeetOf(blocks, b, idom, rank), Leading(blocks, idom, b))
<1> DEFINE V == Known(idom) \union {NoBlock}
           NextOf(p, cur) == MeetStep(blocks, b, idom, rank, p, cur)
           AreMeets(f) == f = [p \in 0 .. Len(blocks) |-> IF p = 0 THEN NoBlock ELSE NextOf(p, f[p - 1])]
           meet == CHOOSE f : AreMeets(f)
<1>1. PICK N \in Nat : N = Len(blocks)
  BY GraphDomain
<1> DEFINE G == [p \in 1 .. N |-> [cur \in V |-> NextOf(p, cur)]]
<1>2. \A p \in 1 .. N, cur \in V : NextOf(p, cur) \in V
  <2> HIDE DEF NextOf, V
  <2> QED
    BY <1>1, MeetSteps DEF NextOf, V
<1>3. PICK g \in [0 .. N -> V] : Iterates(g, N, NoBlock, G)
  <2>1. NoBlock \in V
    OBVIOUS
  <2>2. G \in [1 .. N -> [V -> V]]
    <3> HIDE DEF NextOf, V
    <3> QED
      BY <1>2
  <2> HIDE DEF G, V
  <2> QED
    BY <1>1, <2>1, <2>2, RecursionExists
<1>4. AreMeets(g)
  <2>1. g[0] = NoBlock /\ \A p \in 1 .. N : g[p] = NextOf(p, g[p - 1])
    <3>1. \A p \in 1 .. N : g[p - 1] \in V
      BY <1>1, <1>3
    <3> HIDE DEF NextOf, V
    <3> QED
      BY <1>3, <3>1 DEF Iterates
  <2>2. \A p \in 0 .. N : p = 0 \/ p \in 1 .. N
    BY <1>1
  <2> HIDE DEF NextOf, V
  <2> QED
    BY <1>1, <1>3, <2>1, <2>2
<1>5. AreMeets(meet)
  <2> HIDE DEF AreMeets
  <2> QED
    BY <1>4
<1>6. meet[0] = NoBlock /\ \A p \in 1 .. N : meet[p] = NextOf(p, meet[p - 1])
  <2> HIDE DEF meet, NextOf
  <2> QED
    BY <1>1, <1>5
<1> DEFINE T == {p \in 0 .. N : meet[p] \in V /\ StandsFor(idom, meet[p], LeadingOf(blocks, idom, b, p))}
<1>7. /\ DOMAIN blocks = 1 .. N /\ Known(idom) \subseteq 1 .. N
      /\ NoBlock \notin Known(idom)
  <2>1. DOMAIN blocks = 1 .. N
    BY <1>1, GraphDomain
  <2>2. Known(idom) \subseteq DOMAIN blocks
    BY TreeFacts
  <2>3. NoBlock \notin DOMAIN blocks
    BY DEF IsRank
  <2> QED
    BY <2>1, <2>2, <2>3
<1>8. 0 \in T
  <2>1. LeadingOf(blocks, idom, b, 0) = {}
    BY <1>1, <1>7 DEF LeadingOf
  <2>2. meet[0] = NoBlock /\ 0 \in 0 .. N
    BY <1>1, <1>6
  <2> HIDE DEF meet
  <2> QED
    BY <2>1, <2>2 DEF StandsFor
<1>9. ASSUME NEW p \in 1 .. N, p - 1 \in T PROVE p \in T
  <2>1. /\ meet[p - 1] \in V /\ StandsFor(idom, meet[p - 1], LeadingOf(blocks, idom, b, p - 1))
        /\ meet[p] = NextOf(p, meet[p - 1]) /\ p \in 0 .. N
    <3> HIDE DEF meet, NextOf, V
    <3> QED
      BY <1>6, <1>9
  <2>2. PICK cur : cur = meet[p - 1]
    OBVIOUS
  <2>3. NextOf(p, cur) \in V /\ StandsFor(idom, NextOf(p, cur), LeadingOf(blocks, idom, b, p))
    <3> HIDE DEF meet
    <3> QED
      BY <1>1, <2>1, <2>2, MeetSteps
  <2> HIDE DEF meet, NextOf, V
  <2> QED
    BY <2>1, <2>2, <2>3
<1>10. N \in T
  <2>1. 0 .. N \subseteq T
    <3> HIDE DEF T
    <3> QED
      BY <1>1, <1>8, <1>9, IntervalInduction
  <2> QED
    BY <1>1, <2>1
<1>11. LeadingOf(blocks, idom, b, N) = Leading(blocks, idom, b)
  BY <1>7 DEF LeadingOf, Leading
<1>12. MeetOf(blocks, b, idom, rank) = meet[N]
  BY <1>1 DEF MeetOf, MeetStep
<1> HIDE DEF meet
<1> QED
  BY <1>10, <1>11, <1>12

-----------------------------------------------------------------------------
(* A dominator moves up. *)

\* When c gets m above it, which has been on its way if it had one, the ways
\* that do not lead through c stay as they are; the others lose some of the
\* blocks that are above c.
LEMMA Moved ==
  ASSUME NEW B, NEW rank, IsRank(B, rank), NEW idom, IsTree(B, rank, idom),
         NEW c \in B \ {START}, NEW m \in Known(idom), rank[m] < rank[c],
         c \in Known(idom) => m \in Up(idom, c),
         NEW new \in [B -> B \union {NoBlock}], new[c] = m, \A x \in B \ {c} : new[x] = idom[x]
  PROVE  /\ IsTree(B, rank, new)
         /\ Known(new) = Known(idom) \union {c}
         /\ Up(new, c) = {c} \union Up(idom, m)
         /\ \A x \in Known(idom) :
              /\ Up(new, x) \subseteq Up(idom, x)
              /\ \A y \in Up(idom, x) : rank[y] >= rank[c] => y \in Up(new, x)
              /\ c \notin Up(idom, x) => Up(new, x) = Up(idom, x)
<1> DEFINE K == Known(idom)
<1>1. /\ DOMAIN idom = B /\ K \subseteq B /\ START \in K
      /\ \A x \in B : rank[x] \in Nat
      /\ \A x \in K : idom[x] \in K
      /\ \A x \in K \ {START} : rank[idom[x]] < rank[x]
      /\ idom[START] = START /\ idom \in [B -> B \union {NoBlock}] /\ NoBlock \notin B
      /\ \A x, y \in B : rank[x] = rank[y] => x = y
      /\ \A x \in K : idom[x] # NoBlock
  BY TreeFacts DEF IsTree, IsRank, Known
<1>2. new[c] = m /\ new[START] = START /\ \A x \in B \ {c} : new[x] = idom[x]
  BY <1>1
<1>3. Known(new) = K \union {c}
  BY <1>1, <1>2 DEF Known
<1>4. IsTree(B, rank, new)
  <2>1. new \in [B -> B \union {NoBlock}] /\ m # NoBlock
    BY <1>1
  <2>2. ASSUME NEW b \in B \ {START}, new[b] # NoBlock
        PROVE  new[b] \in B /\ new[new[b]] # NoBlock /\ rank[new[b]] < rank[b]
    <3>1. CASE b = c
      <4>1. new[m] # NoBlock
        BY <1>1, <1>2, <2>1
      <4> QED
        BY <1>1, <1>2, <3>1, <4>1
    <3>2. CASE b # c
      <4>1. new[b] = idom[b] /\ b \in K
        BY <1>1, <1>2, <2>2, <3>2 DEF Known
      <4>2. idom[b] \in K /\ rank[idom[b]] < rank[b]
        BY <1>1, <4>1
      <4>3. new[idom[b]] # NoBlock
        BY <1>1, <1>2, <2>1, <4>2
      <4> QED
        BY <1>1, <4>1, <4>2, <4>3
    <3> QED
      BY <3>1, <3>2
  <2> QED
    BY <1>2, <2>1, <2>2 DEF IsTree
<1> DEFINE Same(x) == c \notin Up(idom, x) => Up(new, x) = Up(idom, x)
           T == {x \in B : x \in K => Same(x)}
<1>5. ASSUME NEW x \in B, \A y \in B : rank[y] < rank[x] => y \in T
      PROVE  x \in T
  <2> SUFFICES ASSUME x \in K, c \notin Up(idom, x) PROVE Up(new, x) = Up(idom, x)
    OBVIOUS
  <2>1. /\ Up(idom, x) = {x} \union Up(idom, idom[x])
        /\ x \in Up(idom, x)
        /\ x = START => Up(idom, x) = {START}
    BY UpOne
  <2>2. /\ Up(new, x) = {x} \union Up(new, new[x])
        /\ x = START => Up(new, x) = {START}
    BY <1>3, <1>4, UpOne
  <2>3. CASE x = START
    BY <2>1, <2>2, <2>3
  <2>4. CASE x # START
    <3>1. idom[x] \in K /\ idom[x] \in B /\ rank[idom[x]] < rank[x] /\ new[x] = idom[x]
      BY <1>1, <1>2, <2>1, <2>4
    <3>2. Up(new, idom[x]) = Up(idom, idom[x])
      BY <1>5, <2>1, <3>1
    <3> QED
      BY <2>1, <2>2, <3>1, <3>2
  <2> QED
    BY <2>3, <2>4
<1>6. B \subseteq T
  <2>1. rank \in [B -> Nat]
    BY DEF IsRank
  <2> HIDE DEF T
  <2> QED
    BY <1>5, <2>1, RankInduction
<1>7. \A x \in K : Same(x)
  BY <1>1, <1>6
<1>8. Up(new, c) = {c} \union Up(idom, m)
  <2>1. c \notin Up(idom, m)
    BY <1>1, UpRanks
  <2>2. Up(new, m) = Up(idom, m)
    BY <1>7, <2>1
  <2>3. Up(new, c) = {c} \union Up(new, new[c])
    BY <1>3, <1>4, UpOne
  <2> QED
    BY <1>2, <2>2, <2>3
<1> DEFINE Less(x) == /\ Up(new, x) \subseteq Up(idom, x)
                      /\ \A y \in Up(idom, x) : rank[y] >= rank[c] => y \in Up(new, x)
           R == {x \in B : x \in K => Less(x)}
<1>9. ASSUME NEW x \in B, \A y \in B : rank[y] < rank[x] => y \in R
      PROVE  x \in R
  <2> SUFFICES ASSUME x \in K PROVE Less(x)
    OBVIOUS
  <2>1. /\ Up(idom, x) = {x} \union Up(idom, idom[x])
        /\ x = START => Up(idom, x) = {START}
    BY UpOne
  <2>2. /\ Up(new, x) = {x} \union Up(new, new[x])
        /\ x = START => Up(new, x) = {START}
    BY <1>3, <1>4, UpOne
  <2>3. CASE x = START
    BY <2>1, <2>2, <2>3
  <2>4. CASE x = c
    <3>1. Up(idom, m) \subseteq Up(idom, c)
      BY <2>4, UpLine
    <3>2. \A y \in Up(idom, c) : y \in B /\ (y = c \/ rank[y] < rank[c])
      BY <2>4, UpRanks
    <3>3. \A y \in Up(idom, c) : rank[y] >= rank[c] => y = c
      BY <1>1, <3>2
    <3> QED
      BY <1>8, <2>1, <2>4, <3>1, <3>3
  <2>5. CASE x # START /\ x # c
    <3>1. idom[x] \in K /\ idom[x] \in B /\ rank[idom[x]] < rank[x] /\ new[x] = idom[x]
      BY <1>1, <1>2, <2>5
    <3>2. Less(idom[x])
      BY <1>9, <3>1
    <3> QED
      BY <2>1, <2>2, <3>1, <3>2
  <2> QED
    BY <2>3, <2>4, <2>5
<1>10. B \subseteq R
  <2>1. rank \in [B -> Nat]
    BY DEF IsRank
  <2> HIDE DEF R
  <2> QED
    BY <1>9, <2>1, RankInduction
<1>11. \A x \in K : Less(x)
  BY <1>1, <1>10
<1> QED
  BY <1>3, <1>4, <1>7, <1>8, <1>11

-----------------------------------------------------------------------------
(* What can be reached without a block. *)

LEMMA AvoidingIs ==
  ASSUME NEW blocks, IsGraph(blocks), NEW a \in DOMAIN blocks
  PROVE  /\ Avoiding(blocks, a) \subseteq DOMAIN blocks /\ START \in Avoiding(blocks, a)
         /\ \A b \in Avoiding(blocks, a) \ {a} : ToSet(Succs(blocks, b)) \subseteq Avoiding(blocks, a)
         /\ \A S : START \in S /\ (\A b \in (S \intersect DOMAIN blocks) \ {a} : ToSet(Succs(blocks, b)) \subseteq S)
                     => Avoiding(blocks, a) \subseteq S
<1> DEFINE cut == [b \in DOMAIN blocks |-> IF b = a THEN EmptyBlock ELSE blocks[b]]
<1>1. PICK n \in Nat : n = Len(blocks) /\ n > 0 /\ DOMAIN blocks = 1 .. n
  BY GraphDomain
<1>2. IsBlock(EmptyBlock) /\ ToSet(Successors(EmptyBlock.term)) = {}
  <2>1. IsTerminator(Unreachable) /\ ToSet(Successors(Unreachable)) = {}
    BY DEF IsTerminator, Unreachable, Successors, ToSet
  <2>2. <<>> \in Seq({})
    OBVIOUS
  <2> QED
    BY <2>1, <2>2, BlockOf DEF EmptyBlock
<1>3. IsGraph(cut)
  <2>1. DOMAIN cut = 1 .. n /\ cut = [i \in 1 .. n |-> cut[i]]
    BY <1>1
  <2>2. \A i \in 1 .. n : IsBlock(cut[i]) /\ ToSet(Successors(cut[i].term)) \subseteq 1 .. n
    BY <1>1, <1>2 DEF IsGraph
  <2> HIDE DEF cut
  <2> QED
    BY <1>1, <2>1, <2>2, GraphOf
<1>4. /\ ToSet(Successors(cut[a].term)) = {}
      /\ \A b \in DOMAIN blocks \ {a} : ToSet(Successors(cut[b].term)) = ToSet(Succs(blocks, b))
      /\ DOMAIN cut = DOMAIN blocks
  BY <1>2 DEF Succs
<1>5. Avoiding(blocks, a) = Reachable(cut)
  BY DEF Avoiding
<1> HIDE DEF cut
<1>6. /\ Reachable(cut) \subseteq DOMAIN cut /\ START \in Reachable(cut)
      /\ \A b \in Reachable(cut) : ToSet(Successors(cut[b].term)) \subseteq Reachable(cut)
  BY <1>3, ReachableClosed
<1>7. ASSUME NEW S, START \in S,
             \A b \in (S \intersect DOMAIN blocks) \ {a} : ToSet(Succs(blocks, b)) \subseteq S
      PROVE  Reachable(cut) \subseteq S
  <2>1. \A b \in S \intersect DOMAIN cut : ToSet(Successors(cut[b].term)) \subseteq S
    BY <1>4, <1>7
  <2> QED
    BY <1>3, <1>7, <2>1, ReachableLeast
<1>8. \A b \in Reachable(cut) \ {a} : ToSet(Succs(blocks, b)) \subseteq Reachable(cut)
  BY <1>4, <1>6
<1> QED
  BY <1>4, <1>5, <1>6, <1>7, <1>8

-----------------------------------------------------------------------------
(* A round. *)

\* For every block but bb0 one that leads to it and comes before it.
IsParent(blocks, rank, par) ==
  /\ par \in [DOMAIN blocks \ {START} -> DOMAIN blocks]
  /\ \A b \in DOMAIN blocks \ {START} :
       b \in ToSet(Succs(blocks, par[b])) /\ rank[par[b]] < rank[b]

\* The blocks before the i-th have a dominator, and one that has also has a
\* parent that has.
Ready(blocks, rank, par, idom, i) ==
  /\ \A b \in DOMAIN blocks : rank[b] < i => b \in Known(idom)
  /\ \A b \in Known(idom) \ {START} : par[b] \in Known(idom)

\* No dominator is passed over: from the dominator that a block has, it can be
\* reached without any other block.
Sound(blocks, idom) ==
  \A b \in Known(idom) \ {START}, a \in DOMAIN blocks \ {START} :
    a # b /\ a # idom[b] /\ idom[b] \in Avoiding(blocks, a) => b \in Avoiding(blocks, a)

\* What the predecessors have in common has never been lost.
Narrow(blocks, idom) ==
  \A b \in Known(idom) \ {START} : \A a :
    (\A q \in Leading(blocks, idom, b) : a \in Up(idom, q)) => a \in Up(idom, b)

\* What is on the way of a block is on the way of its parent; behind the i-th
\* block, where the dominators are of the round before, only what is behind it.
Follows(idom, rank, par, i) ==
  \A b \in Known(idom) \ {START} : \A a \in Up(idom, b) \ {b} :
    rank[b] < i \/ rank[a] >= i => a \in Up(idom, par[b])

\* When it is the i-th block's turn.
RoundInv(blocks, rank, par, idom, i) ==
  /\ IsTree(DOMAIN blocks, rank, idom)
  /\ Ready(blocks, rank, par, idom, i)
  /\ Sound(blocks, idom)
  /\ Narrow(blocks, idom)
  /\ Follows(idom, rank, par, i)

\* A way that does not lead through a above m, and begins where a does not matter,
\* ends so.
LEMMA DownTheWay ==
  ASSUME NEW blocks, IsGraph(blocks), NEW rank, IsRank(DOMAIN blocks, rank),
         NEW idom, IsTree(DOMAIN blocks, rank, idom), Sound(blocks, idom),
         NEW a \in DOMAIN blocks \ {START},
         NEW m \in Known(idom), m # a, m \in Avoiding(blocks, a),
         NEW q \in Known(idom), m \in Up(idom, q), a \notin Up(idom, q) \/ rank[a] < rank[m]
  PROVE  q \in Avoiding(blocks, a) /\ q # a
<1> DEFINE B == DOMAIN blocks
           K == Known(idom)
           P(x) == m \in Up(idom, x) /\ (a \notin Up(idom, x) \/ rank[a] < rank[m])
                     => x \in Avoiding(blocks, a) /\ x # a
           T == {x \in B : x \in K => P(x)}
<1>1. /\ K \subseteq B /\ START \in K
      /\ \A x \in B : rank[x] \in Nat
      /\ \A x \in K : idom[x] \in K
      /\ \A x \in K \ {START} : rank[idom[x]] < rank[x]
  BY TreeFacts
<1>2. ASSUME NEW x \in B, \A y \in B : rank[y] < rank[x] => y \in T
      PROVE  x \in T
  <2> SUFFICES ASSUME x \in K, m \in Up(idom, x), a \notin Up(idom, x) \/ rank[a] < rank[m]
               PROVE  x \in Avoiding(blocks, a) /\ x # a
    OBVIOUS
  <2>1. CASE x = m
    BY <2>1
  <2>2. CASE x # m
    <3>1. /\ Up(idom, x) = {x} \union Up(idom, idom[x])
          /\ x \in Up(idom, x)
          /\ x = START => Up(idom, x) = {START}
      BY UpOne
    <3>2. x # START /\ m \in Up(idom, idom[x])
      BY <2>2, <3>1
    <3>3. idom[x] \in K /\ idom[x] \in B /\ rank[idom[x]] < rank[x]
      BY <1>1, <3>2
    <3>4. idom[x] \in Avoiding(blocks, a) /\ idom[x] # a
      BY <1>2, <3>1, <3>2, <3>3
    <3>5. rank[m] < rank[x]
      BY <2>2, UpRanks
    <3>6. x # a
      <4>1. rank[m] \in Nat /\ rank[x] \in Nat
        BY <1>1
      <4> QED
        BY <3>1, <3>5, <4>1
    <3> QED
      BY <3>2, <3>4, <3>6 DEF Sound
  <2> QED
    BY <2>1, <2>2
<1>3. B \subseteq T
  <2>1. rank \in [B -> Nat]
    BY DEF IsRank
  <2> HIDE DEF T
  <2> QED
    BY <1>2, <2>1, RankInduction
<1> QED
  BY <1>1, <1>3

\* What the block c gets when it is its turn.
LEMMA MeetIsAbove ==
  ASSUME NEW blocks, IsGraph(blocks), NEW rank, IsRank(DOMAIN blocks, rank),
         NEW par, IsParent(blocks, rank, par), NEW c \in DOMAIN blocks \ {START},
         NEW idom, RoundInv(blocks, rank, par, idom, rank[c]),
         NEW m, m = MeetOf(blocks, c, idom, rank)
  PROVE  /\ m \in Known(idom) /\ m # NoBlock /\ rank[m] < rank[c]
         /\ StandsFor(idom, m, Leading(blocks, idom, c))
         /\ par[c] \in Leading(blocks, idom, c)
         /\ \A a : a \in Up(idom, m) <=> \A q \in Leading(blocks, idom, c) : a \in Up(idom, q)
         /\ c \in Known(idom) => m \in Up(idom, c)
<1> DEFINE K == Known(idom)
           D == Leading(blocks, idom, c)
<1>1. IsTree(DOMAIN blocks, rank, idom)
  BY DEF RoundInv
<1>2. /\ K \subseteq DOMAIN blocks /\ \A x \in DOMAIN blocks : rank[x] \in Nat
      /\ NoBlock \notin DOMAIN blocks
  BY <1>1, TreeFacts DEF IsRank
<1>3. StandsFor(idom, m, D)
  BY <1>1, MeetFound
<1>4. par[c] \in D /\ par[c] \in K /\ par[c] \in DOMAIN blocks /\ rank[par[c]] < rank[c]
  <2>1. par[c] \in DOMAIN blocks /\ rank[par[c]] < rank[c] /\ c \in ToSet(Succs(blocks, par[c]))
    BY DEF IsParent
  <2>2. par[c] \in K
    BY <2>1 DEF RoundInv, Ready
  <2> QED
    BY <2>1, <2>2 DEF Leading
<1>5. m \in K /\ \A a : a \in Up(idom, m) <=> \A q \in D : a \in Up(idom, q)
  BY <1>3, <1>4 DEF StandsFor
<1>6. m \in Up(idom, m)
  BY <1>1, <1>5, UpOne
<1>7. m \in Up(idom, par[c])
  BY <1>4, <1>5, <1>6
<1>8. m = par[c] \/ rank[m] < rank[par[c]]
  BY <1>1, <1>4, <1>7, UpRanks
<1>9. rank[m] < rank[c]
  BY <1>2, <1>4, <1>5, <1>8
<1>10. c \in K => m \in Up(idom, c)
  <2>1. \A q \in D : m \in Up(idom, q)
    BY <1>5, <1>6
  <2> QED
    BY <2>1 DEF RoundInv, Narrow
<1> QED
  BY <1>2, <1>3, <1>4, <1>5, <1>9, <1>10

\* After c has got it, it is the next block's turn.
LEMMA TurnKeeps ==
  ASSUME NEW blocks, IsGraph(blocks), NEW rank, IsRank(DOMAIN blocks, rank),
         NEW par, IsParent(blocks, rank, par), NEW c \in DOMAIN blocks \ {START},
         NEW idom, RoundInv(blocks, rank, par, idom, rank[c]),
         NEW m, m = MeetOf(blocks, c, idom, rank), NEW new, new = [idom EXCEPT ![c] = m]
  PROVE  /\ RoundInv(blocks, rank, par, new, rank[c] + 1)
         /\ Known(new) = Known(idom) \union {c}
         /\ c \in Known(idom) => rank[m] <= rank[idom[c]]
<1> DEFINE B == DOMAIN blocks
           K == Known(idom)
           D == Leading(blocks, idom, c)
           p == par[c]
<1>1. IsTree(B, rank, idom)
  BY DEF RoundInv
<1>2. /\ m \in K /\ m # NoBlock /\ rank[m] < rank[c]
      /\ p \in D
      /\ \A a : a \in Up(idom, m) <=> \A q \in D : a \in Up(idom, q)
      /\ c \in K => m \in Up(idom, c)
  BY MeetIsAbove
<1>4. /\ K \subseteq B /\ \A x \in B : rank[x] \in Nat
      /\ \A x, y \in B : rank[x] = rank[y] => x = y
      /\ NoBlock \notin B
  BY <1>1, TreeFacts DEF IsRank
<1>5. /\ new \in [B -> B \union {NoBlock}] /\ DOMAIN idom = B
      /\ new[c] = m /\ \A x \in B \ {c} : new[x] = idom[x]
  BY <1>1, <1>2, <1>4 DEF IsTree
<1>3. /\ IsTree(B, rank, new) /\ Known(new) = K \union {c}
      /\ Up(new, c) = {c} \union Up(idom, m)
      /\ \A x \in K : /\ Up(new, x) \subseteq Up(idom, x)
                      /\ \A y \in Up(idom, x) : rank[y] >= rank[c] => y \in Up(new, x)
                      /\ c \notin Up(idom, x) => Up(new, x) = Up(idom, x)
  <2>1. /\ m \in K /\ rank[m] < rank[c] /\ c \in B \ {START}
        /\ c \in K => m \in Up(idom, c)
        /\ IsRank(B, rank)
    BY <1>2
  <2> QED
    BY ONLY <1>1, <1>5, <2>1, Moved
<1>6. /\ \A b \in B \ {START} : par[b] \in B /\ rank[par[b]] < rank[b] /\ b \in ToSet(Succs(blocks, par[b]))
      /\ \A b \in K \ {START} : par[b] \in K
      /\ \A b \in B : rank[b] < rank[c] => b \in K
  BY DEF IsParent, RoundInv, Ready
<1>7. \A x \in K : \A y \in Up(idom, x) : y \in B /\ (y = x \/ rank[y] < rank[x])
  BY <1>1, UpRanks
<1>8. p \in K /\ rank[p] < rank[c]
  BY <1>2, <1>6 DEF Leading
<1>9. Ready(blocks, rank, par, new, rank[c] + 1)
  <2>1. ASSUME NEW b \in B, rank[b] < rank[c] + 1 PROVE b \in Known(new)
    <3>1. rank[b] < rank[c] \/ rank[b] = rank[c]
      BY <1>4, <2>1
    <3> QED
      BY <1>3, <1>4, <1>6, <3>1
  <2>2. \A b \in Known(new) \ {START} : par[b] \in Known(new)
    BY <1>3, <1>6, <1>8
  <2> QED
    BY <2>1, <2>2 DEF Ready
<1>10. Sound(blocks, new)
  <2> SUFFICES ASSUME NEW b \in Known(new) \ {START}, NEW a \in B \ {START},
                      a # b, a # new[b], new[b] \in Avoiding(blocks, a)
               PROVE  b \in Avoiding(blocks, a)
    BY DEF Sound
  <2>1. CASE b # c
    <3>1. b \in K \ {START} /\ new[b] = idom[b]
      BY <1>3, <1>4, <1>5, <2>1
    <3> QED
      BY <3>1 DEF RoundInv, Sound
  <2>2. CASE b = c
    <3>1. \E q \in D : a \notin Up(idom, q) \/ rank[a] < rank[m]
      <4>1. CASE a \in Up(idom, m)
        <5>1. rank[a] < rank[m]
          BY <1>2, <1>5, <1>7, <2>2, <4>1
        <5> QED
          BY <1>2, <5>1
      <4>2. CASE a \notin Up(idom, m)
        BY <1>2, <4>2
      <4> QED
        BY <4>1, <4>2
    <3>2. PICK q \in D : a \notin Up(idom, q) \/ rank[a] < rank[m]
      BY <3>1
    <3>3. q \in K /\ c \in ToSet(Succs(blocks, q))
      BY DEF Leading
    <3>4. m \in Up(idom, q) /\ m # a /\ m \in Avoiding(blocks, a)
      <4>1. m \in Up(idom, m)
        BY <1>1, <1>2, UpOne
      <4> QED
        BY <1>2, <1>5, <2>2, <4>1
    <3>5. Sound(blocks, idom)
      BY DEF RoundInv
    <3>6. q \in Avoiding(blocks, a) /\ q # a
      BY <1>1, <1>2, <3>2, <3>3, <3>4, <3>5, DownTheWay
    <3> QED
      BY <2>2, <3>3, <3>6, AvoidingIs
  <2> QED
    BY <2>1, <2>2
<1>11. Narrow(blocks, new)
  <2> SUFFICES ASSUME NEW b \in Known(new) \ {START}, NEW a,
                      \A q \in Leading(blocks, new, b) : a \in Up(new, q)
               PROVE  a \in Up(new, b)
    BY DEF Narrow
  <2>1. \A q \in Leading(blocks, idom, b) : q \in K /\ q \in Leading(blocks, new, b)
    BY <1>3 DEF Leading
  <2>2. \A q \in Leading(blocks, idom, b) : a \in Up(new, q) /\ a \in Up(idom, q)
    BY <1>3, <2>1
  <2>3. CASE b = c
    BY <1>2, <1>3, <2>2, <2>3
  <2>4. CASE b # c
    <3>1. b \in K \ {START}
      BY <1>3, <2>4
    <3>2. a \in Up(idom, b)
      BY <2>2, <3>1 DEF RoundInv, Narrow
    <3>3. CASE c \notin Up(idom, b)
      BY <1>3, <3>1, <3>2, <3>3
    <3>4. CASE c \in Up(idom, b)
      <4>1. par[b] \in K /\ par[b] \in Leading(blocks, idom, b)
        BY <1>4, <1>6, <3>1 DEF Leading
      <4>2. c \in Up(idom, par[b])
        <5>1. rank[c] >= rank[c]
          BY <1>4
        <5> QED
          BY <2>4, <3>1, <3>4, <5>1 DEF RoundInv, Follows
      <4>3. c \in Up(new, par[b]) /\ c \in Up(new, b)
        <5>1. rank[c] >= rank[c]
          BY <1>4
        <5> QED
          BY <1>3, <3>1, <3>4, <4>1, <4>2, <5>1
      <4>4. a \in B /\ rank[a] \in Nat /\ rank[c] \in Nat
        BY <1>4, <1>7, <3>1, <3>2
      <4>5. CASE rank[a] >= rank[c]
        BY <1>3, <3>1, <3>2, <4>5
      <4>6. CASE rank[a] <= rank[c]
        <5>1. a \in Up(new, par[b])
          BY <2>2, <4>1
        <5>2. par[b] \in Known(new) /\ b \in Known(new)
          BY <1>3, <3>1, <4>1
        <5>3. a \in Up(new, c)
          BY <1>3, <4>3, <4>6, <5>1, <5>2, UpLine
        <5>4. Up(new, c) \subseteq Up(new, b)
          BY <1>3, <4>3, <5>2, UpLine
        <5> QED
          BY <5>3, <5>4
      <4> QED
        BY <4>4, <4>5, <4>6
    <3> QED
      BY <3>3, <3>4
  <2> QED
    BY <2>3, <2>4
<1>12. Follows(new, rank, par, rank[c] + 1)
  <2> SUFFICES ASSUME NEW b \in Known(new) \ {START}, NEW a \in Up(new, b) \ {b},
                      rank[b] < rank[c] + 1 \/ rank[a] >= rank[c] + 1
               PROVE  a \in Up(new, par[b])
    BY DEF Follows
  <2>1. CASE b = c
    <3>1. a \in Up(idom, p)
      BY <1>2, <1>3, <2>1
    <3>2. c \notin Up(idom, p)
      BY <1>4, <1>7, <1>8
    <3> QED
      BY <1>3, <1>8, <2>1, <3>1, <3>2
  <2>2. CASE b # c
    <3>1. b \in K \ {START} /\ a \in Up(idom, b) \ {b} /\ a \in B
      BY <1>3, <1>7, <2>2
    <3>2. par[b] \in K /\ rank[par[b]] < rank[b]
      BY <1>4, <1>6, <3>1
    <3>3. rank[a] \in Nat /\ rank[b] \in Nat /\ rank[c] \in Nat /\ rank[par[b]] \in Nat /\ rank[b] # rank[c]
      BY <1>4, <2>2, <3>1, <3>2
    <3>4. rank[b] < rank[c] \/ rank[a] >= rank[c]
      BY <3>3
    <3>5. a \in Up(idom, par[b])
      BY <3>1, <3>4 DEF RoundInv, Follows
    <3>6. CASE rank[b] < rank[c]
      <4>1. rank[par[b]] < rank[c]
        BY <3>2, <3>3, <3>6
      <4>2. c \notin Up(idom, par[b])
        BY <1>4, <1>7, <3>2, <3>3, <4>1
      <4> QED
        BY <1>3, <3>2, <3>5, <4>2
    <3>7. CASE rank[a] >= rank[c]
      BY <1>3, <3>2, <3>5, <3>7
    <3> QED
      BY <3>4, <3>6, <3>7
  <2> QED
    BY <2>1, <2>2
<1>13. c \in K => rank[m] <= rank[idom[c]]
  <2> SUFFICES ASSUME c \in K PROVE rank[m] <= rank[idom[c]]
    OBVIOUS
  <2>1. idom[c] \in K /\ Up(idom, c) = {c} \union Up(idom, idom[c])
    BY <1>1, TreeFacts, UpOne
  <2>2. m # c
    BY <1>2, <1>4
  <2>3. m \in Up(idom, idom[c])
    BY <1>2, <2>1, <2>2
  <2>4. m = idom[c] \/ rank[m] < rank[idom[c]]
    BY <1>7, <2>1, <2>3
  <2>5. rank[m] \in Nat /\ rank[idom[c]] \in Nat
    BY <1>2, <1>4, <2>1
  <2> QED
    BY <2>4, <2>5
<1> QED
  BY <1>3, <1>9, <1>10, <1>11, <1>12, <1>13 DEF RoundInv

\* What a turn does to idom.
LEMMA UpdateKeeps ==
  ASSUME NEW blocks, IsGraph(blocks), NEW rank, IsRank(DOMAIN blocks, rank),
         NEW par, IsParent(blocks, rank, par), NEW c \in DOMAIN blocks \ {START},
         NEW idom, RoundInv(blocks, rank, par, idom, rank[c]),
         NEW new, new = Update(blocks, c, idom, rank)
  PROVE  /\ RoundInv(blocks, rank, par, new, rank[c] + 1)
         /\ StandsFor(idom, new[c], Leading(blocks, idom, c))
         /\ c \in Known(new)
         /\ c \in Known(idom) => rank[new[c]] <= rank[idom[c]]
         /\ \A x \in DOMAIN blocks \ {c} : new[x] = idom[x]
<1> DEFINE m == MeetOf(blocks, c, idom, rank)
<1>1. m # NoBlock /\ StandsFor(idom, m, Leading(blocks, idom, c))
  <2> HIDE DEF m
  <2> QED
    BY MeetIsAbove DEF m
<1>2. new = [idom EXCEPT ![c] = m]
  BY <1>1 DEF Update
<1>3. /\ RoundInv(blocks, rank, par, new, rank[c] + 1)
      /\ Known(new) = Known(idom) \union {c}
      /\ c \in Known(idom) => rank[m] <= rank[idom[c]]
  <2> HIDE DEF m
  <2> QED
    BY <1>2, TurnKeeps DEF m
<1>4. DOMAIN idom = DOMAIN blocks
  BY DEF RoundInv, IsTree
<1>5. new[c] = m /\ \A x \in DOMAIN blocks \ {c} : new[x] = idom[x]
  BY <1>2, <1>4
<1> QED
  BY <1>1, <1>3, <1>5

\* Ranks in an order.
LEMMA OrderIs ==
  ASSUME NEW blocks, IsGraph(blocks), NEW rpo, NEW rank, IsOrder(blocks, rpo, rank)
  PROVE  /\ IsRank(DOMAIN blocks, rank)
         /\ Len(rpo) \in Nat \ {0}
         /\ \E par : IsParent(blocks, rank, par)
<1> DEFINE B == DOMAIN blocks
           par == [b \in B \ {START} |->
                     CHOOSE q \in B : b \in ToSet(Succs(blocks, q)) /\ rank[q] < rank[b]]
<1>1. /\ START \in B /\ NoBlock \notin B
  BY GraphDomain DEF NoBlock
<1>2. /\ Len(rpo) \in Nat /\ rank \in [B -> 1 .. Len(rpo)]
      /\ \A b \in B : rpo[rank[b]] = b
      /\ rank[START] = 1
      /\ \A b \in B \ {START} : \E q \in B : b \in ToSet(Succs(blocks, q)) /\ rank[q] < rank[b]
  BY DEF IsOrder
<1>3. \A b \in B : rank[b] \in Nat /\ 1 <= rank[b] /\ rank[b] <= Len(rpo)
  BY <1>2
<1>4. \A a, b \in B : rank[a] = rank[b] => a = b
  BY <1>2
<1>5. \A b \in B \ {START} : rank[START] < rank[b]
  BY <1>1, <1>2, <1>3, <1>4
<1>6. IsParent(blocks, rank, par)
  BY <1>2 DEF IsParent
<1>7. rank \in [B -> Nat]
  BY <1>2, <1>3
<1> HIDE DEF par
<1> QED
  BY <1>1, <1>2, <1>3, <1>4, <1>5, <1>6, <1>7 DEF IsRank

\* What idom becomes, turn after turn.
AreTurns(blocks, rpo, rank, par, idom, after, N) ==
  /\ DominatorRound(blocks, rpo, idom, rank) = after[N]
  /\ after[0] = idom
  /\ \A j \in 1 .. N : after[j] = Update(blocks, rpo[j + 1], after[j - 1], rank)
  /\ \A j \in 0 .. N : RoundInv(blocks, rank, par, after[j], j + 2)

\* A round gives every block but bb0 its turn.
LEMMA RoundLevels ==
  ASSUME NEW blocks, IsGraph(blocks), NEW rpo, NEW rank, IsOrder(blocks, rpo, rank),
         NEW par, IsParent(blocks, rank, par),
         NEW idom, RoundInv(blocks, rank, par, idom, 2), NEW N, N = Len(rpo) - 1
  PROVE  \E after : AreTurns(blocks, rpo, rank, par, idom, after, N)
<1> DEFINE B == DOMAIN blocks
           V == {f \in [B -> B \union {NoBlock}] : IsTree(B, rank, f)}
           NextOf(j, f) == Update(blocks, rpo[j + 1], f, rank)
           G == [j \in 1 .. N |-> [f \in V |-> IF NextOf(j, f) \in V THEN NextOf(j, f) ELSE f]]
           AreLevels(g) == g = [j \in 0 .. N |-> IF j = 0 THEN idom ELSE NextOf(j, g[j - 1])]
           after == CHOOSE g : AreLevels(g)
           Inv(f, j) == RoundInv(blocks, rank, par, f, j + 2)
<1>1. N \in Nat /\ Len(rpo) = N + 1 /\ IsRank(B, rank)
  <2>1. Len(rpo) \in Nat \ {0} /\ IsRank(B, rank)
    BY OrderIs
  <2> QED
    BY <2>1
<1>2. \A f, j : Inv(f, j) => f \in V
  BY DEF RoundInv, IsTree
<1>3. Inv(idom, 0)
  <2>1. 0 + 2 = 2
    OBVIOUS
  <2> QED
    BY <2>1
<1>4. ASSUME NEW j \in 1 .. N, NEW f, Inv(f, j - 1) PROVE Inv(NextOf(j, f), j)
  <2>1. PICK c : c = rpo[j + 1]
    OBVIOUS
  <2>2. j + 1 \in 1 .. Len(rpo) /\ j + 1 # 1
    BY <1>1
  <2>3. c \in B \ {START} /\ rank[c] = j + 1
    BY <2>1, <2>2 DEF IsOrder
  <2>4. j - 1 + 2 = rank[c] /\ j + 2 = rank[c] + 1
    BY <1>1, <2>3
  <2>5. RoundInv(blocks, rank, par, f, rank[c])
    BY <1>4, <2>4
  <2>6. RoundInv(blocks, rank, par, Update(blocks, c, f, rank), rank[c] + 1)
    BY <1>1, <2>3, <2>5, UpdateKeeps
  <2> QED
    BY <2>1, <2>4, <2>6
<1> HIDE DEF Inv, NextOf, V
<1>5. PICK g \in [0 .. N -> V] : Iterates(g, N, idom, G)
  <2>1. idom \in V
    BY <1>2, <1>3
  <2>2. G \in [1 .. N -> [V -> V]]
    OBVIOUS
  <2> HIDE DEF G
  <2> QED
    BY <1>1, <2>1, <2>2, RecursionExists
<1>6. \A j \in 0 .. N : Inv(g[j], j)
  <2> DEFINE T == {j \in 0 .. N : Inv(g[j], j)}
  <2>1. 0 \in T
    BY <1>1, <1>3, <1>5 DEF Iterates
  <2>2. ASSUME NEW j \in 1 .. N, j - 1 \in T PROVE j \in T
    <3>1. Inv(g[j - 1], j - 1) /\ g[j - 1] \in V /\ j \in 0 .. N
      BY <1>1, <1>5, <2>2
    <3>2. Inv(NextOf(j, g[j - 1]), j) /\ NextOf(j, g[j - 1]) \in V
      BY <1>2, <1>4, <3>1
    <3>3. g[j] = NextOf(j, g[j - 1])
      BY <1>5, <3>1, <3>2 DEF Iterates
    <3> QED
      BY <3>1, <3>2, <3>3
  <2>3. 0 .. N \subseteq T
    <3> HIDE DEF T
    <3> QED
      BY <1>1, <2>1, <2>2, IntervalInduction
  <2> QED
    BY <2>3
<1>7. g[0] = idom /\ \A j \in 1 .. N : g[j] = NextOf(j, g[j - 1])
  <2>1. ASSUME NEW j \in 1 .. N PROVE g[j] = NextOf(j, g[j - 1])
    <3>0. j - 1 \in 0 .. N /\ j \in 0 .. N
      BY <1>1
    <3>1. Inv(g[j - 1], j - 1) /\ g[j - 1] \in V /\ j \in 0 .. N
      BY <1>6, <3>0
    <3>2. NextOf(j, g[j - 1]) \in V
      BY <1>2, <1>4, <3>1
    <3> QED
      BY <1>5, <3>1, <3>2 DEF Iterates
  <2> QED
    BY <1>5, <2>1 DEF Iterates
<1>8. AreLevels(g)
  <2>1. \A j \in 0 .. N : j = 0 \/ j \in 1 .. N
    BY <1>1
  <2> HIDE DEF G
  <2> QED
    BY <1>5, <1>7, <2>1
<1>9. AreLevels(after)
  <2> HIDE DEF AreLevels
  <2> QED
    BY <1>8
<1>10. after[0] = idom /\ \A j \in 1 .. N : after[j] = NextOf(j, after[j - 1])
  <2> HIDE DEF after
  <2> QED
    BY <1>1, <1>9
<1>11. \A j \in 0 .. N : Inv(after[j], j)
  <2> DEFINE T == {j \in 0 .. N : Inv(after[j], j)}
  <2>1. 0 \in T
    <3> HIDE DEF after
    <3> QED
      BY <1>1, <1>3, <1>10
  <2>2. ASSUME NEW j \in 1 .. N, j - 1 \in T PROVE j \in T
    <3>1. Inv(after[j - 1], j - 1) /\ j \in 0 .. N
      BY <1>1, <2>2
    <3> HIDE DEF after
    <3> QED
      BY <1>4, <1>10, <3>1
  <2>3. 0 .. N \subseteq T
    <3> HIDE DEF T
    <3> QED
      BY <1>1, <2>1, <2>2, IntervalInduction
  <2> QED
    BY <2>3
<1>12. DominatorRound(blocks, rpo, idom, rank) = after[N]
  BY DEF DominatorRound, NextOf
<1> HIDE DEF after
<1>13. AreTurns(blocks, rpo, rank, par, idom, after, N)
  BY <1>10, <1>11, <1>12 DEF Inv, NextOf, AreTurns
<1> QED
  BY <1>13

\* After it every block has a dominator, none of lower rank than before; and when
\* nothing has changed, everyone's dominator stands for its predecessors.
LEMMA RoundKeeps ==
  ASSUME NEW blocks, IsGraph(blocks), NEW rpo, NEW rank, IsOrder(blocks, rpo, rank),
         NEW par, IsParent(blocks, rank, par),
         NEW idom, RoundInv(blocks, rank, par, idom, 2),
         NEW new, new = DominatorRound(blocks, rpo, idom, rank)
  PROVE  /\ RoundInv(blocks, rank, par, new, 2)
         /\ Known(new) = DOMAIN blocks
         /\ \A b \in Known(idom) : rank[new[b]] <= rank[idom[b]]
         /\ new = idom => \A b \in DOMAIN blocks \ {START} :
                            StandsFor(idom, idom[b], Leading(blocks, idom, b))
<1> DEFINE B == DOMAIN blocks
           Inv(f, j) == RoundInv(blocks, rank, par, f, j + 2)
<1>1. PICK N \in Nat : N = Len(rpo) - 1
  <2>1. Len(rpo) \in Nat \ {0}
    BY OrderIs
  <2> QED
    BY <2>1
<1>2. PICK after :
        /\ new = after[N] /\ after[0] = idom
        /\ \A j \in 1 .. N : after[j] = Update(blocks, rpo[j + 1], after[j - 1], rank)
        /\ \A j \in 0 .. N : Inv(after[j], j)
  <2>1. PICK after : AreTurns(blocks, rpo, rank, par, idom, after, N)
    BY <1>1, RoundLevels
  <2> QED
    BY <2>1 DEF AreTurns
<1>3. /\ IsRank(B, rank) /\ Len(rpo) = N + 1
      /\ rank \in [B -> 1 .. N + 1] /\ rank[START] = 1 /\ START \in B
      /\ \A b \in B : rank[b] \in Nat /\ 1 <= rank[b] /\ rank[b] <= N + 1
      /\ \A a, b \in B : rank[a] = rank[b] => a = b
      /\ \A i \in 1 .. N + 1 : rpo[i] \in B /\ rank[rpo[i]] = i
  <2>1. IsRank(B, rank)
    BY OrderIs
  <2>2. Len(rpo) = N + 1 /\ rank[START] = 1
    BY <1>1 DEF IsOrder
  <2>3. rank \in [B -> 1 .. N + 1] /\ \A i \in 1 .. N + 1 : rpo[i] \in B /\ rank[rpo[i]] = i
    BY <2>2 DEF IsOrder
  <2> QED
    BY <2>1, <2>2, <2>3 DEF IsRank
<1>4. \A j \in 0 .. N : /\ IsTree(B, rank, after[j]) /\ DOMAIN after[j] = B
                        /\ after[j] \in [B -> B \union {NoBlock}]
                        /\ after[j][START] = START
  BY <1>2 DEF RoundInv, IsTree
<1> HIDE DEF Inv
<1>5. ASSUME NEW j \in 1 .. N
      PROVE  \E c \in B \ {START} :
               /\ rank[c] = j + 1 /\ c = rpo[j + 1]
               /\ StandsFor(after[j - 1], after[j][c], Leading(blocks, after[j - 1], c))
               /\ c \in Known(after[j])
               /\ c \in Known(after[j - 1]) => rank[after[j][c]] <= rank[after[j - 1][c]]
               /\ \A x \in B \ {c} : after[j][x] = after[j - 1][x]
  <2>1. PICK c, f, h : c = rpo[j + 1] /\ f = after[j - 1] /\ h = after[j]
    OBVIOUS
  <2>2. j + 1 \in 1 .. N + 1 /\ j + 1 # 1 /\ j - 1 \in 0 .. N /\ j - 1 + 2 = j + 1
    BY <1>1
  <2>3. c \in B \ {START} /\ rank[c] = j + 1
    BY <1>3, <2>1, <2>2
  <2>4. RoundInv(blocks, rank, par, f, rank[c])
    BY <1>2, <2>1, <2>2, <2>3 DEF Inv
  <2>5. h = Update(blocks, c, f, rank)
    BY <1>2, <2>1
  <2>6. /\ StandsFor(f, h[c], Leading(blocks, f, c))
        /\ c \in Known(h)
        /\ c \in Known(f) => rank[h[c]] <= rank[f[c]]
        /\ \A x \in B \ {c} : h[x] = f[x]
    BY <1>3, <2>3, <2>4, <2>5, UpdateKeeps
  <2> QED
    BY <2>1, <2>3, <2>6
<1> DEFINE Lower(j) == /\ \A b \in Known(idom) : b \in Known(after[j]) /\ rank[after[j][b]] <= rank[idom[b]]
                       /\ \A b \in B : rank[b] > j + 1 => after[j][b] = idom[b]
           T == {j \in 0 .. N : Lower(j)}
<1>6. /\ Known(idom) \subseteq B
      /\ \A b \in Known(idom) : rank[idom[b]] \in Nat
  <2>1. IsTree(B, rank, idom)
    BY DEF RoundInv
  <2>2. Known(idom) \subseteq B /\ \A b \in Known(idom) : idom[b] \in Known(idom)
    BY <1>3, <2>1, TreeFacts
  <2> QED
    BY <1>3, <2>2
<1>7. 0 \in T
  <2>1. after[0] = idom /\ 0 \in 0 .. N /\ \A b \in Known(idom) : rank[idom[b]] <= rank[idom[b]]
    BY <1>1, <1>2, <1>6
  <2> QED
    BY <2>1
<1>8. ASSUME NEW j \in 1 .. N, j - 1 \in T PROVE j \in T
  <2>1. PICK c \in B \ {START} :
               /\ rank[c] = j + 1
               /\ c \in Known(after[j])
               /\ c \in Known(after[j - 1]) => rank[after[j][c]] <= rank[after[j - 1][c]]
               /\ \A x \in B \ {c} : after[j][x] = after[j - 1][x]
    BY <1>5
  <2>2. j \in 0 .. N /\ j - 1 \in 0 .. N /\ j - 1 + 1 = j
    BY <1>1
  <2>3. DOMAIN after[j] = B /\ DOMAIN after[j - 1] = B
    BY <1>4, <2>2
  <2>4. Lower(j - 1)
    BY <1>8
  <2>5. after[j - 1][c] = idom[c]
    BY <2>1, <2>2, <2>4
  <2>6. ASSUME NEW b \in Known(idom)
        PROVE  b \in Known(after[j]) /\ rank[after[j][b]] <= rank[idom[b]]
    <3>1. b \in B /\ b \in Known(after[j - 1]) /\ rank[after[j - 1][b]] <= rank[idom[b]]
      BY <1>6, <2>4
    <3>2. CASE b = c
      BY <2>1, <2>5, <3>1, <3>2
    <3>3. CASE b # c
      <4>1. after[j][b] = after[j - 1][b]
        BY <2>1, <3>1, <3>3
      <4>2. b \in Known(after[j])
        BY <2>3, <3>1, <4>1 DEF Known
      <4> QED
        BY <3>1, <4>1, <4>2
    <3> QED
      BY <3>2, <3>3
  <2>7. ASSUME NEW b \in B, rank[b] > j + 1 PROVE after[j][b] = idom[b]
    <3>1. b # c /\ rank[b] > j - 1 + 1
      BY <1>1, <1>3, <2>1, <2>2, <2>7
    <3> QED
      BY <2>1, <2>4, <3>1
  <2> QED
    BY <2>2, <2>6, <2>7
<1>9. Lower(N)
  <2>1. 0 .. N \subseteq T
    <3> HIDE DEF T
    <3> QED
      BY <1>7, <1>8, IntervalInduction
  <2>2. N \in 0 .. N
    BY <1>1
  <2> QED
    BY <2>1, <2>2
<1>10. RoundInv(blocks, rank, par, new, 2) /\ Known(new) = B
  <2>1. N \in 0 .. N /\ 2 \in Nat /\ \A b \in B : rank[b] < N + 2
    BY <1>1, <1>3
  <2>2. RoundInv(blocks, rank, par, new, N + 2)
    BY <1>2, <2>1 DEF Inv
  <2>3. Known(new) = B
    <3>1. B \subseteq Known(new)
      BY <2>1, <2>2 DEF RoundInv, Ready
    <3>2. Known(new) \subseteq B
      BY <1>2, <1>4, <2>1 DEF Known
    <3> QED
      BY <3>1, <3>2
  <2>4. Ready(blocks, rank, par, new, 2)
    BY <2>2, <2>3 DEF RoundInv, Ready
  <2>5. Follows(new, rank, par, 2)
    BY <2>1, <2>2, <2>3 DEF RoundInv, Follows
  <2> QED
    BY <2>2, <2>3, <2>4, <2>5 DEF RoundInv
<1> DEFINE Kept(j) == \A k \in 0 .. j, b \in B : rank[b] <= k + 1 => after[j][b] = after[k][b]
           R == {j \in 0 .. N : Kept(j)}
<1>11. 0 \in R
  BY <1>1
<1>12. ASSUME NEW j \in 1 .. N, j - 1 \in R PROVE j \in R
  <2> SUFFICES ASSUME NEW k \in 0 .. j, NEW b \in B, rank[b] <= k + 1
               PROVE  after[j][b] = after[k][b]
    BY <1>1
  <2>1. PICK c \in B \ {START} :
          rank[c] = j + 1 /\ \A x \in B \ {c} : after[j][x] = after[j - 1][x]
    BY <1>5
  <2>2. CASE k = j
    BY <2>2
  <2>3. CASE k # j
    <3>1. k \in 0 .. j - 1 /\ rank[b] < j + 1
      BY <1>1, <1>3, <2>3
    <3>2. after[j - 1][b] = after[k][b]
      BY <1>12, <3>1
    <3>3. b # c
      BY <1>3, <2>1, <3>1
    <3> QED
      BY <2>1, <3>2, <3>3
  <2> QED
    BY <2>2, <2>3
<1>13. Kept(N)
  <2>1. 0 .. N \subseteq R
    <3> HIDE DEF R
    <3> QED
      BY <1>11, <1>12, IntervalInduction
  <2>2. N \in 0 .. N
    BY <1>1
  <2> QED
    BY <2>1, <2>2
<1>14. ASSUME new = idom, NEW b \in B \ {START}
       PROVE  StandsFor(idom, idom[b], Leading(blocks, idom, b))
  <2>1. ASSUME NEW j \in 0 .. N PROVE after[j] = idom
    <3>1. after[j] \in [B -> B \union {NoBlock}] /\ idom \in [B -> B \union {NoBlock}]
      BY <1>1, <1>2, <1>4
    <3>2. ASSUME NEW x \in B PROVE after[j][x] = idom[x]
      <4>1. CASE rank[x] <= j + 1
        <5>1. after[N][x] = after[j][x]
          BY <1>13, <4>1
        <5> QED
          BY <1>2, <1>14, <5>1
      <4>2. CASE ~(rank[x] <= j + 1)
        <5>1. j \in T
          <6>1. 0 .. N \subseteq T
            <7> HIDE DEF T
            <7> QED
              BY <1>7, <1>8, IntervalInduction
          <6> QED
            BY <6>1
        <5>2. rank[x] > j + 1
          BY <1>3, <4>2
        <5> QED
          BY <5>1, <5>2
      <4> QED
        BY <4>1, <4>2
    <3> QED
      BY <3>1, <3>2
  <2>2. PICK j \in 1 .. N : rank[b] = j + 1
    <3>1. rank[b] \in Nat /\ 1 <= rank[b] /\ rank[b] <= N + 1 /\ rank[b] # 1
      BY <1>3
    <3>2. rank[b] - 1 \in 1 .. N /\ rank[b] = rank[b] - 1 + 1
      BY <1>1, <3>1
    <3> QED
      BY <3>2
  <2>3. PICK c \in B : /\ rank[c] = j + 1
                       /\ StandsFor(after[j - 1], after[j][c], Leading(blocks, after[j - 1], c))
    BY <1>5
  <2>4. c = b
    BY <1>3, <2>2, <2>3
  <2>5. j \in 0 .. N /\ j - 1 \in 0 .. N
    BY <1>1
  <2>6. after[j] = idom /\ after[j - 1] = idom
    BY <2>1, <2>5
  <2> QED
    BY <2>3, <2>4, <2>6
<1> QED
  BY <1>2, <1>9, <1>10, <1>14

-----------------------------------------------------------------------------
(* Round after round. *)

FirstOf(blocks) == [b \in DOMAIN blocks |-> IF b = START THEN START ELSE NoBlock]

\* Only bb0 has a dominator at first, itself.
LEMMA FirstRound ==
  ASSUME NEW blocks, IsGraph(blocks), NEW rpo, NEW rank, IsOrder(blocks, rpo, rank),
         NEW par, NEW idom, idom = FirstOf(blocks)
  PROVE  RoundInv(blocks, rank, par, idom, 2)
<1> DEFINE B == DOMAIN blocks
<1>1. /\ IsRank(B, rank) /\ rank[START] = 1
      /\ START \in B /\ NoBlock \notin B /\ NoBlock # START
      /\ \A b \in B : rank[b] \in Nat
      /\ \A b \in B \ {START} : rank[START] < rank[b]
  <2>1. IsRank(B, rank) /\ rank[START] = 1
    BY OrderIs DEF IsOrder
  <2> QED
    BY <2>1 DEF IsRank
<1>2. /\ idom \in [B -> B \union {NoBlock}] /\ idom[START] = START
      /\ \A b \in B \ {START} : idom[b] = NoBlock
  BY <1>1 DEF FirstOf
<1>3. Known(idom) = {START}
  BY <1>1, <1>2 DEF Known
<1>4. IsTree(B, rank, idom)
  BY <1>1, <1>2 DEF IsTree
<1>5. \A b \in B : rank[b] < 2 => b = START
  BY <1>1
<1> QED
  BY <1>3, <1>4, <1>5 DEF RoundInv, Ready, Sound, Narrow, Follows

\* The rounds that DominatorRounds makes.
LEMMA RoundsLevels ==
  ASSUME NEW blocks, IsGraph(blocks), NEW rpo, NEW rank, IsOrder(blocks, rpo, rank),
         NEW par, IsParent(blocks, rank, par), NEW most \in Nat, most = Len(blocks) * Len(rpo)
  PROVE  \E after :
           /\ DominatorRounds(blocks, rpo, rank) =
                after[CHOOSE n \in 0 .. most : after[n + 1] = after[n]]
           /\ \A n \in 1 .. most + 1 : after[n] = DominatorRound(blocks, rpo, after[n - 1], rank)
           /\ \A n \in 0 .. most + 1 : RoundInv(blocks, rank, par, after[n], 2)
<1> DEFINE B == DOMAIN blocks
           N == most + 1
           first == FirstOf(blocks)
           V == {f \in [B -> B \union {NoBlock}] : RoundInv(blocks, rank, par, f, 2)}
           NextOf(f) == DominatorRound(blocks, rpo, f, rank)
           G == [n \in 1 .. N |-> [f \in V |-> NextOf(f)]]
           AreLevels(g) == g = [n \in 0 .. N |-> IF n = 0 THEN first ELSE NextOf(g[n - 1])]
           after == CHOOSE g : AreLevels(g)
<1>1. N \in Nat
  OBVIOUS
<1>2. \A f : RoundInv(blocks, rank, par, f, 2) => f \in V
  BY DEF RoundInv, IsTree
<1>3. first \in V
  <2>1. PICK f : f = first
    OBVIOUS
  <2>2. RoundInv(blocks, rank, par, f, 2)
    BY <2>1, FirstRound
  <2> HIDE DEF first, V
  <2> QED
    BY <1>2, <2>1, <2>2
<1>4. \A f \in V : NextOf(f) \in V
  <2> SUFFICES ASSUME NEW f \in V PROVE NextOf(f) \in V
    OBVIOUS
  <2>1. PICK h : h = NextOf(f)
    OBVIOUS
  <2>2. RoundInv(blocks, rank, par, h, 2)
    BY <2>1, RoundKeeps
  <2> HIDE DEF V, NextOf
  <2> QED
    BY <1>2, <2>1, <2>2
<1>5. \A f \in V : RoundInv(blocks, rank, par, f, 2)
  OBVIOUS
<1> HIDE DEF V, NextOf, first
<1>6. PICK g \in [0 .. N -> V] : Iterates(g, N, first, G)
  <2>1. G \in [1 .. N -> [V -> V]]
    BY <1>4
  <2> HIDE DEF G, N
  <2> QED
    BY <1>1, <1>3, <2>1, RecursionExists
<1>7. AreLevels(g)
  <2>1. g[0] = first /\ \A n \in 1 .. N : g[n] = NextOf(g[n - 1])
    <3>1. \A n \in 1 .. N : g[n - 1] \in V
      BY <1>1, <1>6
    <3> QED
      BY <1>6, <3>1 DEF Iterates
  <2>2. \A n \in 0 .. N : n = 0 \/ n \in 1 .. N
    BY <1>1
  <2> HIDE DEF G, N
  <2> QED
    BY <1>6, <2>1, <2>2
<1>8. AreLevels(after)
  <2> HIDE DEF AreLevels
  <2> QED
    BY <1>7
<1>9. after[0] = first /\ \A n \in 1 .. N : after[n] = NextOf(after[n - 1])
  <2> HIDE DEF after
  <2> QED
    BY <1>1, <1>8
<1>10. \A n \in 0 .. N : after[n] \in V
  <2> DEFINE T == {n \in 0 .. N : after[n] \in V}
  <2>1. 0 \in T /\ \A n \in 1 .. N : n - 1 \in T => n \in T
    <3> HIDE DEF after
    <3> QED
      BY <1>1, <1>3, <1>4, <1>9
  <2>2. 0 .. N \subseteq T
    <3> HIDE DEF T, N
    <3> QED
      BY <1>1, <2>1, IntervalInduction
  <2> QED
    BY <2>2
<1>11. DominatorRounds(blocks, rpo, rank) = after[CHOOSE n \in 0 .. most : after[n + 1] = after[n]]
  BY DEF DominatorRounds, NextOf, first, FirstOf
<1> HIDE DEF after
<1> QED
  BY <1>5, <1>9, <1>10, <1>11 DEF NextOf

\* How far the dominators have come: b, with every rank from its dominator's on.
HowFar(blocks, rpo, rank, idom) ==
  {t \in (DOMAIN blocks) \X (1 .. Len(rpo)) :
     t[1] \in Known(idom) /\ rank[idom[t[1]]] <= t[2]}

\* A round that changes something brings one of them further.
LEMMA RoundGains ==
  ASSUME NEW blocks, IsGraph(blocks), NEW rpo, NEW rank, IsOrder(blocks, rpo, rank),
         NEW par, IsParent(blocks, rank, par), NEW idom, RoundInv(blocks, rank, par, idom, 2),
         NEW new, new = DominatorRound(blocks, rpo, idom, rank), new # idom
  PROVE  \E x : /\ x \notin HowFar(blocks, rpo, rank, idom)
                /\ HowFar(blocks, rpo, rank, idom) \union {x} \subseteq HowFar(blocks, rpo, rank, new)
<1> DEFINE B == DOMAIN blocks
           L == Len(rpo)
<1>1. /\ IsRank(B, rank) /\ rank \in [B -> 1 .. L] /\ L \in Nat
      /\ \A b \in B : rank[b] \in Nat
      /\ \A a, b \in B : rank[a] = rank[b] => a = b
  <2>1. IsRank(B, rank) /\ rank \in [B -> 1 .. L] /\ L \in Nat
    BY OrderIs DEF IsOrder
  <2> QED
    BY <2>1 DEF IsRank
<1>2. /\ RoundInv(blocks, rank, par, new, 2) /\ Known(new) = B
      /\ \A b \in Known(idom) : rank[new[b]] <= rank[idom[b]]
  BY RoundKeeps
<1>3. IsTree(B, rank, idom) /\ IsTree(B, rank, new)
  BY <1>2 DEF RoundInv
<1>4. /\ idom \in [B -> B \union {NoBlock}] /\ new \in [B -> B \union {NoBlock}]
      /\ \A b \in B : new[b] \in B
      /\ Known(idom) \subseteq B /\ \A b \in Known(idom) : idom[b] \in B
  <2>1. \A b \in B : new[b] \in Known(new)
    BY <1>1, <1>2, <1>3, TreeFacts
  <2>2. Known(idom) \subseteq B /\ \A b \in Known(idom) : idom[b] \in Known(idom)
    BY <1>1, <1>3, TreeFacts
  <2> QED
    BY <1>2, <1>3, <2>1, <2>2 DEF IsTree
<1>5. PICK b \in B : new[b] # idom[b]
  BY <1>4
<1> DEFINE x == <<b, rank[new[b]]>>
<1>6. x \in B \X (1 .. L) /\ x[1] = b /\ x[2] = rank[new[b]]
  BY <1>1, <1>4
<1>7. x \in HowFar(blocks, rpo, rank, new)
  <2>1. rank[new[b]] <= rank[new[b]]
    BY <1>1, <1>4
  <2> HIDE DEF x
  <2> QED
    BY <1>2, <1>6, <2>1 DEF HowFar
<1>8. x \notin HowFar(blocks, rpo, rank, idom)
  <2> SUFFICES ASSUME b \in Known(idom), rank[idom[b]] <= rank[new[b]] PROVE FALSE
    BY <1>6 DEF HowFar
  <2>1. rank[idom[b]] \in Nat /\ rank[new[b]] \in Nat /\ idom[b] \in B /\ new[b] \in B
    BY <1>1, <1>4
  <2>2. rank[idom[b]] = rank[new[b]]
    BY <1>2, <2>1
  <2> QED
    BY <1>1, <1>5, <2>1, <2>2
<1>9. HowFar(blocks, rpo, rank, idom) \subseteq HowFar(blocks, rpo, rank, new)
  <2> SUFFICES ASSUME NEW t \in B \X (1 .. L), t[1] \in Known(idom), rank[idom[t[1]]] <= t[2]
               PROVE  t[1] \in Known(new) /\ rank[new[t[1]]] <= t[2]
    BY DEF HowFar
  <2>1. t[1] \in B /\ t[2] \in Nat
    BY <1>1
  <2>2. rank[idom[t[1]]] \in Nat /\ rank[new[t[1]]] \in Nat /\ rank[new[t[1]]] <= rank[idom[t[1]]]
    BY <1>1, <1>2, <1>4, <2>1
  <2> QED
    BY <1>2, <2>1, <2>2
<1> HIDE DEF x
<1> QED
  BY <1>7, <1>8, <1>9

\* So one of the rounds changes nothing, and there the rounds end.
LEMMA RoundsEnd ==
  ASSUME NEW blocks, IsGraph(blocks), NEW rpo, NEW rank, IsOrder(blocks, rpo, rank),
         NEW par, IsParent(blocks, rank, par),
         NEW idom, idom = DominatorRounds(blocks, rpo, rank)
  PROVE  /\ RoundInv(blocks, rank, par, idom, 2)
         /\ Known(idom) = DOMAIN blocks
         /\ \A b \in DOMAIN blocks \ {START} : StandsFor(idom, idom[b], Leading(blocks, idom, b))
<1> DEFINE B == DOMAIN blocks
           all == B \X (1 .. Len(rpo))
           At(f) == HowFar(blocks, rpo, rank, f)
<1>1. Len(blocks) \in Nat /\ Len(rpo) \in Nat /\ B = 1 .. Len(blocks)
  BY GraphDomain DEF IsOrder
<1>2. PICK most \in Nat : most = Len(blocks) * Len(rpo)
  BY <1>1
<1>3. PICK after :
        /\ idom = after[CHOOSE n \in 0 .. most : after[n + 1] = after[n]]
        /\ \A n \in 1 .. most + 1 : after[n] = DominatorRound(blocks, rpo, after[n - 1], rank)
        /\ \A n \in 0 .. most + 1 : RoundInv(blocks, rank, par, after[n], 2)
  BY <1>2, RoundsLevels
<1>4. IsFiniteSet(all) /\ Cardinality(all) = most
  <2>1. \A m \in Nat : IsFiniteSet(1 .. m) /\ Cardinality(1 .. m) = m
    <3>1. 1 \in Int /\ \A m \in Nat : m \in Int /\ m - 1 + 1 = m /\ (1 > m => m = 0)
      OBVIOUS
    <3> QED
      BY <3>1, FS_Interval
  <2>2. /\ IsFiniteSet(B) /\ Cardinality(B) = Len(blocks)
        /\ IsFiniteSet(1 .. Len(rpo)) /\ Cardinality(1 .. Len(rpo)) = Len(rpo)
    BY <1>1, <2>1
  <2>3. IsFiniteSet(all) /\ Cardinality(all) = Cardinality(B) * Cardinality(1 .. Len(rpo))
    <3> HIDE DEF B
    <3> QED
      BY <2>2, FS_Product
  <2> QED
    BY <1>2, <2>2, <2>3
<1>5. \A D \in SUBSET all : IsFiniteSet(D) /\ Cardinality(D) \in Nat /\ Cardinality(D) <= most
  <2> HIDE DEF all
  <2> QED
    BY <1>2, <1>4, FS_Subset, FS_CardinalityType
<1>6. \A f : At(f) \in SUBSET all
  BY DEF HowFar
<1> DEFINE Rests(n) == \E k \in 0 .. most : k < n /\ after[k + 1] = after[k]
           T == {n \in 0 .. most + 1 : Rests(n) \/ Cardinality(At(after[n])) >= n}
<1> HIDE DEF all, At
<1>7. 0 \in T
  <2>1. Cardinality(At(after[0])) \in Nat
    BY <1>5, <1>6
  <2> QED
    BY <1>2, <2>1
<1>8. ASSUME NEW n \in 1 .. most + 1, n - 1 \in T PROVE n \in T
  <2>1. PICK f, h : f = after[n - 1] /\ h = after[n]
    OBVIOUS
  <2>2. /\ n \in 0 .. most + 1 /\ n - 1 \in 0 .. most + 1 /\ n - 1 \in 0 .. most
        /\ n - 1 < n /\ n - 1 + 1 = n
    BY <1>2
  <2>3. RoundInv(blocks, rank, par, f, 2) /\ h = DominatorRound(blocks, rpo, f, rank)
    BY <1>3, <2>1, <2>2
  <2>4. CASE Rests(n - 1)
    <3>1. Rests(n)
      BY <2>2, <2>4
    <3> HIDE DEF Rests
    <3> QED
      BY <2>2, <3>1
  <2>5. CASE h = f
    <3>1. Rests(n)
      BY <2>1, <2>2, <2>5
    <3> HIDE DEF Rests
    <3> QED
      BY <2>2, <3>1
  <2>6. CASE ~Rests(n - 1) /\ h # f
    <3>1. Cardinality(At(f)) >= n - 1
      <4> HIDE DEF Rests
      <4> QED
        BY <1>8, <2>1, <2>6
    <3>2. PICK x : x \notin At(f) /\ At(f) \union {x} \subseteq At(h)
      BY <2>3, <2>6, RoundGains DEF At
    <3>3. /\ At(f) \in SUBSET all /\ At(h) \in SUBSET all /\ IsFiniteSet(At(f)) /\ IsFiniteSet(At(h))
          /\ Cardinality(At(f)) \in Nat /\ Cardinality(At(h)) \in Nat
      BY <1>5, <1>6
    <3>4. Cardinality(At(f) \union {x}) = Cardinality(At(f)) + 1
      BY <3>2, <3>3, FS_AddElement
    <3>5. Cardinality(At(f) \union {x}) <= Cardinality(At(h))
      BY <3>2, <3>3, FS_Subset
    <3>6. Cardinality(At(h)) >= n
      BY <3>1, <3>3, <3>4, <3>5
    <3> HIDE DEF Rests
    <3> QED
      BY <2>1, <2>2, <3>6
  <2> QED
    BY <2>4, <2>5, <2>6
<1>9. most + 1 \in T
  <2>1. most + 1 \in Nat /\ most + 1 \in 0 .. most + 1
    BY <1>2
  <2>2. 0 .. most + 1 \subseteq T
    <3> HIDE DEF T
    <3> QED
      BY <1>7, <1>8, <2>1, IntervalInduction
  <2> QED
    BY <2>1, <2>2
<1>10. Rests(most + 1)
  <2>1. Cardinality(At(after[most + 1])) \in Nat /\ Cardinality(At(after[most + 1])) <= most
    BY <1>5, <1>6
  <2>2. ~(Cardinality(At(after[most + 1])) >= most + 1)
    BY <1>2, <2>1
  <2> HIDE DEF Rests
  <2> QED
    BY <1>9, <2>2
<1>11. PICK n \in 0 .. most : after[n + 1] = after[n] /\ idom = after[n]
  <2>1. \E k \in 0 .. most : after[k + 1] = after[k]
    BY <1>10
  <2> QED
    BY <1>3, <2>1
<1>12. RoundInv(blocks, rank, par, idom, 2) /\ idom = DominatorRound(blocks, rpo, idom, rank)
  <2>1. n + 1 \in 1 .. most + 1 /\ n \in 0 .. most + 1 /\ n + 1 - 1 = n
    BY <1>2
  <2> QED
    BY <1>3, <1>11, <2>1
<1> QED
  BY <1>12, RoundKeeps

-----------------------------------------------------------------------------
(* Dominators. *)

\* What ImmediateDominators finds before bb0's own is taken away: on the way of a
\* block are the block and its dominators, and no other.
LEMMA WaysAreDominators ==
  ASSUME NEW blocks, IsGraph(blocks), Reachable(blocks) = DOMAIN blocks,
         NEW rpo, rpo = ReversePostorder(blocks), NEW rank, rank = RankIn(blocks, rpo),
         NEW idom, idom = DominatorRounds(blocks, rpo, rank)
  PROVE  /\ IsRank(DOMAIN blocks, rank) /\ IsTree(DOMAIN blocks, rank, idom)
         /\ Known(idom) = DOMAIN blocks
         /\ \A b \in DOMAIN blocks : Up(idom, b) = StrictDominators(blocks, b) \union {b}
<1> DEFINE B == DOMAIN blocks
<1>1. IsOrder(blocks, rpo, rank)
  BY OrderFound
<1>2. PICK par : IsParent(blocks, rank, par)
  BY <1>1, OrderIs
<1>3. /\ RoundInv(blocks, rank, par, idom, 2) /\ Known(idom) = B
      /\ \A b \in B \ {START} : StandsFor(idom, idom[b], Leading(blocks, idom, b))
  BY <1>1, <1>2, RoundsEnd
<1>4. /\ IsRank(B, rank) /\ IsTree(B, rank, idom) /\ Sound(blocks, idom)
      /\ START \in B /\ \A x \in B : idom[x] \in B
  <2>1. IsRank(B, rank) /\ IsTree(B, rank, idom) /\ Sound(blocks, idom)
    BY <1>1, <1>3, OrderIs DEF RoundInv
  <2> QED
    BY <1>3, <2>1, TreeFacts
<1>5. /\ \A b \in B : Up(idom, b) \subseteq B /\ b \in Up(idom, b) /\ START \in Up(idom, b)
      /\ \A b \in B : Up(idom, b) = {b} \union Up(idom, idom[b])
      /\ Up(idom, START) = {START}
  BY <1>3, <1>4, UpOne, UpRanks
<1>6. ASSUME NEW a \in B \ {START}, NEW b \in B \ {a}, a \notin Up(idom, b)
      PROVE  b \in Avoiding(blocks, a)
  <2>1. START \in Avoiding(blocks, a) /\ START # a /\ START \in Up(idom, b)
    BY <1>5, AvoidingIs
  <2>2. START \in Known(idom) /\ b \in Known(idom)
    BY <1>3, <1>4
  <2> QED
    BY <1>4, <1>6, <2>1, <2>2, DownTheWay
<1>7. ASSUME NEW a \in B \ {START}, NEW b \in B \ {a}, b \in Avoiding(blocks, a)
      PROVE  a \notin Up(idom, b)
  <2> DEFINE S == {x \in B : x = a \/ a \notin Up(idom, x)}
  <2>1. START \in S
    BY <1>4, <1>5
  <2>2. ASSUME NEW u \in (S \intersect B) \ {a} PROVE ToSet(Succs(blocks, u)) \subseteq S
    <3> SUFFICES ASSUME NEW v \in ToSet(Succs(blocks, u)), v # a, a \in Up(idom, v)
                 PROVE  FALSE
      <4>1. PICK succs : succs = Succs(blocks, u)
        OBVIOUS
      <4>2. succs = Successors(blocks[u].term) /\ u \in DOMAIN blocks
        BY <4>1 DEF Succs
      <4>3. ToSet(succs) \subseteq B
        BY <4>2, SuccessorsOf
      <4> QED
        BY <4>1, <4>3
    <3>1. v \in B /\ v # START
      <4>1. PICK succs : succs = Succs(blocks, u)
        OBVIOUS
      <4>2. succs = Successors(blocks[u].term) /\ u \in DOMAIN blocks
        BY <4>1 DEF Succs
      <4>3. ToSet(succs) \subseteq B /\ START \notin ToSet(succs)
        BY <4>2, SuccessorsOf
      <4> QED
        BY <4>1, <4>3
    <3>2. u \in Leading(blocks, idom, v)
      BY <1>3 DEF Leading
    <3>3. a \in Up(idom, idom[v])
      BY <1>5, <3>1
    <3>4. a \in Up(idom, u)
      BY <1>3, <3>1, <3>2, <3>3 DEF StandsFor
    <3> QED
      BY <3>4
  <2>3. Avoiding(blocks, a) \subseteq S
    <3> HIDE DEF S
    <3> QED
      BY <2>1, <2>2, AvoidingIs
  <2> QED
    BY <1>7, <2>3
<1>8. ASSUME NEW b \in B PROVE Up(idom, b) = StrictDominators(blocks, b) \union {b}
  <2>1. \A a \in B \ {b} : a \in Up(idom, b) <=> a = START \/ b \notin Avoiding(blocks, a)
    BY <1>5, <1>6, <1>7
  <2>2. \A a \in B \ {b} : a \in Up(idom, b) <=> a \in StrictDominators(blocks, b)
    BY <2>1 DEF StrictDominators
  <2>3. StrictDominators(blocks, b) \subseteq B \ {b}
    BY DEF StrictDominators
  <2> QED
    BY <1>5, <2>2, <2>3
<1> QED
  BY <1>3, <1>4, <1>8

\* Dominates looks at a block's way.
LEMMA DominatesIs ==
  ASSUME NEW B, NEW rank, IsRank(B, rank), NEW way, IsTree(B, rank, way), Known(way) = B,
         NEW idom, idom = [way EXCEPT ![START] = NoBlock], NEW a \in B, NEW b \in B
  PROVE  Dominates(a, b, idom) <=> a \in Up(way, b)
<1> DEFINE AreFound(g) == g = [x \in DOMAIN idom |-> x = a \/ (idom[x] # NoBlock /\ g[idom[x]])]
           found == CHOOSE g : AreFound(g)
           f == [x \in B |-> a \in Up(way, x)]
<1>1. /\ DOMAIN way = B /\ START \in B /\ NoBlock \notin B
      /\ \A x \in B : way[x] \in B
      /\ \A x \in B \ {START} : rank[way[x]] < rank[x]
      /\ rank \in [B -> Nat]
  BY TreeFacts DEF IsRank
<1>2. DOMAIN idom = B /\ idom[START] = NoBlock /\ \A x \in B \ {START} : idom[x] = way[x]
  BY <1>1
<1>3. ASSUME NEW x \in B
      PROVE  a \in Up(way, x) <=> x = a \/ (idom[x] # NoBlock /\ a \in Up(way, idom[x]))
  <2>1. Up(way, x) = {x} \union Up(way, way[x]) /\ (x = START => Up(way, x) = {START})
    BY UpOne
  <2>2. CASE x = START
    BY <1>2, <2>1, <2>2
  <2>3. CASE x # START
    <3>1. idom[x] = way[x] /\ idom[x] # NoBlock
      BY <1>1, <1>2, <2>3
    <3> QED
      BY <2>1, <3>1
  <2> QED
    BY <2>2, <2>3
<1>4. AreFound(f)
  <2>1. \A x \in B : idom[x] # NoBlock => idom[x] \in B
    BY <1>1, <1>2
  <2>2. ASSUME NEW x \in B PROVE (a \in Up(way, x)) = (x = a \/ (idom[x] # NoBlock /\ f[idom[x]]))
    <3>1. idom[x] # NoBlock => (f[idom[x]] <=> a \in Up(way, idom[x]))
      BY <2>1
    <3> QED
      BY <1>3, <3>1
  <2>3. [x \in B |-> a \in Up(way, x)] = [x \in B |-> x = a \/ (idom[x] # NoBlock /\ f[idom[x]])]
    <3> HIDE DEF f
    <3> QED
      BY <2>2, Zenon
  <2> QED
    BY <1>2, <2>3
<1>5. AreFound(found)
  <2> HIDE DEF AreFound
  <2> QED
    BY <1>4
<1>6. \A x \in B : found[x] <=> x = a \/ (idom[x] # NoBlock /\ found[idom[x]])
  <2> HIDE DEF found
  <2> QED
    BY <1>2, <1>5
<1> HIDE DEF found
<1> DEFINE T == {x \in B : found[x] <=> a \in Up(way, x)}
<1>7. ASSUME NEW x \in B, \A y \in B : rank[y] < rank[x] => y \in T
      PROVE  x \in T
  <2>1. CASE x = START
    <3>1. (found[x] <=> x = a) /\ (a \in Up(way, x) <=> x = a)
      BY <1>2, <1>3, <1>6, <2>1
    <3> QED
      BY <3>1
  <2>2. CASE x # START
    <3>1. idom[x] \in B /\ rank[idom[x]] < rank[x] /\ idom[x] # NoBlock
      BY <1>1, <1>2, <2>2
    <3>2. found[idom[x]] <=> a \in Up(way, idom[x])
      BY <1>7, <3>1
    <3>3. (found[x] <=> x = a \/ found[idom[x]]) /\ (a \in Up(way, x) <=> x = a \/ a \in Up(way, idom[x]))
      BY <1>3, <1>6, <3>1
    <3> QED
      BY <3>2, <3>3
  <2> QED
    BY <2>1, <2>2
<1>8. B \subseteq T
  <2> HIDE DEF T
  <2> QED
    BY <1>1, <1>7, RankInduction
<1>9. Dominates(a, b, idom) <=> found[b]
  BY DEF Dominates, found
<1> QED
  BY <1>8, <1>9

\* ImmediateDominators and Dominates say the truth about every graph all of whose
\* blocks can be reached.
LEMMA DominatorsOfGraph ==
  ASSUME NEW blocks, IsGraph(blocks), Reachable(blocks) = DOMAIN blocks,
         NEW idom, idom = ImmediateDominators(blocks), NEW b \in DOMAIN blocks,
         NEW doms, doms = StrictDominators(blocks, b)
  PROVE  /\ b # START => /\ idom[b] \in doms
                         /\ doms \ {idom[b]} \subseteq StrictDominators(blocks, idom[b])
         /\ \A a \in DOMAIN blocks : Dominates(a, b, idom) <=> a \in doms \union {b}
<1> DEFINE B == DOMAIN blocks
<1>1. PICK rpo, rank, way : /\ rpo = ReversePostorder(blocks) /\ rank = RankIn(blocks, rpo)
                            /\ way = DominatorRounds(blocks, rpo, rank)
  OBVIOUS
<1>2. /\ IsRank(B, rank) /\ IsTree(B, rank, way) /\ Known(way) = B
      /\ \A x \in B : Up(way, x) = StrictDominators(blocks, x) \union {x}
  BY <1>1, WaysAreDominators
<1>3. idom = [way EXCEPT ![START] = NoBlock]
  BY <1>1 DEF ImmediateDominators, Dominators
<1>4. \A a \in B : Dominates(a, b, idom) <=> a \in doms \union {b}
  BY <1>2, <1>3, DominatesIs
<1>5. ASSUME b # START
      PROVE  idom[b] \in doms /\ doms \ {idom[b]} \subseteq StrictDominators(blocks, idom[b])
  <2>1. /\ DOMAIN way = B /\ way[b] \in B /\ rank[way[b]] < rank[b] /\ rank[b] \in Nat
        /\ Up(way, b) = {b} \union Up(way, way[b])
    BY <1>2, <1>5, TreeFacts, UpOne
  <2>2. idom[b] = way[b] /\ way[b] # b
    BY <1>3, <1>5, <2>1
  <2>3. b \notin doms
    BY DEF StrictDominators
  <2>4. b \notin Up(way, way[b])
    <3>1. rank[way[b]] \in Nat /\ way[b] \in Known(way)
      BY <1>2, <2>1, TreeFacts
    <3>2. \A y \in Up(way, way[b]) : y = way[b] \/ rank[y] < rank[way[b]]
      BY <1>2, <3>1, UpRanks
    <3> QED
      BY <2>1, <2>2, <3>1, <3>2
  <2>5. way[b] \in Up(way, way[b])
    BY <1>2, <2>1
  <2>6. doms = Up(way, way[b])
    BY <1>2, <2>1, <2>3, <2>4
  <2> QED
    BY <1>2, <2>1, <2>2, <2>5, <2>6
<1> QED
  BY <1>4, <1>5

\* For every body that comes out of simplify_cfg, the back end finds the immediate
\* dominator of every block, and dominates says of any two blocks whether the one
\* is on every way to the other: the walk and the rounds come to an end, and what
\* they end with is the truth, on reducible graphs and on all others.
THEOREM DominatorsAreFound == SimplifySpec => []DominatorsFound
<1>1. IInv => DominatorsFound
  <2> SUFFICES ASSUME IInv, stage = "simplified",
                      NEW blocks, blocks = body.blocks, NEW idom, idom = ImmediateDominators(blocks),
                      NEW b \in DOMAIN blocks, NEW doms, doms = StrictDominators(blocks, b)
               PROVE  /\ b # START => /\ idom[b] \in doms
                                      /\ doms \ {idom[b]} \subseteq StrictDominators(blocks, idom[b])
                      /\ \A a \in DOMAIN blocks : Dominates(a, b, idom) <=> a \in doms \union {b}
    BY DEF DominatorsFound
  <2>1. IsBody(body) /\ InRange(body) /\ IsValid(body)
    BY DEF IInv, SimplifyInv, ValidInv
  <2>2. IsGraph(blocks) /\ Reachable(blocks) = DOMAIN blocks
    BY <2>1, BodyGraph, ValidIs
  <2> QED
    BY <2>2, DominatorsOfGraph
<1> QED
  BY <1>1, Invariance, PTL

=============================================================================
