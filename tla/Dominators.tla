----------------------------- MODULE Dominators -----------------------------
(***************************************************************************)
(* Reverse postorder and the dominator tree, as the WebAssembly back end   *)
(* computes them from the blocks that come out of the simplification.      *)
(*                                                                         *)
(* Validation has made sure that every block can be reached, so each has a *)
(* place in the order and a dominator in the end.                          *)
(***************************************************************************)
EXTENDS SimplifyCfg

NoBlock == 0

-----------------------------------------------------------------------------
(* Reverse postorder: depth first, the successors in their order. *)

\* A step of the walk, at the top of the stack; next[b] is how many successors
\* of b have been looked at, which the code keeps beside b on the stack.
WalkStep(blocks, w) ==
  LET b     == Last(w.stack)
      succs == Successors(blocks[b].term)
      i     == w.next[b] + 1
  IN CASE w.stack = <<>> -> w
       [] w.stack # <<>> /\ i <= Len(succs) ->
            [w EXCEPT !.next[b] = i,
                      !.stack = IF succs[i] \in w.visited THEN @ ELSE Append(@, succs[i]),
                      !.visited = @ \union {succs[i]}]
       [] OTHER -> [w EXCEPT !.stack = Front(@), !.post = Append(@, b)]

WalkStart(blocks) ==
  [visited |-> {START}, stack |-> <<START>>, next |-> [b \in DOMAIN blocks |-> 0], post |-> <<>>]

\* A block is on top once for every successor, of which there are two at most,
\* and once more.
ReversePostorder(blocks) ==
  LET after[n \in 0 .. 3 * Len(blocks)] ==
        IF n = 0 THEN WalkStart(blocks) ELSE WalkStep(blocks, after[n - 1])
  IN Reverse(after[3 * Len(blocks)].post)

RankIn(blocks, rpo) == [b \in DOMAIN blocks |-> CHOOSE i \in DOMAIN rpo : rpo[i] = b]

-----------------------------------------------------------------------------
(* Immediate dominators, by the iteration of Cooper, Harvey and Kennedy. *)

\* Mutant: the walk up ends at the first step.
IntersectInOneStep(a, b, idom, rank) ==
  CASE a = b -> a
    [] rank[a] > rank[b] -> b
    [] OTHER -> a

\* From a and b up, always from the one that comes later, until they meet.
Intersect(a, b, idom, rank) ==
  LET known == {x \in DOMAIN idom : idom[x] # NoBlock}
      up[p \in known \X known] ==
        CASE p[1] = p[2] -> p[1]
          [] rank[p[1]] > rank[p[2]] ->
               IF idom[p[1]] \in {NoBlock, p[1]} THEN p[2] ELSE up[<<idom[p[1]], p[2]>>]
          [] OTHER ->
               IF idom[p[2]] \in {NoBlock, p[2]} THEN p[1] ELSE up[<<p[1], idom[p[2]]>>]
  IN up[<<a, b>>]

\* What the predecessors of b that have a dominator so far have in common.
MeetOf(blocks, b, idom, rank) ==
  LET meet[p \in 0 .. Len(blocks)] ==
        IF p = 0 THEN NoBlock
        ELSE LET cur == meet[p - 1]
             IN CASE b \notin ToSet(Successors(blocks[p].term)) \/ idom[p] = NoBlock -> cur
                  [] OTHER -> IF cur = NoBlock THEN p ELSE Intersect(p, cur, idom, rank)
  IN meet[Len(blocks)]

Update(blocks, b, idom, rank) ==
  LET meet == MeetOf(blocks, b, idom, rank)
  IN IF meet = NoBlock THEN idom ELSE [idom EXCEPT ![b] = meet]

\* Every block but the first, in the order, from what the ones before have got.
DominatorRound(blocks, rpo, idom, rank) ==
  LET after[i \in 0 .. Len(rpo) - 1] ==
        IF i = 0 THEN idom ELSE Update(blocks, rpo[i + 1], after[i - 1], rank)
  IN after[Len(rpo) - 1]

\* Round after round until nothing changes; every round that changes something
\* moves a dominator to a lower place in the order.
DominatorRounds(blocks, rpo, rank) ==
  LET first == [b \in DOMAIN blocks |-> IF b = START THEN START ELSE NoBlock]
      most  == Len(blocks) * Len(rpo)
      after[n \in 0 .. most + 1] ==
        IF n = 0 THEN first ELSE DominatorRound(blocks, rpo, after[n - 1], rank)
  IN after[CHOOSE n \in 0 .. most : after[n + 1] = after[n]]

\* The first block has none.
Dominators(blocks, rpo, rank) ==
  [DominatorRounds(blocks, rpo, rank) EXCEPT ![START] = NoBlock]

\* Is a on the way from b up?
Dominates(a, b, idom) ==
  LET found[x \in DOMAIN idom] == x = a \/ (idom[x] # NoBlock /\ found[idom[x]])
  IN found[b]

ImmediateDominators(blocks) ==
  LET rpo == ReversePostorder(blocks) IN Dominators(blocks, rpo, RankIn(blocks, rpo))

-----------------------------------------------------------------------------
(* What a dominator is, and that the iteration finds it. *)

\* What can be reached without leaving a again.
Avoiding(blocks, a) ==
  Reachable([b \in DOMAIN blocks |-> IF b = a THEN EmptyBlock ELSE blocks[b]])

\* The blocks that are on every way to b.
StrictDominators(blocks, b) ==
  {a \in DOMAIN blocks \ {b} : a = START \/ b \notin Avoiding(blocks, a)}

\* Each block but the first has the last of those in front of it, and Dominates
\* says of any two blocks whether the one is on every way to the other.
DominatorsFound ==
  stage = "simplified" =>
    LET blocks == body.blocks
        idom   == ImmediateDominators(blocks)
    IN \A b \in DOMAIN blocks :
         LET doms == StrictDominators(blocks, b) IN
         /\ b # START => /\ idom[b] \in doms
                         /\ doms \ {idom[b]} \subseteq StrictDominators(blocks, idom[b])
         /\ \A a \in DOMAIN blocks : Dominates(a, b, idom) <=> a \in doms \union {b}
=============================================================================
