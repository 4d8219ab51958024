----------------------------- MODULE Structure -----------------------------
(***************************************************************************)
(* How the WebAssembly back end turns the blocks of a body into structured *)
(* control flow: a tree of block, loop and if that is built along the      *)
(* dominator tree.                                                         *)
(*                                                                         *)
(* A tree is a record told apart by t: [t |-> "block", items], [t |->      *)
(* "loop", inner], [t |-> "simple", bb], [t |-> "if", bb, then, els],      *)
(* [t |-> "br", depth], [t |-> "return"] or [t |-> "unreachable"].         *)
(***************************************************************************)
EXTENDS MirMeaning, Dominators

-----------------------------------------------------------------------------
(* The graph with what is known of it.  Validation has made sure that every *)
(* block can be reached.                                                    *)

CfgOf(blocks) ==
  LET rpo  == ReversePostorder(blocks)
      rank == RankIn(blocks, rpo)
      idom == Dominators(blocks, rpo, rank)
  IN [blocks |-> blocks, rank |-> rank, idom |-> idom,
      preds |-> PredecessorCounts(blocks),
      children |-> [b \in DOMAIN blocks |-> SelectSeq(rpo, LAMBDA c : idom[c] = b)],
      headers  |-> {b \in DOMAIN blocks :
                      \E a \in DOMAIN blocks : /\ b \in ToSet(Successors(blocks[a].term))
                                               /\ Dominates(b, a, idom)}]

\* Mutant: two edges do not make a merge.
IsMergeOfMany(cfg, b) == cfg.preds[b] > 2

IsMerge(cfg, b) == cfg.preds[b] > 1

\* An edge that leads back leads to a block that dominates its source.
IsReducible(cfg) ==
  \A a \in DOMAIN cfg.blocks : \A b \in ToSet(Successors(cfg.blocks[a].term)) :
    cfg.rank[b] <= cfg.rank[a] => Dominates(b, a, cfg.idom)

-----------------------------------------------------------------------------
(* The tree.  ctx lists what encloses the place being built, the innermost  *)
(* last: <<"loop", b>>, <<"block", b>> in front of the merge b, or <<"if">>. *)

\* A branch to b: a br that counts what is between, or no target (a panic).
BranchTo(ctx, b) ==
  LET depths == {d \in 0 .. Len(ctx) - 1 : ctx[Len(ctx) - d] \in {<<"loop", b>>, <<"block", b>>}}
  IN IF depths = {} THEN [t |-> "panic"]
     ELSE [t |-> "br", depth |-> CHOOSE d \in depths : \A e \in depths : d <= e]

RECURSIVE DoTree(_, _, _), DoNode(_, _, _), Within(_, _, _, _)

\* An edge is a br if it leads back or to a merge; else its target goes here.
DoBranch(cfg, ctx, from, to) ==
  IF Dominates(to, from, cfg.idom) \/ IsMerge(cfg, to) THEN <<BranchTo(ctx, to)>>
  ELSE DoTree(cfg, ctx, to)

\* Mutant: a branch of an if does not count.
DoNodeFlat(cfg, ctx, b) ==
  LET term == cfg.blocks[b].term
  IN <<[t |-> "simple", bb |-> b]>> \o
     CASE term.kind \in {"goto", "call"} -> DoBranch(cfg, ctx, b, term.target)
       [] term.kind = "switch" ->
            <<[t |-> "if", bb |-> b, then |-> DoBranch(cfg, ctx, b, term.hit),
               els |-> DoBranch(cfg, ctx, b, term.otherwise)]>>
       [] OTHER -> <<[t |-> term.kind]>>

\* The contents of a block and where its terminator leads.
DoNode(cfg, ctx, b) ==
  LET term   == cfg.blocks[b].term
      branch == Append(ctx, <<"if">>)
  IN <<[t |-> "simple", bb |-> b]>> \o
     CASE term.kind \in {"goto", "call"} -> DoBranch(cfg, ctx, b, term.target)
       [] term.kind = "switch" ->
            <<[t |-> "if", bb |-> b, then |-> DoBranch(cfg, branch, b, term.hit),
               els |-> DoBranch(cfg, branch, b, term.otherwise)]>>
       [] OTHER -> <<[t |-> term.kind]>>

\* The merges come after the block, each behind a block to leave towards it,
\* the latest in the outermost one.
Within(cfg, ctx, b, merges) ==
  IF merges = <<>> THEN DoNode(cfg, ctx, b)
  ELSE LET last == merges[Len(merges)] IN
       <<[t |-> "block", items |-> Within(cfg, Append(ctx, <<"block", last>>), b,
                                          SubSeq(merges, 1, Len(merges) - 1))]>>
         \o DoTree(cfg, ctx, last)

\* The children are in reverse postorder.
NodeWithin(cfg, ctx, b) ==
  Within(cfg, ctx, b, SelectSeq(cfg.children[b], LAMBDA c : IsMerge(cfg, c)))

\* What b dominates; the head of a loop is a block inside a loop, which enter
\* the context as one.
DoTree(cfg, ctx, b) ==
  IF b \in cfg.headers
  THEN <<[t |-> "loop",
          inner |-> [t |-> "block", items |-> NodeWithin(cfg, Append(ctx, <<"loop", b>>), b)]]>>
  ELSE NodeWithin(cfg, ctx, b)

Structured(blocks) ==
  [t |-> "block", items |-> DoTree(CfgOf(blocks), <<>>, START)]

\* The basic blocks of a tree, in their order.
RECURSIVE BlocksIn(_)
BlocksIn(items) ==
  IF items = <<>> THEN <<>>
  ELSE LET h == Head(items) IN
       (CASE h.t = "simple" -> <<h.bb>>
          [] h.t = "block"  -> BlocksIn(h.items)
          [] h.t = "loop"   -> BlocksIn(<<h.inner>>)
          [] h.t = "if"     -> BlocksIn(h.then) \o BlocksIn(h.els)
          [] OTHER          -> <<>>) \o BlocksIn(Tail(items))

-----------------------------------------------------------------------------
(* Running a tree, as WebAssembly runs the text printed from it: a br d     *)
(* leaves d constructs and then the next one, or goes back to its head if   *)
(* that is a loop.  out is the number of constructs still to leave, plus    *)
(* one; loopLabels is how many constructs a loop counts for: 2 in the text, *)
(* where a loop is printed with the block inside it.                        *)

Leave(c) == [c EXCEPT !.out = IF @ > 0 THEN @ - 1 ELSE 0]

RECURSIVE RunItems(_, _, _, _, _)
RunItems(blocks, items, c, input, loopLabels) ==
  IF items = <<>> \/ ~Going(c) \/ c.out > 0 THEN c
  ELSE LET h == Head(items)
           d == CASE h.t = "simple" -> RunBlock(blocks[h.bb], c, input)
                  [] h.t = "block"  -> Leave(RunItems(blocks, h.items, c, input, loopLabels))
                  [] h.t = "if" ->
                       Leave(RunItems(blocks,
                                      IF IsHit(blocks[h.bb].term, c.env) THEN h.then ELSE h.els,
                                      c, input, loopLabels))
                  [] h.t = "loop" ->
                       LET r == RunItems(blocks, IF loopLabels = 2 THEN <<h.inner>> ELSE h.inner.items,
                                         c, input, loopLabels)
                       IN IF Going(r) /\ r.out = 1
                          THEN RunItems(blocks, <<h>>, [r EXCEPT !.out = 0], input, loopLabels)
                          ELSE Leave(r)
                  [] h.t = "br"     -> [c EXCEPT !.out = h.depth + 1]
                  [] h.t = "return" -> [c EXCEPT !.end = "return"]
                  [] OTHER          -> [c EXCEPT !.end = "trap"]
       IN RunItems(blocks, Tail(items), d, input, loopLabels)

\* The end of the function returns what is in the return slot.
RunTree(fn, tree, input, loopLabels) ==
  LET e == Entry(fn, input)
      c == RunItems(fn.blocks, <<tree>>,
                    [trace |-> e.trace, end |-> e.end, env |-> e.env, out |-> 0],
                    input, loopLabels)
  IN Outcome(IF Going(c) THEN [c EXCEPT !.end = "return"] ELSE c)
=============================================================================
