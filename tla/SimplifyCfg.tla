---------------------------- MODULE SimplifyCfg ----------------------------
(***************************************************************************)
(* simplify_cfg of biwac_mir_transform, for any body: four steps on the    *)
(* blocks, round after round, until nothing changes or MaxRounds rounds    *)
(* have gone.  The body is validated before and after.                     *)
(***************************************************************************)
EXTENDS MirRun

CONSTANTS
  Bodies,     \* the bodies that come from the lowering
  Inputs,     \* what they are run on
  MaxRounds,  \* 16 in the code
  NoBody

VARIABLES
  given,    \* the body as it came, NoBody before
  body,     \* what has become of it
  stage,    \* which step comes next, or how it ended
  round,    \* from 1
  changed   \* has this round changed the body

-----------------------------------------------------------------------------
(* What comes from the lowering: the records of Mir, and no edge to bb0. *)

IsTerminator(t) ==
  CASE t.kind = "goto"        -> t = Goto(t.target)
    [] t.kind = "switch"      -> t = Switch(t.discr, t.value, t.hit, t.otherwise)
    [] t.kind = "call"        -> t = Call(t.args, t.dest, t.target)
    [] t.kind = "return"      -> t = Return
    [] t.kind = "unreachable" -> t = Unreachable
    [] OTHER                  -> FALSE

IsBlock(block) ==
  /\ block = [stmts |-> block.stmts, term |-> block.term]
  /\ block.stmts \in Seq(ToSet(block.stmts))
  /\ IsTerminator(block.term)
  /\ START \notin ToSet(Successors(block.term))

IsBody(b) ==
  /\ b = [locals |-> b.locals, blocks |-> b.blocks]
  /\ b.locals \in Nat
  /\ b.blocks \in Seq(ToSet(b.blocks)) \ {<<>>}
  /\ \A i \in DOMAIN b.blocks : IsBlock(b.blocks[i])

ASSUME BodiesAssumption == \A b \in Bodies : IsBody(b)

ASSUME RoundsAssumption == MaxRounds \in Nat \ {0}

-----------------------------------------------------------------------------
(* The steps. *)

\* An edge to a block that only jumps goes where the block jumps; a chain of
\* such blocks is followed for as many steps as there are blocks.
Forward(blocks, b) ==
  IF blocks[b].stmts = <<>> /\ blocks[b].term.kind = "goto"
  THEN blocks[b].term.target ELSE b

Resolve(blocks, b) ==
  LET follow[n \in 0 .. Len(blocks)] ==
        IF n = 0 THEN b ELSE Forward(blocks, follow[n - 1])
  IN follow[Len(blocks)]

ThreadGotos(blocks) ==
  LET to == [b \in DOMAIN blocks |-> Resolve(blocks, b)]
  IN [b \in DOMAIN blocks |-> [blocks[b] EXCEPT !.term = Redirect(@, to)]]

\* A switch with one place to go is a goto.
CollapseUniformSwitches(blocks) ==
  [b \in DOMAIN blocks |->
     LET term == blocks[b].term IN
     IF term.kind = "switch" /\ term.hit = term.otherwise
     THEN [blocks[b] EXCEPT !.term = Goto(term.otherwise)] ELSE blocks[b]]

\* Block a takes in the block it jumps to, of which an empty one is left.
TakeIn(blocks, a, b) ==
  [blocks EXCEPT ![a] = [stmts |-> @.stmts \o blocks[b].stmts, term |-> blocks[b].term],
                 ![b] = EmptyBlock]

\* Mutant: a block is taken in whoever else jumps to it.
MergeAtGreedy(blocks, n, preds) ==
  LET term == blocks[n].term
  IN IF term.kind = "goto" /\ term.target # n
     THEN TakeIn(blocks, n, term.target) ELSE blocks

\* Block n takes in the block it jumps to, if no other edge leads there.
MergeAt(blocks, n, preds) ==
  LET term == blocks[n].term
  IN IF term.kind = "goto" /\ term.target # n /\ preds[term.target] = 1
     THEN TakeIn(blocks, n, term.target) ELSE blocks

\* One block after the other; the counts are those from before the first.
MergeSinglePredecessor(blocks) ==
  LET preds == PredecessorCounts(blocks)
      merged[n \in 0 .. Len(blocks)] ==
        IF n = 0 THEN blocks ELSE MergeAt(merged[n - 1], n, preds)
  IN merged[Len(blocks)]

\* Mutant: the blocks move and the edges still have the old numbers.
RemoveUnreachableUnmapped(blocks) ==
  LET seen == Reachable(blocks)
  IN [i \in 1 .. Cardinality(seen) |->
        blocks[CHOOSE b \in seen : Cardinality({c \in seen : c <= b}) = i]]

\* RemoveUnreachable is KeepReachable of Mir.
RemoveUnreachable(blocks) == KeepReachable(blocks)

-----------------------------------------------------------------------------
(* The rounds. *)

SimplifyInit ==
  /\ given = NoBody
  /\ body = NoBody
  /\ stage = "build"
  /\ round = 1
  /\ changed = FALSE

\* The body that the lowering hands over.
Begin(b) ==
  /\ stage = "build"
  /\ given' = b
  /\ body' = b
  /\ stage' = IF IsValid(b) THEN "thread" ELSE "broken"
  /\ UNCHANGED <<round, changed>>

\* A step of a round on the blocks; it notes whether it has changed them.
Apply(blocks) ==
  /\ body' = [body EXCEPT !.blocks = blocks]
  /\ changed' = (changed \/ blocks # body.blocks)
  /\ UNCHANGED <<given, round>>

DoThreadGotos ==
  /\ stage = "thread"
  /\ Apply(ThreadGotos(body.blocks))
  /\ stage' = "collapse"

DoCollapse ==
  /\ stage = "collapse"
  /\ Apply(CollapseUniformSwitches(body.blocks))
  /\ stage' = "merge"

DoMerge ==
  /\ stage = "merge"
  /\ Apply(MergeSinglePredecessor(body.blocks))
  /\ stage' = "remove"

\* Mutant: there is one round only.
DoRemoveOnce ==
  /\ stage = "remove"
  /\ body' = [body EXCEPT !.blocks = RemoveUnreachable(body.blocks)]
  /\ changed' = FALSE
  /\ stage' = "simplified"
  /\ UNCHANGED <<given, round>>

\* The last step of a round.
DoRemove ==
  LET blocks == RemoveUnreachable(body.blocks)
      again  == (changed \/ blocks # body.blocks) /\ round < MaxRounds
  IN /\ stage = "remove"
     /\ body' = [body EXCEPT !.blocks = blocks]
     /\ changed' = FALSE
     /\ round' = IF again THEN round + 1 ELSE round
     /\ stage' = IF again THEN "thread"
                 ELSE IF IsValid(body') THEN "simplified" ELSE "broken"
     /\ UNCHANGED given

SimplifyNext ==
  \/ \E b \in Bodies : Begin(b)
  \/ DoThreadGotos
  \/ DoCollapse
  \/ DoMerge
  \/ DoRemove

simplifyVars == <<given, body, stage, round, changed>>

SimplifySpec == SimplifyInit /\ [][SimplifyNext]_simplifyVars

-----------------------------------------------------------------------------
(* Properties *)

\* A run of the body that ends within Fuel blocks ends, after every single
\* step of every round, in the same state - with the same calls made and the
\* same values in every local - and needs no more blocks for it.
RunKept ==
  stage # "build" =>
    \A input \in Inputs :
      LET was == RunFor(given, input, Fuel)
      IN ~Going(was) => RunFor(body, input, Fuel) = was

\* Validation finds nothing: all that IsValid asks for but reachability.
InRange(b) ==
  /\ b.locals > 0
  /\ \A i \in DOMAIN b.blocks :
       /\ LocalsNamed(b.blocks[i]) \subseteq 0 .. b.locals - 1
       /\ ToSet(Successors(b.blocks[i].term)) \subseteq DOMAIN b.blocks

\* The edges of a body where no step has anything left to do: no switch has one
\* target, no block could take in the next, and no edge can be drawn further.
Settled(blocks) ==
  \A b \in DOMAIN blocks :
    LET term == blocks[b].term IN
    /\ term.kind = "switch" => term.hit # term.otherwise
    /\ term.kind = "goto" => PredecessorCounts(blocks)[term.target] > 1
    /\ b # START => Resolve(blocks, b) = b

\* A body stays well formed from step to step.  One that was valid is valid
\* whenever it is looked at, so it is the lowering that made a broken one.
ValidInv ==
  /\ stage \notin {"build", "broken"} =>
       /\ IsBody(body)
       /\ InRange(body)
       /\ body.locals = given.locals
  /\ stage \in {"thread", "simplified"} => IsValid(body)
  /\ stage = "broken" => body = given /\ ~IsValid(given)

\* What a round has not changed so far, its steps so far leave as it is; so the
\* rounds end, unless the limit ends them, with nothing left to do.
SettledInv ==
  LET blocks == body.blocks
      unchanged == ~changed
  IN /\ unchanged /\ stage \in {"collapse", "merge", "remove"} => ThreadGotos(blocks) = blocks
     /\ unchanged /\ stage \in {"merge", "remove"} => CollapseUniformSwitches(blocks) = blocks
     /\ unchanged /\ stage = "remove" => MergeSinglePredecessor(blocks) = blocks
     /\ stage = "simplified" /\ round < MaxRounds => Settled(blocks)

SimplifyInv ==
  /\ stage \in {"build", "thread", "collapse", "merge", "remove", "simplified", "broken"}
  /\ round \in 1 .. MaxRounds
  /\ changed \in BOOLEAN
  /\ ValidInv
  /\ SettledInv

\* What comes out is simplified all the way, so the rounds allowed are enough:
\* no block only jumps, none could take in the next, no switch has one target.
Simplified(blocks) ==
  /\ Settled(blocks)
  /\ \A b \in DOMAIN blocks \ {START} : Forward(blocks, b) = b

FullySimplified == stage = "simplified" => Simplified(body.blocks)
=============================================================================
