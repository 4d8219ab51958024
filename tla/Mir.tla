-------------------------------- MODULE Mir --------------------------------
(***************************************************************************)
(* The body of one function as biwac_mir holds it: locals, basic blocks    *)
(* and their terminators, and what its validation refuses.  Types, spans   *)
(* and names are left out.                                                 *)
(*                                                                         *)
(* A body is [locals |-> n, blocks |-> s]: locals 0 .. n - 1, of which 0   *)
(* is the return slot and the arguments follow, and a sequence of blocks,  *)
(* so that bb0 of the code is block 1.                                     *)
(***************************************************************************)
EXTENDS Naturals, Sequences, FiniteSets, SequencesExt

START  == 1
RETURN == 0

-----------------------------------------------------------------------------
(* Operands, statements, terminators. *)

\* A local, or the field of it that a path of field numbers leads to.
Place(l, path) == [kind |-> "place", local |-> l, path |-> path]
Local(l)       == Place(l, <<>>)
ConstOp(v)     == [kind |-> "const", value |-> v]

\* dest = op(args), op being <<"use">>, <<"tag">> (the discriminant), <<"bin">>
\* (a unary or binary operator) or <<"ctor", tag>> (a struct or enum value).
Assign(dest, op, args) == [dest |-> dest, op |-> op, args |-> args]

Goto(t) == [kind |-> "goto", target |-> t]

\* A switch of the lowering tests one value.
Switch(discr, value, hit, otherwise) ==
  [kind |-> "switch", discr |-> discr, value |-> value, hit |-> hit,
   otherwise |-> otherwise]

Call(args, dest, t) ==
  [kind |-> "call", args |-> args, dest |-> dest, target |-> t]

Return      == [kind |-> "return"]
Unreachable == [kind |-> "unreachable"]

\* A block whose terminator is not known yet.
EmptyBlock == [stmts |-> <<>>, term |-> Unreachable]

IfBool(cond, true, false) == Switch(cond, 0, false, true)

Successors(term) ==
  CASE term.kind \in {"goto", "call"} -> <<term.target>>
    [] term.kind = "switch" -> <<term.hit, term.otherwise>>
    [] OTHER -> <<>>

\* The terminator with to[t] for every target t.
Redirect(term, to) ==
  CASE term.kind = "goto"   -> Goto(to[term.target])
    [] term.kind = "switch" ->
         Switch(term.discr, term.value, to[term.hit], to[term.otherwise])
    [] term.kind = "call"   -> Call(term.args, term.dest, to[term.target])
    [] OTHER -> term

-----------------------------------------------------------------------------
(* What can be reached from bb0. *)

Reachable(blocks) ==
  LET reach[n \in 0 .. Len(blocks)] ==
        IF n = 0 THEN {START}
        ELSE LET seen == reach[n - 1]
             IN seen \union UNION {ToSet(Successors(blocks[b].term)) : b \in seen}
  IN reach[Len(blocks)]

\* The reachable blocks in their order, with their numbers closed up.
KeepReachable(blocks) ==
  LET seen == Reachable(blocks)
      to   == [b \in seen |-> Cardinality({c \in seen : c <= b})]
  IN [i \in 1 .. Cardinality(seen) |->
        LET old == CHOOSE b \in seen : to[b] = i
        IN [blocks[old] EXCEPT !.term = Redirect(@, to)]]

\* The edges to block b: <<a, i>> is the i-th of block a.
EdgesTo(blocks, b) ==
  {edge \in (DOMAIN blocks) \X (1 .. 2) :
     LET targets == Successors(blocks[edge[1]].term)
     IN edge[2] \in DOMAIN targets /\ targets[edge[2]] = b}

\* Every edge counts, so a switch may count twice.
PredecessorCounts(blocks) == [b \in DOMAIN blocks |-> Cardinality(EdgesTo(blocks, b))]

-----------------------------------------------------------------------------
(* Validation. *)

LocalsOf(args) == {a.local : a \in {b \in ToSet(args) : b.kind = "place"}}

LocalsNamed(block) ==
  LET term == block.term IN
  (UNION {{s.dest.local} \union LocalsOf(s.args) : s \in ToSet(block.stmts)})
    \union (CASE term.kind = "switch" -> LocalsOf(<<term.discr>>)
              [] term.kind = "call"   -> LocalsOf(<<term.dest>> \o term.args)
              [] OTHER -> {})

\* No UndefinedLocal, UndefinedBlock, UnreachableBlock or MissingReturnLocal.
IsValid(body) ==
  /\ body.locals > 0
  /\ \A b \in DOMAIN body.blocks :
       /\ LocalsNamed(body.blocks[b]) \subseteq 0 .. body.locals - 1
       /\ ToSet(Successors(body.blocks[b].term)) \subseteq DOMAIN body.blocks
  /\ Reachable(body.blocks) = DOMAIN body.blocks
=============================================================================
