------------------------------ MODULE MirBuild ------------------------------
(***************************************************************************)
(* The lowering of a typed function body to MIR, as the Builder of         *)
(* biwac_mir_build does it.                                                *)
(*                                                                         *)
(* m is the state of the builder: how many locals and which blocks there   *)
(* are, the local of every variable, and bb, the block being written.      *)
(* Every operator returns the state it leaves; bb is the block the caller  *)
(* goes on in, which the code returns.                                     *)
(***************************************************************************)
EXTENDS MirMeaning

NewLocal(m) == [m EXCEPT !.locals = @ + 1]

\* The block being written ends with term; n blocks are opened, and block
\* next is written from here on.
Terminate(m, term, n, next) ==
  [m EXCEPT !.blocks = [@ EXCEPT ![m.bb].term = term] \o [i \in 1 .. n |-> EmptyBlock],
            !.bb = next]

PushAssign(m, dest, op, args) ==
  [m EXCEPT !.blocks[m.bb].stmts = Append(@, Assign(dest, op, args))]

\* A variable gets a local of its own, the newest.
DeclareVar(m, x) ==
  [NewLocal(m) EXCEPT !.vars = [y \in DOMAIN @ \union {x} |->
                                  IF y = x THEN m.locals ELSE @[y]]]

RECURSIVE LowerExprInto(_, _, _)

-----------------------------------------------------------------------------
(* Places and operands: [m |-> state, op |-> operand]. *)

\* A variable and a field of one are places as they are; a field of any other
\* expression, and its value, are put in a temporary.
RECURSIVE LowerPlace(_, _)
LowerPlace(m, e) ==
  CASE e.n = "var" -> [m |-> m, op |-> Local(m.vars[e.x])]
    [] e.n = "field" ->
         LET r == LowerPlace(m, e.base)
         IN [r EXCEPT !.op.path = Append(@, e.index)]
    [] OTHER ->
         [m |-> LowerExprInto(NewLocal(m), Local(m.locals), e), op |-> Local(m.locals)]

\* A place is not read here: it is read when the operand is used.
LowerOperand(m, e) ==
  IF e.n = "lit" THEN [m |-> m, op |-> ConstOp(e.value)] ELSE LowerPlace(m, e)

RECURSIVE LowerOperands(_, _)
LowerOperands(m, es) ==
  IF es = <<>> THEN [m |-> m, ops |-> <<>>]
  ELSE LET h == LowerOperand(m, Head(es))
           t == LowerOperands(h.m, Tail(es))
       IN [m |-> t.m, ops |-> <<h.op>> \o t.ops]

-----------------------------------------------------------------------------
(* Statements and blocks.  A block, an if or a match that is a statement is *)
(* lowered as the expression it also is; none of its blocks ends with an    *)
(* expression, so that nothing is put in its destination.                   *)

LowerWhile(m, st) ==
  LET head == Len(m.blocks) + 1
      c    == LowerOperand(Terminate(m, Goto(head), 1, head), st.cond)
      body == Len(c.m.blocks) + 1
      exit == body + 1
      b    == Terminate(c.m, IfBool(c.op, body, exit), 2, body)
  IN Terminate(LowerExprInto(b, Local(RETURN), st.body), Goto(head), 0, exit)

LowerStmt(m, st) ==
  CASE st.n = "expr"   -> LowerExprInto(NewLocal(m), Local(m.locals), st.expr)
    [] st.n = "let"    -> LowerExprInto(DeclareVar(m, st.x), Local(m.locals), st.expr)
    [] st.n = "assign" ->
         LET r == LowerPlace(m, st.dst) IN LowerExprInto(r.m, r.op, st.expr)
    [] st.n = "return" ->
         LET r == LowerExprInto(m, Local(RETURN), st.expr)
         IN Terminate(r, Return, 1, Len(r.blocks) + 1)
    [] st.n = "while"  -> LowerWhile(m, st)
    [] OTHER           -> LowerExprInto(m, Local(RETURN), st)

RECURSIVE LowerStmts(_, _)
LowerStmts(m, stmts) ==
  IF stmts = <<>> THEN m ELSE LowerStmts(LowerStmt(m, Head(stmts)), Tail(stmts))

LowerBlockInto(m, dest, b) ==
  LET t == LowerStmts(m, b.stmts)
  IN IF b.expr = NoExpr THEN t ELSE LowerExprInto(t, dest, b.expr)

LowerIf(m, e, dest) ==
  LET c    == LowerOperand(m, e.cond)
      then == Len(c.m.blocks) + 1
      els  == then + 1
      join == then + 2
      b    == Terminate(c.m, IfBool(c.op, then, els), 3, then)
      t    == Terminate(LowerBlockInto(b, dest, e.then), Goto(join), 0, els)
  IN Terminate(LowerBlockInto(t, dest, e.els), Goto(join), 0, join)

-----------------------------------------------------------------------------
(* match: the value and its tag are put in locals, the tag is compared      *)
(* with one variant after the other, and an arm that catches everything, or *)
(* else the last one, needs no test.                                        *)

OtherwiseArm(arms) ==
  LET all == {i \in DOMAIN arms : Irrefutable(arms[i].pat)}
  IN IF all = {} THEN Len(arms) ELSE CHOOSE i \in all : \A j \in all : i <= j

\* The tests of the arms in tested; arm i is at block armAt + i, and the last
\* test leads on to the arm that needs none.
RECURSIVE LowerTests(_, _, _, _, _, _)
LowerTests(m, arms, tested, discr, armAt, otherwise) ==
  IF Len(tested) <= 1
  THEN Terminate(m, IF tested = <<>> THEN Goto(armAt + otherwise)
                    ELSE Switch(discr, arms[tested[1]].pat[2], armAt + tested[1],
                                armAt + otherwise), 0, armAt + 1)
  ELSE LET next == Len(m.blocks) + 1
           t == Terminate(m, Switch(discr, arms[tested[1]].pat[2], armAt + tested[1], next),
                          1, next)
       IN LowerTests(t, arms, Tail(tested), discr, armAt, otherwise)

\* The variables of a pattern, copied from the value at the head of the arm.
RECURSIVE LowerFieldBindings(_, _, _, _)
LowerFieldBindings(m, value, binds, i) ==
  CASE i > Len(binds)    -> m
    [] binds[i] = NoVar  -> LowerFieldBindings(m, value, binds, i + 1)
    [] OTHER ->
         LowerFieldBindings(PushAssign(DeclareVar(m, binds[i]), Local(m.locals), <<"use">>,
                                       <<Place(value, <<i>>)>>),
                            value, binds, i + 1)

LowerPatternBindings(m, value, pat) ==
  CASE pat[1] = "any"     -> m
    [] pat[1] = "bind"    ->
         PushAssign(DeclareVar(m, pat[2]), Local(m.locals), <<"use">>, <<Local(value)>>)
    [] pat[1] = "variant" -> LowerFieldBindings(m, value, pat[3], 1)

\* The arms from the one whose block is being written; the last goes on at join.
RECURSIVE LowerArms(_, _, _, _, _)
LowerArms(m, arms, value, dest, join) ==
  LET a == LowerPatternBindings(m, value, Head(arms).pat)
      b == LowerBlockInto(a, dest, Head(arms).body)
  IN IF Len(arms) = 1 THEN Terminate(b, Goto(join), 0, join)
     ELSE LowerArms(Terminate(b, Goto(join), 0, m.bb + 1), Tail(arms), value, dest, join)

LowerMatch(m, e, dest) ==
  LET value == m.locals
      v     == LowerExprInto(NewLocal(m), Local(value), e.scrut)
      d     == PushAssign(NewLocal(v), Local(v.locals), <<"tag">>, <<Local(value)>>)
      join  == Len(d.blocks) + 1
      b     == [d EXCEPT !.blocks = @ \o [i \in 1 .. 1 + Len(e.arms) |-> EmptyBlock]]
      other == OtherwiseArm(e.arms)
      tested == SelectSeq([i \in DOMAIN e.arms |-> i],
                          LAMBDA i : i # other /\ ~Irrefutable(e.arms[i].pat))
      t     == LowerTests(b, e.arms, tested, Local(v.locals), join, other)
  IN LowerArms(t, e.arms, value, dest, join)

-----------------------------------------------------------------------------
(* Expressions, and the function. *)

LowerExprInto(m, dest, e) ==
  CASE e.n = "lit" -> PushAssign(m, dest, <<"use">>, <<ConstOp(e.value)>>)
    [] e.n \in {"var", "field"} ->
         LET r == LowerPlace(m, e) IN PushAssign(r.m, dest, <<"use">>, <<r.op>>)
    [] e.n = "op" ->
         LET r == LowerOperands(m, e.args) IN PushAssign(r.m, dest, e.op, r.ops)
    [] e.n = "call" ->
         LET r    == LowerOperands(m, e.args)
             next == Len(r.m.blocks) + 1
         IN Terminate(r.m, Call(r.ops, dest, next), 1, next)
    [] e.n = "if"    -> LowerIf(m, e, dest)
    [] e.n = "match" -> LowerMatch(m, e, dest)
    [] e.n = "block" -> LowerBlockInto(m, dest, e)

\* The blocks of the whole function, before the last step.
Lowered(f) ==
  Terminate(LowerBlockInto([locals |-> 1 + Len(f.params), blocks |-> <<EmptyBlock>>,
                            bb |-> START,
                            vars |-> [x \in ToSet(f.params) |->
                                        CHOOSE i \in DOMAIN f.params : f.params[i] = x]],
                           Local(RETURN), f.body),
            Return, 0, RETURN)

\* Mutant: the blocks opened after a return stay.
BuildBodyUnpruned(f) ==
  LET b == Lowered(f) IN [locals |-> b.locals, blocks |-> b.blocks]

\* The function, without the blocks that cannot be reached.
BuildBody(f) ==
  LET b == Lowered(f) IN [locals |-> b.locals, blocks |-> KeepReachable(b.blocks)]
=============================================================================
