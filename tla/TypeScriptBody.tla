--------------------------- MODULE TypeScriptBody ---------------------------
(***************************************************************************)
(* The body of a function as the TypeScript back end prints it.            *)
(*                                                                         *)
(* A script is made of the nodes of MirMeaning that TypeScript has too: a  *)
(* field, a call and an operator are themselves, "if" is the statement or, *)
(* as an expression, the conditional operator, and there is no match and   *)
(* no block with a value.  Statements that such an expression needs are    *)
(* hoisted: put in front of the statement the expression is part of.       *)
(*                                                                         *)
(* c is the context of the function (FnAstBuildCtx): the statements so     *)
(* far, the number of temporaries, and whether the generator met a todo!() *)
(* and died.  An operator returns the context it leaves and the node, or   *)
(* the sequence of nodes, it prints.                                       *)
(***************************************************************************)
EXTENDS MirMeaning

NewContext == [stmts |-> <<>>, temps |-> 0, died |-> FALSE]

Printed(c, out) == [c |-> c, out |-> out]

Push(c, st) == [c EXCEPT !.stmts = Append(@, st)]

\* The generator has no code for the node.
Todo(c) == Printed([c EXCEPT !.died = TRUE], NoExpr)

VarNode(x)        == [n |-> "var", x |-> x]
LetNode(x, expr)  == [n |-> "let", x |-> x, expr |-> expr]
SetNode(x, expr)  == [n |-> "assign", dst |-> VarNode(x), expr |-> expr]
StmtBlock(stmts)  == [n |-> "block", stmts |-> stmts, expr |-> NoExpr]
IfNode(test, p, q) == [n |-> "if", cond |-> test, then |-> p, els |-> q]

TempName(c) == "__biwa_tmp" \o ToString(c.temps)

AllocTemp(c) == [c EXCEPT !.temps = @ + 1]

\* (subject.__tag as number) === tag
TagTest(subject, tag) == [n |-> "op", op |-> <<"is", tag>>, args |-> <<VarNode(subject)>>]

-----------------------------------------------------------------------------
(* The arms of a match: a chain of ifs over the tag of the subject. *)

\* The declarations an arm begins with.
Bindings(pat, subject) ==
  LET Member(i) == [n |-> "field", base |-> VarNode(subject), index |-> i]
  IN CASE pat[1] = "any"     -> <<>>
       [] pat[1] = "bind"    -> <<LetNode(pat[2], VarNode(subject))>>
       [] pat[1] = "variant" ->
            LET named == SelectSeq([i \in DOMAIN pat[3] |-> i], LAMBDA i : pat[3][i] # NoVar)
            IN [k \in DOMAIN named |-> LetNode(pat[3][named[k]], Member(named[k]))]

\* The arm that always matches is the else: the first that catches all, or the
\* last.  The type checker has seen that there is one.
ElseArm(arms) ==
  LET all == {i \in DOMAIN arms : Irrefutable(arms[i].pat)}
  IN IF all = {} THEN Len(arms) ELSE CHOOSE i \in all : \A j \in all : i <= j

BuildArmChain(subject, arms, bodies) ==
  LET tested == SelectSeq([i \in DOMAIN arms |-> i],
                          LAMBDA i : i # ElseArm(arms) /\ arms[i].pat[1] = "variant")
  IN FoldRight(LAMBDA i, rest :
                 IfNode(TagTest(subject, arms[i].pat[2]), StmtBlock(bodies[i]), rest),
               tested, StmtBlock(bodies[ElseArm(arms)]))

-----------------------------------------------------------------------------
(* Expressions and statements: as says which of the two a node is. *)

RECURSIVE PrintNode(_, _, _), PrintAll(_, _, _)

\* Nodes one after the other.  What an operand hoists comes before the
\* statement, and so before the operands on its left.
PrintAll(nds, as, c) ==
  IF nds = <<>> THEN Printed(c, <<>>)
  ELSE LET h == PrintNode(Head(nds), as, c)
           t == PrintAll(Tail(nds), as, h.c)
       IN Printed(t.c, <<h.out>> \o t.out)

\* The statements of a block, then what its value hoisted, then the value put in
\* dest: while the block is printed it has a list of its own.
\* Mutant: it has none.
BlockExprIntoOuter(block, dest, c) ==
  LET r == PrintAll(block.stmts, "stmt", c)
      v == PrintNode(block.expr, "expr", r.c)
  IN Printed(v.c, r.out \o <<SetNode(dest, v.out)>>)

BlockExprInto(block, dest, c) ==
  LET r == PrintAll(block.stmts, "stmt", [c EXCEPT !.stmts = <<>>])
      v == PrintNode(block.expr, "expr", r.c)
  IN Printed([v.c EXCEPT !.stmts = c.stmts],
             r.out \o v.c.stmts \o <<SetNode(dest, v.out)>>)

\* The bodies of the arms: their values go to dest, or they have none.
RECURSIVE PrintArms(_, _, _, _)
PrintArms(arms, subject, dest, c) ==
  IF arms = <<>> THEN Printed(c, <<>>)
  ELSE LET body == Head(arms).body
           h == IF dest = NoVar THEN PrintAll(body.stmts, "stmt", c)
                ELSE BlockExprInto(body, dest, c)
           t == PrintArms(Tail(arms), subject, dest, h.c)
       IN Printed(t.c, <<Bindings(Head(arms).pat, subject) \o h.out>> \o t.out)

\* The arms of a match over the variable subject.
ArmsTo(dest, m, subject, c) ==
  LET r == PrintArms(m.arms, subject, dest, c)
  IN Printed(r.c, BuildArmChain(subject, m.arms, r.out))

\* With a value, the match as a whole is hoisted.
PrintMatchExpr(m, subject, c) ==
  LET result == TempName(c)
      r      == ArmsTo(result, m, subject, Push(AllocTemp(c), LetNode(result, NoExpr)))
  IN Printed(Push(r.c, r.out), VarNode(result))

\* The subject is evaluated once, into a temporary.
PrintMatch(m, as, scrut) ==
  LET subject == TempName(scrut.c)
      c       == Push(AllocTemp(scrut.c), LetNode(subject, scrut.out))
  IN IF as = "stmt" THEN ArmsTo(NoVar, m, subject, c) ELSE PrintMatchExpr(m, subject, c)

\* What the branches of an if hoist goes where the if stands.
PrintIfStmt(st, c) ==
  LET test == PrintNode(st.cond, "expr", c)
      then == PrintAll(st.then.stmts, "stmt", test.c)
      els  == PrintAll(st.els.stmts, "stmt", then.c)
  IN Printed(els.c, IfNode(test.out, StmtBlock(then.out), StmtBlock(els.out)))

\* An if with a value is a conditional operator; with statements in a branch
\* there is no code for it yet.
PrintIfExpr(e, c) ==
  IF e.then.stmts # <<>> \/ e.els.stmts # <<>> THEN Todo(c)
  ELSE LET r == PrintAll(<<e.cond, e.then, e.els>>, "expr", c)
       IN Printed(r.c, IfNode(r.out[1], r.out[2], r.out[3]))

\* The statements of a block are hoisted and its value stays.
PrintBlockExpr(b, c) ==
  LET r == PrintAll(b.stmts, "stmt", c)
  IN PrintNode(b.expr, "expr", [r.c EXCEPT !.stmts = @ \o r.out])

\* Operators, literals of structs and enums, and calls; for a method the
\* receiver comes first.
PrintOperands(e, c) ==
  LET r == PrintAll(e.args, "expr", c) IN Printed(r.c, [e EXCEPT !.args = r.out])

PrintField(e, c) ==
  LET r == PrintNode(e.base, "expr", c) IN Printed(r.c, [e EXCEPT !.base = r.out])

PrintExpr(e, c) ==
  CASE e.n \in {"lit", "var"} -> Printed(c, e)
    [] e.n = "field"          -> PrintField(e, c)
    [] e.n \in {"op", "call"} -> PrintOperands(e, c)
    [] e.n = "match"          -> PrintMatch(e, "expr", PrintNode(e.scrut, "expr", c))
    [] e.n = "if"             -> PrintIfExpr(e, c)
    [] e.n = "block"          -> PrintBlockExpr(e, c)

PrintStmt(st, c) ==
  CASE st.n \in {"let", "return", "expr"} ->
         LET r == PrintNode(st.expr, "expr", c) IN Printed(r.c, [st EXCEPT !.expr = r.out])
    [] st.n = "assign" ->
         LET r == PrintAll(<<st.dst, st.expr>>, "expr", c)
         IN Printed(r.c, [st EXCEPT !.dst = r.out[1], !.expr = r.out[2]])
    [] st.n = "if"    -> PrintIfStmt(st, c)
    [] st.n = "match" -> PrintMatch(st, "stmt", PrintNode(st.scrut, "expr", c))
    [] st.n \in {"block", "while"} -> Todo(c)

PrintNode(nd, as, c) == IF as = "stmt" THEN PrintStmt(nd, c) ELSE PrintExpr(nd, c)

-----------------------------------------------------------------------------

\* The context at the end of a function: every statement is put after those it
\* hoisted, and the value of the body is returned.
PrintFn(f) ==
  LET Add(c, st) == LET r == PrintNode(st, "stmt", c) IN Push(r.c, r.out)
      value == [n |-> "return", expr |-> f.body.expr]
  IN FoldLeft(Add, NewContext,
              f.body.stmts \o (IF f.body.expr = NoExpr THEN <<>> ELSE <<value>>))

ScriptOf(f, c) == [params |-> f.params, body |-> StmtBlock(c.stmts)]

-----------------------------------------------------------------------------
(* Where hoisting changes nothing: what is hoisted passes over nothing that *)
(* could tell.                                                              *)

\* Does printing a node put statements in front of it?
RECURSIVE Hoists(_)

HoistsIn(block) ==
  \/ \E i \in DOMAIN block.stmts : Hoists(block.stmts[i])
  \/ block.expr # NoExpr /\ Hoists(block.expr)

Hoists(nd) ==
  CASE nd.n = "match"                      -> TRUE
    [] nd.n = "block"                      -> nd.stmts # <<>> \/ HoistsIn(nd)
    [] nd.n \in {"lit", "var", "while"}    -> FALSE
    [] nd.n = "field"                      -> Hoists(nd.base)
    [] nd.n \in {"op", "call"}             -> \E i \in DOMAIN nd.args : Hoists(nd.args[i])
    [] nd.n = "if"                         -> Hoists(nd.cond) \/ HoistsIn(nd.then) \/ HoistsIn(nd.els)
    [] nd.n \in {"let", "return", "expr"}  -> Hoists(nd.expr)
    [] nd.n = "assign"                     -> Hoists(nd.dst) \/ Hoists(nd.expr)

\* The variables assigned to in a node.
RECURSIVE Assigned(_)

AssignedIn(block) ==
  (UNION {Assigned(block.stmts[i]) : i \in DOMAIN block.stmts})
    \union (IF block.expr = NoExpr THEN {} ELSE Assigned(block.expr))

Assigned(nd) ==
  CASE nd.n \in {"lit", "var"}            -> {}
    [] nd.n = "field"                     -> Assigned(nd.base)
    [] nd.n \in {"op", "call"}            -> UNION {Assigned(nd.args[i]) : i \in DOMAIN nd.args}
    [] nd.n = "if"                        -> Assigned(nd.cond) \union AssignedIn(nd.then) \union AssignedIn(nd.els)
    [] nd.n = "match"                     -> Assigned(nd.scrut) \union
                                               UNION {AssignedIn(nd.arms[i].body) : i \in DOMAIN nd.arms}
    [] nd.n = "block"                     -> AssignedIn(nd)
    [] nd.n = "while"                     -> Assigned(nd.cond) \union AssignedIn(nd.body)
    [] nd.n \in {"let", "return", "expr"} -> Assigned(nd.expr)
    [] nd.n = "assign"                    -> {nd.dst} \union Assigned(nd.expr)

\* e has the same value after what is hoisted out of nd as before it.
Stays(e, nd) == e.n = "lit" \/ (e.n = "var" /\ e \notin Assigned(nd))

RECURSIVE InPlace(_)

InPlaceAll(es) ==
  \A j \in DOMAIN es :
    /\ InPlace(es[j])
    /\ Hoists(es[j]) => \A i \in 1 .. j - 1 : Stays(es[i], es[j])

\* Of statements that are printed together only the first may hoist.
InPlaceBlock(b) ==
  /\ \A j \in DOMAIN b.stmts : InPlace(b.stmts[j]) /\ (j > 1 => ~Hoists(b.stmts[j]))
  /\ b.expr # NoExpr => InPlace(b.expr)

InPlace(nd) ==
  CASE nd.n \in {"lit", "var"}            -> TRUE
    [] nd.n = "field"                     -> InPlace(nd.base)
    [] nd.n \in {"op", "call"}            -> InPlaceAll(nd.args)
    [] nd.n = "if"                        -> InPlace(nd.cond) /\ ~HoistsIn(nd.then) /\ ~HoistsIn(nd.els)
    [] nd.n = "match"                     ->
         /\ InPlace(nd.scrut)
         /\ \A i \in DOMAIN nd.arms :
              LET body == nd.arms[i].body
              IN /\ \A j \in DOMAIN body.stmts : ~Hoists(body.stmts[j])
                 /\ body.expr # NoExpr => InPlace(body.expr)
    [] nd.n = "block"                     -> InPlaceBlock(nd)
    [] nd.n = "while"                     -> InPlace(nd.cond) /\ InPlaceBlock(nd.body)
    [] nd.n \in {"let", "return", "expr"} -> InPlace(nd.expr)
    [] nd.n = "assign"                    -> InPlaceAll(<<nd.dst, nd.expr>>)

\* The statements of the function itself each follow what they hoisted.
HoistsInPlace(f) ==
  /\ \A i \in DOMAIN f.body.stmts : InPlace(f.body.stmts[i])
  /\ f.body.expr # NoExpr => InPlace(f.body.expr)
=============================================================================
