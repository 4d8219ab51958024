----------------------------- MODULE MirMeaning -----------------------------
(***************************************************************************)
(* What a typed function body means: the reference that the lowering is    *)
(* held against.  What a MIR body does is in MirRun.                       *)
(*                                                                         *)
(* A function body is a tree of nodes, told apart by the field n.          *)
(*   expressions  [n |-> "lit", value]          [n |-> "var", x]           *)
(*                [n |-> "field", base, index]  [n |-> "op", op, args]     *)
(*                [n |-> "call", args]          [n |-> "if", cond, then,   *)
(*                els]  [n |-> "match", scrut, arms]  and blocks           *)
(*   blocks       [n |-> "block", stmts, expr], with NoExpr for expr when  *)
(*                the block is a statement                                 *)
(*   statements   [n |-> "expr", expr]          [n |-> "let", x, expr]     *)
(*                [n |-> "assign", dst, expr]   [n |-> "return", expr]     *)
(*                [n |-> "while", cond, body], and if, match and block     *)
(*   arms         [pat, body]; a pattern is <<"any">>, <<"bind", x>> or    *)
(*                <<"variant", tag, binds>>, binds having a variable or    *)
(*                NoVar for every field                                    *)
(* "op" stands for operators, struct literals and enum variants, "call"    *)
(* for calls of functions, of methods (the receiver first), of variables   *)
(* (the variable first) and novel calls.                                   *)
(***************************************************************************)
EXTENDS MirRun

CONSTANTS NoExpr, NoVar

-----------------------------------------------------------------------------
(* The source: operands from left to right, each with the value it has      *)
(* when its turn comes.                                                     *)

Bind(s, x, v) ==
  [s EXCEPT !.env = [y \in DOMAIN @ \union {x} |-> IF y = x THEN v ELSE @[y]]]

Store(s, dst, v) ==
  IF dst.n = "var" THEN Bind(s, dst.x, v)
  ELSE Bind(s, dst.base.x, [s.env[dst.base.x] EXCEPT !.fields[dst.index] = v])

Irrefutable(pat) == pat[1] \in {"any", "bind"}

\* The first arm that matches.
ArmFor(arms, v) ==
  LET fits == {i \in DOMAIN arms : Irrefutable(arms[i].pat) \/ arms[i].pat[2] = v.tag}
  IN arms[CHOOSE i \in fits : \A j \in fits : i <= j]

RECURSIVE BindFields(_, _, _)
BindFields(s, binds, vals) ==
  IF binds = <<>> THEN s
  ELSE BindFields(IF Head(binds) = NoVar THEN s ELSE Bind(s, Head(binds), Head(vals)),
                  Tail(binds), Tail(vals))

BindPattern(s, pat, v) ==
  CASE pat[1] = "any"     -> s
    [] pat[1] = "bind"    -> Bind(s, pat[2], v)
    [] pat[1] = "variant" -> BindFields(s, pat[3], v.fields)

RECURSIVE Eval(_, _, _), EvalAll(_, _, _), Exec(_, _, _), ExecAll(_, _, _)

EvalAll(es, s, input) ==
  IF es = <<>> THEN [s |-> s, vs |-> <<>>]
  ELSE LET h == Eval(Head(es), s, input)
           t == EvalAll(Tail(es), h.s, input)
       IN [s |-> t.s, vs |-> <<h.v>> \o t.vs]

\* The value of an expression, and the state it leaves.
Eval(e, s, input) ==
  CASE ~Going(s) \/ e = NoExpr -> [s |-> s, v |-> Unset]
    [] e.n = "lit"   -> [s |-> s, v |-> e.value]
    [] e.n = "var"   -> [s |-> s, v |-> s.env[e.x]]
    [] e.n = "block" -> Eval(e.expr, ExecAll(e.stmts, s, input), input)
    [] OTHER ->
         LET r == EvalAll(CASE e.n = "field"        -> <<e.base>>
                            [] e.n \in {"op", "call"} -> e.args
                            [] e.n = "if"           -> <<e.cond>>
                            [] e.n = "match"        -> <<e.scrut>>, s, input)
             arm == ArmFor(e.arms, r.vs[1])
         IN CASE ~Going(r.s)   -> [s |-> r.s, v |-> Unset]
              [] e.n = "field" -> [s |-> r.s, v |-> r.vs[1].fields[e.index]]
              [] e.n = "op"    -> [s |-> r.s, v |-> Compute(e.op, r.vs)]
              [] e.n = "call"  -> CallResult(r.s, r.vs, input)
              [] e.n = "if"    ->
                   Eval(IF r.vs[1].tag = 0 THEN e.els ELSE e.then, r.s, input)
              [] e.n = "match" ->
                   Eval(arm.body, BindPattern(r.s, arm.pat, r.vs[1]), input)

Exec(st, s, input) ==
  IF st.n \in {"if", "match", "block"} THEN Eval(st, s, input).s
  ELSE LET r == Eval(IF st.n = "while" THEN st.cond ELSE st.expr, s, input) IN
       CASE ~Going(r.s) -> r.s
         [] st.n = "expr"   -> r.s
         [] st.n = "let"    -> Bind(r.s, st.x, r.v)
         [] st.n = "assign" -> Store(r.s, st.dst, r.v)
         [] st.n = "return" -> [r.s EXCEPT !.end = "return", !.value = r.v]
         [] st.n = "while"  ->
              IF r.v.tag = 0 THEN r.s
              ELSE Exec(st, ExecAll(st.body.stmts, r.s, input), input)

ExecAll(stmts, s, input) ==
  IF stmts = <<>> \/ ~Going(s) THEN s
  ELSE ExecAll(Tail(stmts), Exec(Head(stmts), s, input), input)

\* A function is [params |-> sequence of variables, body |-> block].
Meaning(f, input) ==
  LET first == [env |-> [x \in ToSet(f.params) |->
                           input.args[CHOOSE i \in DOMAIN f.params : f.params[i] = x]],
                trace |-> <<>>, end |-> "run", value |-> Unset]
      last  == Eval(f.body, first, input)
  IN [trace |-> last.s.trace,
      end   |-> IF Going(last.s) THEN "return" ELSE last.s.end,
      value |-> IF Going(last.s) THEN last.v ELSE last.s.value]
=============================================================================
