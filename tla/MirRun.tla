------------------------------- MODULE MirRun -------------------------------
(***************************************************************************)
(* What a MIR body does when it is run.                                    *)
(*                                                                         *)
(* A value is [tag, fields].  An input gives the arguments and what each   *)
(* call returns.  A run is seen from outside: the calls it makes with      *)
(* their arguments, and how it ends - "return", "cut" at the first call    *)
(* the input has no result for, "trap", or "run" when it does not stop.    *)
(***************************************************************************)
EXTENDS Mir

CONSTANT Fuel   \* how many blocks a run is followed for

ASSUME FuelAssumption == Fuel \in Nat

IntVal(n) == [tag |-> n, fields |-> <<>>]
Unset     == IntVal(99)

Compute(op, vals) ==
  CASE op[1] = "use"  -> vals[1]
    [] op[1] = "tag"  -> IntVal(vals[1].tag)
    [] op[1] = "is"   -> IntVal(IF vals[1].tag = op[2] THEN 1 ELSE 0)
    [] op[1] = "bin"  -> IntVal((2 * vals[1].tag + vals[Len(vals)].tag) % 3)
    [] op[1] = "ctor" -> [tag |-> op[2], fields |-> vals]

Going(s) == s.end = "run"

\* A call of another function: its result, or the end of what is known.
CallResult(s, vals, input) ==
  LET n == Len(s.trace) + 1
      t == [s EXCEPT !.trace = Append(@, vals)]
  IN IF n \in DOMAIN input.results THEN [s |-> t, v |-> input.results[n]]
     ELSE [s |-> [t EXCEPT !.end = "cut"], v |-> Unset]

-----------------------------------------------------------------------------
(* Statements.  The state of a run is [env, trace, end]. *)

Project(v, path) ==
  LET at[n \in 0 .. Len(path)] == IF n = 0 THEN v ELSE at[n - 1].fields[path[n]]
  IN at[Len(path)]

Read(arg, env) ==
  IF arg.kind = "const" THEN arg.value ELSE Project(env[arg.local], arg.path)

ReadAll(args, env) == [i \in DOMAIN args |-> Read(args[i], env)]

Write(env, dest, v) ==
  [env EXCEPT ![dest.local] = IF dest.path = <<>> THEN v
                              ELSE [@ EXCEPT !.fields[dest.path[1]] = v]]

RunStmt(env, s) == Write(env, s.dest, Compute(s.op, ReadAll(s.args, env)))

RunStmts(stmts, env) ==
  LET after[n \in 0 .. Len(stmts)] == IF n = 0 THEN env ELSE RunStmt(after[n - 1], stmts[n])
  IN after[Len(stmts)]

\* The statements of a block, and the call it ends with.
RunBlock(block, c, input) ==
  LET d    == [c EXCEPT !.env = RunStmts(block.stmts, @)]
      term == block.term
  IN IF term.kind # "call" THEN d
     ELSE LET r == CallResult(d, ReadAll(term.args, d.env), input)
          IN IF Going(r.s) THEN [r.s EXCEPT !.env = Write(@, term.dest, r.v)] ELSE r.s

-----------------------------------------------------------------------------
(* Blocks.  A configuration has the block that comes next and the state. *)

IsHit(term, env) == Read(term.discr, env).tag = term.value

Step(blocks, c, input) ==
  IF ~Going(c.s) THEN c
  ELSE LET term  == blocks[c.at].term
           d     == RunBlock(blocks[c.at], c.s, input)
           To(b) == [at |-> b, s |-> d]
           End(e) == [at |-> c.at, s |-> [d EXCEPT !.end = e]]
       IN IF ~Going(d) THEN To(c.at)
          ELSE CASE term.kind \in {"goto", "call"} -> To(term.target)
                 [] term.kind = "switch" ->
                      To(IF IsHit(term, d.env) THEN term.hit ELSE term.otherwise)
                 [] term.kind = "return"      -> End("return")
                 [] OTHER -> End("trap")   \* unreachable

\* What c becomes in n blocks, or in fewer if it ends before.
After(blocks, c, input, n) ==
  LET after[k \in 0 .. n] == IF k = 0 THEN c ELSE Step(blocks, after[k - 1], input)
  IN after[n]

Entry(body, input) ==
  [trace |-> <<>>, end |-> "run",
   env |-> [l \in 0 .. body.locals - 1 |->
              IF l \in DOMAIN input.args THEN input.args[l] ELSE Unset]]

RunFor(body, input, n) ==
  After(body.blocks, [at |-> START, s |-> Entry(body, input)], input, n).s

Outcome(c) ==
  [trace |-> c.trace, end |-> c.end,
   value |-> IF c.end = "return" THEN c.env[RETURN] ELSE Unset]

Run(body, input) == Outcome(RunFor(body, input, Fuel))
=============================================================================
