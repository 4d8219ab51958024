----------------------------- MODULE LocalNames -----------------------------
(***************************************************************************)
(* The variables of a function: the context c in which its body is         *)
(* resolved.  scopes are the scopes that are open, the innermost last,     *)
(* each a function from names to variables; next is the number of the next *)
(* variable of the function; blocks are the blocks that are open, with the *)
(* kinds "stmt" (a statement: it has a scope), "arm" (of a match: it has   *)
(* one, too) and "expr" (an expression: it has none); errs whether an      *)
(* error was reported.                                                     *)
(*                                                                         *)
(* log is no part of the code: the declarations and uses in the order they *)
(* are written, with the variable each one got, 0 for none, and where the  *)
(* blocks begin and end.                                                   *)
(***************************************************************************)
EXTENDS Naturals, Sequences, FiniteSets, SequencesExt, FiniteSetsExt

CONSTANTS
  BodyNames,
  BodyParams,  \* the parameters of the function
  NotYet       \* what fnctx is while no body is resolved

\* A function with two parameters of one name is not entered.
ASSUME ParamsAssumption == BodyParams \in Seq(BodyNames) /\ IsInjective(BodyParams)

VARIABLE fnctx \* the context of the function whose body is resolved

Event(e, n, v) == [e |-> e, n |-> n, v |-> v]
Logged(c, e, n, v) == [c EXCEPT !.log = Append(@, Event(e, n, v))]

Visible(c, n) == {i \in DOMAIN c.scopes : n \in DOMAIN c.scopes[i]}

\* The innermost variable of that name, 0 if there is none.
VariableOf(c, n, visible) == IF visible = {} THEN 0 ELSE c.scopes[Max(visible)][n]
Lookup(c, n) == VariableOf(c, n, Visible(c, n))

\* A scope has one variable of a name.  The numbers are the function's.
DeclareVariable(c, n) ==
  IF n \in DOMAIN Last(c.scopes) THEN [Logged(c, "let", n, 0) EXCEPT !.errs = TRUE]
  ELSE [Logged(c, "let", n, c.next) EXCEPT
          !.scopes[Len(c.scopes)] = [x \in {n} \union DOMAIN @ |-> IF x = n THEN c.next ELSE @[x]],
          !.next = @ + 1]

\* The use of a name; isGlobal if it means something outside of the function.
ResolveName(c, n, isGlobal) ==
  [Logged(c, "use", n, Lookup(c, n)) EXCEPT !.errs = @ \/ (Lookup(c, n) = 0 /\ ~isGlobal)]

HasScope(kind) == kind \in {"stmt", "arm"}

OpenBlock(c, kind) ==
  [Logged(c, "open", kind, 0) EXCEPT
     !.blocks = Append(@, kind),
     !.scopes = IF HasScope(kind) THEN Append(@, <<>>) ELSE @]

\* Mutant: the numbers of the variables of a block are given back.
CloseBlockReusing(c) ==
  LET left == IF HasScope(Last(c.blocks)) THEN Front(c.scopes) ELSE c.scopes
  IN  [Logged(c, "close", Last(c.blocks), 0) EXCEPT
         !.blocks = Front(@),
         !.scopes = left,
         !.next = 1 + FoldLeft(LAMBDA n, s : n + Cardinality(DOMAIN s), 0, left)]

CloseBlock(c) ==
  [Logged(c, "close", Last(c.blocks), 0) EXCEPT
     !.blocks = Front(@),
     !.scopes = IF HasScope(Last(c.blocks)) THEN Front(@) ELSE @]

\* A declaration comes before its own initialiser.
ResolveVarDecl(c, n, init, isGlobal) == ResolveName(DeclareVariable(c, n), init, isGlobal)

\* An identifier as a pattern is a reference if it is resolved to a variant,
\* and declares a variable otherwise.
ResolveIdentPattern(c, n, isVariant) ==
  IF Lookup(c, n) = 0 /\ isVariant THEN Logged(c, "use", n, 0) ELSE DeclareVariable(c, n)

EmptyFnCtx == [scopes |-> <<<<>>>>, next |-> 1, blocks |-> <<>>, errs |-> FALSE, log |-> <<>>]

\* The context of a function with these parameters.
NewFnCtx(params) ==
  LET c[k \in 0 .. Len(params)] ==
        IF k = 0 THEN EmptyFnCtx ELSE DeclareVariable(c[k - 1], params[k])
  IN  c[Len(params)]

-----------------------------------------------------------------------------
(* The body of a function, written while it is resolved.  globals are the  *)
(* names that mean something outside of it, variants those of them that    *)
(* are variants.                                                           *)

BlockKind == {"stmt", "expr", "arm"}

Enters == fnctx = NotYet /\ fnctx' = NewFnCtx(BodyParams)

InBody == fnctx # NotYet

WriteOpen == InBody /\ \E kind \in BlockKind : fnctx' = OpenBlock(fnctx, kind)

WriteClose == InBody /\ fnctx.blocks # <<>> /\ fnctx' = CloseBlock(fnctx)

\* What an arm begins with is its pattern.
AtArm == fnctx.log # <<>> /\ Last(fnctx.log) = Event("open", "arm", 0)

\* The right side is a literal, or a variable.
WriteLet(globals) ==
  /\ InBody /\ ~AtArm
  /\ \E n \in BodyNames :
       \/ fnctx' = DeclareVariable(fnctx, n)
       \/ \E from \in BodyNames : fnctx' = ResolveVarDecl(fnctx, n, from, from \in globals)

WriteUse(globals) ==
  InBody /\ \E n \in BodyNames : fnctx' = ResolveName(fnctx, n, n \in globals)

\* A pattern is a name, or a variant with a name for its field, which is
\* never taken for a variant itself.
WritePattern(variants) ==
  /\ InBody /\ AtArm
  /\ \E n \in BodyNames, isField \in BOOLEAN :
       fnctx' = ResolveIdentPattern(fnctx, n, ~isField /\ n \in variants)

Leaves == InBody /\ fnctx.blocks = <<>> /\ fnctx' = NotYet

\* One body after the other, of any length, whatever is outside of them.
BodyNext ==
  \/ Enters \/ Leaves
  \/ WriteOpen \/ WriteClose
  \/ \E known \in SUBSET BodyNames : WriteLet(known) \/ WriteUse(known) \/ WritePattern(known)

BodySpec == fnctx = NotYet /\ [][BodyNext]_fnctx

-----------------------------------------------------------------------------
(* The body that was written: the block that is opened at j is open at i;  *)
(* the function itself, at 0, always is.                                   *)

Count(log, e, j, i) == Cardinality({k \in j .. i : log[k].e = e})
IsOpen(log, j, i) ==
  \/ j = 0
  \/ j > 0 /\ \A k \in j .. i - 1 : Count(log, "open", j, k) > Count(log, "close", j, k)

\* The blocks with a scope that are open at i.
ScopesOpenAt(log, i) ==
  {0} \union {j \in 1 .. i - 1 : log[j].e = "open" /\ HasScope(log[j].n) /\ IsOpen(log, j, i)}

\* The block that a declaration at i belongs to.
ScopeAt(log, i) == Max(ScopesOpenAt(log, i))

\* The declarations that were not refused, and those of n that can be seen at i.
Lets(log) == {d \in DOMAIN log : log[d].e = "let" /\ log[d].v # 0}
Seen(log, n, i) == {d \in Lets(log) : d < i /\ log[d].n = n /\ IsOpen(log, ScopeAt(log, d), i)}

Latest(log, n, i) == IF Seen(log, n, i) = {} THEN 0 ELSE log[Max(Seen(log, n, i))].v

UsesAreLatest(log) ==
  \A i \in DOMAIN log : log[i].e = "use" => log[i].v = Latest(log, log[i].n, i)

RefusedIfTwice(log) ==
  \A i \in DOMAIN log : log[i].e = "let" =>
    (log[i].v = 0 <=> \E d \in Seen(log, log[i].n, i) : ScopeAt(log, d) = ScopeAt(log, i))

NumbersAreOnce(log) == \A d, e \in Lets(log) : log[d].v = log[e].v => d = e

\* In the body of a function a name is the latest declaration of it in the
\* statement blocks and arms that are open; a declaration is refused only if
\* its own block has one of that name; and no variable is declared twice.  A
\* block that is an expression belongs to the block around it.
VariablesAreLexical ==
  InBody =>
    /\ UsesAreLatest(fnctx.log)
    /\ RefusedIfTwice(fnctx.log)
    /\ NumbersAreOnce(fnctx.log)
=============================================================================
