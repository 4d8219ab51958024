-------------------------------- MODULE Hir --------------------------------
(***************************************************************************)
(* The resolved program: the nodes of a body and the declarations, as far  *)
(* as the types in them go.  Names are resolved, so that a variable is     *)
(* itself, and spans and ids are left out.                                 *)
(***************************************************************************)
EXTENDS Types

\* Instead of a type, where there is none.
CONSTANT NoTy

-----------------------------------------------------------------------------
(* Expressions *)

Literal(t)       == [n |-> "lit", ty |-> t]
Variable(x)      == [n |-> "var", x |-> x]
Unary(r)         == [n |-> "neg", right |-> r]
Binary(op, l, r) == [n |-> "bin", op |-> op, left |-> l, right |-> r]

MemberAccess(e, f)   == [n |-> "field", left |-> e, f |-> f]
MethodCall(e, name, as) == [n |-> "method", left |-> e, m |-> name, args |-> as]

FnCall(kind, f, self, as) ==
  [n |-> "call", kind |-> kind, f |-> f, self |-> self, args |-> as]

\* The members, or the fields of a variant, are [f |-> name, e |-> value]; the
\* shape of a variant is "unit", "tuple" or "named".
StructLiteral(ty, members) == [n |-> "struct", ty |-> ty, members |-> members]
VariantCtor(ty, v, shape, fields) ==
  [n |-> "variant", ty |-> ty, v |-> v, shape |-> shape, args |-> fields]

BlockExpr(ss, e)      == [n |-> "blockexpr", stmts |-> ss, expr |-> e]
IfExpr(cond, th, el)  == [n |-> "ifexpr", cond |-> cond, then |-> th, els |-> el]
MatchExpr(e, arms)    == [n |-> "match", scrut |-> e, arms |-> arms]
Arm(pat, body)        == [pat |-> pat, body |-> body]

\* What takes a value apart: the fields of a variant go to variables, "_" being
\* none.
Wildcard    == [n |-> "any"]
Binding(x)  == [n |-> "bind", x |-> x]
VariantPattern(ty, v, shape, binds) ==
  [n |-> "variant", ty |-> ty, v |-> v, shape |-> shape, binds |-> binds]

-----------------------------------------------------------------------------
(* Statements *)

VarDecl(x, e)      == [n |-> "let", x |-> x, init |-> e]
AssignStmt(dst, e) == [n |-> "assign", dst |-> dst, src |-> e]
ExprStmt(e)        == [n |-> "do", expr |-> e]
ReturnStmt(e)      == [n |-> "return", expr |-> e]
BlockStmt(ss)      == [n |-> "block", stmts |-> ss]
WhileStmt(cond, ss) == [n |-> "while", cond |-> cond, stmts |-> ss]
MatchStmt(e, arms) == [n |-> "matchstmt", scrut |-> e, arms |-> arms]
IfStmt(cond, th, hasElse, el) ==
  [n |-> "if", cond |-> cond, then |-> th, hasElse |-> hasElse, els |-> el]

FnBody(ss, e) == [stmts |-> ss, expr |-> e, hasExpr |-> TRUE]

-----------------------------------------------------------------------------
(* Declarations *)

\* self is what the receiver is declared to be, implSelf the type of the impl
\* block, either NoTy when there is none; igens and gens are the generic types
\* of the block and of the function, each with its bounds.
FnSignature(self, implSelf, args, rty, igens, gens) ==
  [self |-> self, implSelf |-> implSelf, args |-> args, rty |-> rty,
   igens |-> igens, gens |-> gens]

AllGens(sig) == sig.igens \o sig.gens

GenArgDef(id, bounds) == [id |-> id, bounds |-> bounds]
TraitCond(trait, args) == [trait |-> trait, args |-> args]

\* on is the type, and trait the trait, that the function belongs to, NoDef for
\* none; strs are its string constants in the pool of its package.
FnDef(pkg, on, trait, name, sig, params, body, strs) ==
  [sig |-> sig, params |-> params, mod |-> pkg, pkg |-> pkg, on |-> on, trait |-> trait,
   name |-> name, body |-> body, native |-> FALSE, strs |-> strs]

NativeFnDef(pkg, on, trait, name, sig) ==
  [FnDef(pkg, on, trait, name, sig, <<>>, <<>>, <<>>) EXCEPT !.native = TRUE]

StructDef(gens, members) == [kind |-> "struct", gens |-> gens, members |-> members]
EnumDef(gens, variants)  == [kind |-> "enum", gens |-> gens, variants |-> variants]
VariantDef(name, shape, fields) == [name |-> name, shape |-> shape, fields |-> fields]

TraitDef(gens, items) == [gens |-> gens, items |-> items]

\* trait[targs] for on[args].
TyTraitImpl(on, trait, args, targs, vals) ==
  [on |-> on, trait |-> trait, args |-> args, targs |-> targs, vals |-> vals]
=============================================================================
