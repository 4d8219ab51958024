---------------------------- MODULE MirPipeline ----------------------------
(***************************************************************************)
(* The way of one function body from the typed tree to its target: it is   *)
(* lowered, validated, simplified until nothing changes or MaxRounds       *)
(* rounds have gone, and validated again; then, for WebAssembly, the MIR   *)
(* is given structured control flow, and for TypeScript the tree itself is *)
(* printed.  persist_mir of the driver runs the first part for every       *)
(* package and both targets.                                               *)
(* Monomorphisation, in between, changes the types in a body and which     *)
(* function a call names, not its blocks.                                  *)
(***************************************************************************)
EXTENDS MirBuild, SimplifyCfg, Structure, TypeScriptBody

CONSTANTS
  Sources,     \* the function bodies
  NoTree, NoScript

VARIABLES
  source,    \* the typed tree
  made,      \* what has been made of the simplified body, or why nothing was
  tree,      \* the structured form, NoTree before it is made
  script     \* what is printed as TypeScript, NoScript before

target == <<source, made, tree, script>>

vars == <<source, given, body, stage, round, changed, made, tree, script>>

Init ==
  /\ source \in Sources
  /\ SimplifyInit
  /\ made = "nothing"
  /\ tree = NoTree
  /\ script = NoScript

-----------------------------------------------------------------------------

Build == Begin(BuildBody(source)) /\ UNCHANGED target

\* One step of simplify_cfg.
Simplify ==
  /\ DoThreadGotos \/ DoCollapse \/ DoMerge \/ DoRemove
  /\ UNCHANGED target

DoStructure ==
  /\ stage = "simplified" /\ made = "nothing"
  /\ IF IsReducible(CfgOf(body.blocks))
     THEN made' = "tree" /\ tree' = Structured(body.blocks)
     ELSE made' = "irreducible" /\ UNCHANGED tree
  /\ UNCHANGED <<source, simplifyVars, script>>

\* A package for the TypeScript target: a body with a node that the generator
\* has no code for ends the compiler.
PrintScript ==
  /\ stage = "simplified" /\ made = "nothing"
  /\ LET c == PrintFn(source) IN
     IF c.died THEN made' = "unprinted" /\ UNCHANGED script
     ELSE made' = "script" /\ script' = ScriptOf(source, c)
  /\ UNCHANGED <<source, simplifyVars, tree>>

Next ==
  \/ Build
  \/ Simplify
  \/ DoStructure
  \/ PrintScript

Spec == Init /\ [][Next]_vars

-----------------------------------------------------------------------------
(* Properties *)

\* Neither the lowering nor the simplification makes a body that validation
\* refuses, and none has a loop with two entries: the errors that the code
\* reports as bugs of the compiler do not occur (validate, run_passes,
\* check_reducible).
NeverBroken == stage # "broken" /\ made # "irreducible"

\* The lowering and every single step of the simplification, in any round,
\* leave a body that makes the calls of the source in their order, with their
\* arguments, and ends as the source does.
MeaningKept ==
  stage # "build" => \A input \in Inputs : Run(body, input) = Meaning(source, input)

\* Every block of a body is in the tree exactly once: none is lost, and none
\* is copied.
EachBlockOnce ==
  made = "tree" =>
    LET in == BlocksIn(<<tree>>) IN
    /\ ToSet(in) = DOMAIN body.blocks
    /\ Len(in) = Len(body.blocks)

\* The tree does what the source does when a loop counts as one construct, as
\* it does for the builder of the tree.
TreeMeaningKept ==
  made = "tree" =>
    \A input \in Inputs : RunTree(body, tree, input, 1) = Meaning(source, input)

\* What is printed does what the source does, and so what the MIR does, when
\* nothing is hoisted over a call, an assignment or a value it could change, or
\* out of a branch: temporaries, chains of ifs, bindings and nested values are
\* right.
ScriptMeaningKept ==
  made = "script" /\ HoistsInPlace(source) =>
    \A input \in Inputs : Meaning(script, input) = Meaning(source, input)

\* The comment on Structured: a br counts the Blocks and the Loops around it in
\* the tree, as WebAssembly does - where each counts, and the tree still does
\* what the source does.
WasmMeaningKept ==
  made = "tree" =>
    \A input \in Inputs : RunTree(body, tree, input, 2) = Meaning(source, input)
=============================================================================
