------------------------- MODULE MCIncrementalBuild -------------------------
(* Small instances of IncrementalBuild for TLC. *)
EXTENDS IncrementalBuildProofs

CONSTANTS a, b

\* A source tree that compiles; the others differ from it in one respect.
Base == [sig |-> 1, bound |-> FALSE, body |-> 1, exposes |-> TRUE,
         accepts |-> {FALSE}, main |-> FALSE, error |-> "none", rev |-> 1]

Plain      == Base
NewSig     == [Base EXCEPT !.sig = 2, !.rev = 2]
NewBody    == [Base EXCEPT !.body = 2, !.rev = 2]
NewBound   == [Base EXCEPT !.bound = TRUE, !.rev = 2]
Private    == [Base EXCEPT !.exposes = FALSE]
Unresolved == [Base EXCEPT !.sig = 2, !.error = "resolve", !.rev = 2]
IllTyped   == [Base EXCEPT !.sig = 2, !.error = "infer", !.rev = 2]
TraitCall  == [Base EXCEPT !.body = 2, !.error = "traitcall", !.rev = 2]

Scene      == [Base EXCEPT !.main = TRUE, !.exposes = FALSE]
Lenient    == [Scene EXCEPT !.accepts = BOOLEAN, !.rev = 2]
Diverging  == [Scene EXCEPT !.body = 2, !.error = "mono", !.rev = 2]

MCPackage == {a, b}
MCSource == {Plain, Private, NewSig, NewBody, NewBound, Unresolved, IllTyped,
             TraitCall, Scene, Lenient, Diverging}

\* The root uses a, and a may use b.
Chain == [p \in {Root, a, b} |->
            CASE p = Root -> {{a}} [] p = a -> {{b}, {}} [] p = b -> {{}}]

\* TypeScript: every error, interface changes two levels below the root.
TypeScriptSources ==
  [p \in {Root, a, b} |->
     CASE p = Root -> {Scene}
       [] p = a -> {Private, TraitCall}
       [] p = b -> {Plain, NewSig, IllTyped}]

\* Sources for the runs that look for one hazard each.
SmallSources(forA, forB) ==
  [p \in {Root, a, b} |->
     CASE p = Root -> {Scene} [] p = a -> forA [] p = b -> forB]
LiveSources     == SmallSources({Plain}, {Plain, IllTyped})
RejectedSources == SmallSources({Plain}, {Plain, IllTyped})
BoundSources    == SmallSources({Plain}, {Plain, NewBound})

\* a and b may come to depend on each other.
MaybeCyclic == [Chain EXCEPT ![b] = {{}, {a}}]

\* wasm: changes of bodies and bounds, errors of the playable root.
WasmSources ==
  [p \in {Root, a, b} |->
     CASE p = Root -> {Scene, Diverging}
       [] p = a -> {Plain}
       [] p = b -> {Plain, NewSig, NewBody, Unresolved}]

\* Start from sources written first, and a chain of two dependencies.
MCInit == /\ Init
          /\ \A p \in All : src[p].rev = 1
          /\ manifest[a] = {b} /\ compiler = 1

MCFairSpec == MCInit /\ [][Next]_vars /\ WF_vars(Driver)

MCSpec == MCInit /\ [][Next]_vars
=============================================================================
