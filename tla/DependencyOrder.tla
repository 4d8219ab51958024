--------------------------- MODULE DependencyOrder ---------------------------
(***************************************************************************)
(* What the dependency graph of a build means, whatever computes it: the   *)
(* packages reached from another, the orders they can be built in and the  *)
(* graphs that have no such order.  IncrementalBuild walks a graph by      *)
(* these definitions; DepGraph models the loops of biwac_driver that       *)
(* compute them and is checked and proved against them.                    *)
(*                                                                         *)
(* A graph g maps every package to the set of its direct dependencies.     *)
(***************************************************************************)
CONSTANTS
  Package,      \* names of the directories under <root>/.biwa_build/deps
  Root          \* the package `biwac` is run on

All == Package \union {Root}

Closed(g, S) == \A r \in S : g[r] \subseteq S

\* The packages reachable from p: DepGraph::transitive_deps.
TransitiveDeps(g, p) ==
  {q \in Package : \A S \in SUBSET Package :
                      g[p] \subseteq S /\ Closed(g, S) => q \in S}

\* The packages of the graph: what `discover` visits from the root.
AllPackages(g) == TransitiveDeps(g, Root)

\* What topo_batches refuses: packages are left over that wait for each other.
Cyclic(g) ==
  \E S \in SUBSET AllPackages(g) : S # {} /\ \A p \in S : g[p] \cap S # {}

\* Mutant: one batch with the whole graph.
ReadyAll(g, done) == AllPackages(g) \ done

\* The next batch of topo_batches once the packages of `done` are built.
Ready(g, done) == {q \in AllPackages(g) \ done : g[q] \subseteq done}
=============================================================================
