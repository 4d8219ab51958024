------------------------ MODULE DependencyOrderProofs ------------------------
(***************************************************************************)
(* Lemmas about dependency graphs, for every set of packages.  The proofs  *)
(* about the loops of DepGraph and about the build both rest on them.      *)
(* Reachability is defined by closed sets, so none needs an induction.     *)
(***************************************************************************)
EXTENDS DependencyOrder, TLAPS

\* The dependencies of a package are packages.
LEMMA TransitiveDepsArePackages ==
  ASSUME NEW g, NEW p
  PROVE  TransitiveDeps(g, p) \subseteq Package
  BY DEF TransitiveDeps

\* TransitiveDeps(g, p) is the least closed set with the direct dependencies.
LEMMA TransitiveDepsLeast ==
  ASSUME NEW g, NEW p, NEW S \in SUBSET Package, g[p] \subseteq S, Closed(g, S)
  PROVE  TransitiveDeps(g, p) \subseteq S
  BY DEF TransitiveDeps

\* It has the direct dependencies and is closed itself.
LEMMA TransitiveDepsClosed ==
  ASSUME NEW g \in [All -> SUBSET Package], NEW p \in All
  PROVE  /\ g[p] \subseteq TransitiveDeps(g, p)
         /\ Closed(g, TransitiveDeps(g, p))
<1>1. g[p] \subseteq TransitiveDeps(g, p)
  BY DEF TransitiveDeps
<1>2. ASSUME NEW r \in TransitiveDeps(g, p), NEW q \in g[r]
      PROVE  q \in TransitiveDeps(g, p)
  <2>1. r \in Package /\ r \in All
    BY DEF TransitiveDeps, All
  <2>2. q \in Package
    BY <2>1
  <2>3. ASSUME NEW S \in SUBSET Package, g[p] \subseteq S, Closed(g, S)
        PROVE  q \in S
    <3>1. r \in S
      BY <2>3 DEF TransitiveDeps
    <3> QED
      BY <2>3, <3>1 DEF Closed
  <2> QED
    BY <2>2, <2>3 DEF TransitiveDeps
<1> QED
  BY <1>1, <1>2 DEF Closed

\* When no package is ready and none waits for another, all are done: the
\* loop of topo_batches leaves nothing behind.
LEMMA NothingLeft ==
  ASSUME NEW g \in [All -> SUBSET Package], NEW done,
         ~Cyclic(g), Ready(g, done) = {}
  PROVE  AllPackages(g) \subseteq done
<1> DEFINE S == AllPackages(g) \ done
<1>1. ASSUME NEW p \in S PROVE g[p] \cap S # {}
  <2>1. p \in AllPackages(g) /\ ~(g[p] \subseteq done)
    BY <1>1 DEF Ready
  <2>2. PICK r \in g[p] : r \notin done
    BY <2>1
  <2>3. r \in AllPackages(g)
    BY <2>1, <2>2, TransitiveDepsClosed, Root \in All DEF AllPackages, Closed, All
  <2> QED
    BY <2>2, <2>3
<1>2. S = {}
  BY <1>1 DEF Cyclic
<1> QED
  BY <1>2

\* A graph with more dependencies reaches more packages.
LEMMA AllPackagesMonotone ==
  ASSUME NEW g \in [All -> SUBSET Package], NEW h \in [All -> SUBSET Package],
         \A p \in All : g[p] \subseteq h[p]
  PROVE  AllPackages(g) \subseteq AllPackages(h)
<1>1. /\ g[Root] \subseteq AllPackages(h)
      /\ Closed(g, AllPackages(h))
  BY TransitiveDepsClosed, TransitiveDepsArePackages, Root \in All
     DEF AllPackages, Closed, All
<1> QED
  BY <1>1, TransitiveDepsLeast, TransitiveDepsArePackages DEF AllPackages

\* In a graph without a cycle no package depends on itself, however far.
LEMMA AcyclicReach ==
  ASSUME NEW g \in [All -> SUBSET Package], ~Cyclic(g), NEW p \in AllPackages(g)
  PROVE  p \notin TransitiveDeps(g, p)
<1> DEFINE S == {q \in AllPackages(g) : p \in TransitiveDeps(g, q)}
<1>1. /\ AllPackages(g) \subseteq Package
      /\ \A q \in AllPackages(g) : g[q] \subseteq AllPackages(g)
  BY TransitiveDepsClosed, TransitiveDepsArePackages, Root \in All
     DEF AllPackages, Closed, All
<1>2. ASSUME p \in TransitiveDeps(g, p), NEW q \in S
      PROVE  g[q] \cap S # {}
  <2> DEFINE U == g[q] \union UNION {TransitiveDeps(g, r) : r \in g[q]}
  <2>1. q \in All /\ g[q] \subseteq AllPackages(g) /\ g[q] \subseteq Package
    BY <1>1 DEF All
  <2>2. \A r \in g[q] : r \in All /\ g[r] \subseteq TransitiveDeps(g, r)
                        /\ Closed(g, TransitiveDeps(g, r))
    BY <2>1, TransitiveDepsClosed DEF All
  <2>3. U \in SUBSET Package
    BY <2>1, TransitiveDepsArePackages
  <2>4. Closed(g, U)
    BY <2>2 DEF Closed
  <2>5. p \in U
    <3> HIDE DEF U
    <3>1. g[q] \subseteq U
      BY DEF U
    <3> QED
      BY <2>3, <2>4, <3>1, TransitiveDepsLeast
  <2>6. PICK r \in g[q] : r = p \/ p \in TransitiveDeps(g, r)
    BY <2>5
  <2> QED
    BY <1>2, <2>1, <2>6
<1>3. ASSUME p \in TransitiveDeps(g, p)
      PROVE  Cyclic(g)
  <2>1. p \in S
    BY <1>3
  <2> QED
    BY <1>2, <1>3, <2>1 DEF Cyclic
<1> QED
  BY <1>3
=============================================================================
