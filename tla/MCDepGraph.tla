----------------------------- MODULE MCDepGraph -----------------------------
(* Small instances of DepGraph for TLC. *)
EXTENDS DepGraph

CONSTANTS a, b, c

MCPackage == {a, b, c}
MCVersion == {1, 2}

Any(p) == [name |-> p, min |-> 1, max |-> Absent]
Old(p) == [name |-> p, min |-> 1, max |-> 1]
New(p) == [name |-> p, min |-> 2, max |-> Absent]

MCEntries == UNION {{Any(p), Old(p), New(p)} : p \in MCPackage}

M(p, v, list) == [name |-> p, version |-> v, deps |-> list]

\* Chains, diamonds, cycles, a dependency on oneself, a name listed twice.
Shapes ==
  {M(a, 1, list) : list \in {<<>>, <<Any(b)>>, <<Any(b), Any(c)>>, <<Any(c), Any(c)>>}}
  \union {M(b, 1, list) : list \in {<<>>, <<Any(c)>>, <<Any(c), Any(a)>>}}
  \union {M(c, 1, list) : list \in {<<>>, <<Any(a)>>, <<Any(c)>>}}

ShapeRoots == {<<Any(a)>>, <<Any(a), Any(b)>>, <<Any(b), Any(c), Any(b)>>}

\* Versions, on disk and on the hub; b 2 has the id of a 1.
Versioned == {M(a, 1, <<Old(b)>>), M(a, 2, <<New(b), Any(c)>>),
              M(b, 1, <<>>), M(b, 2, <<>>), M(c, 1, <<>>)}

VersionRoots == {<<Any(a)>>, <<Old(a), New(b)>>}

\* Few manifests for the runs that look for one thing.
FewVersions == {M(a, 1, <<Old(b)>>), M(b, 1, <<>>), M(b, 2, <<>>)}
FewRoots == {<<Any(a), New(b)>>, <<Any(b)>>}

Numbered == [p \in MCPackage |-> [v \in MCVersion |->
               (CASE p = a -> 10 [] p = b -> 20 [] p = c -> 30) + v]]
Colliding == [Numbered EXCEPT ![b][2] = Numbered[a][1]]

MCManifests == Shapes \union Versioned
MCRootLists == ShapeRoots \union VersionRoots

\* One run without a hub over every graph of Shapes; a directory may hold a
\* package of another name, or be missing.
ShapesInit ==
  /\ hub = [p \in Package |-> {}] /\ rootDeps \in ShapeRoots
  /\ dir \in [Package -> Shapes \union {Absent}]
  /\ changes = MaxChanges /\ runs = MaxRuns - 1
  /\ InitFiles /\ InitDriver

\* Several runs with packages to fetch.
VersionsInit ==
  /\ dir \in {[p \in Package |-> Absent], [p \in Package |-> IF p = b THEN M(b, 1, <<>>) ELSE Absent]}
  /\ hub \in {[p \in Package |-> {m \in Versioned : m.name = p /\ m.version \in vs}] :
                vs \in {{1}, {1, 2}}}
  /\ rootDeps \in VersionRoots
  /\ Init

MCSpec == (ShapesInit \/ VersionsInit) /\ [][Next]_vars /\ WF_vars(Driver)

\* Everything has to be fetched, from a hub that has all.
FewInit ==
  /\ dir = [p \in Package |-> Absent]
  /\ hub = [p \in Package |-> {m \in FewVersions : m.name = p}]
  /\ Init

FewSpec == FewInit /\ [][Next]_vars
=============================================================================
