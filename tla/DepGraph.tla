------------------------------ MODULE DepGraph ------------------------------
(***************************************************************************)
(* DepGraph of biwac_driver with the fetcher it calls: `discover` walks    *)
(* the manifests under .biwa_build/deps breadth first and fetches what is  *)
(* missing from the hub, `topo_batches` orders the result (Kahn), and      *)
(* `transitive_deps` closes it.  A run of `biwac` can be killed; between   *)
(* runs the user edits manifests and directories and the hub gets new      *)
(* versions.                                                               *)
(***************************************************************************)
EXTENDS Naturals, Sequences, FiniteSets, DependencyOrder

CONSTANTS
  Version,      \* versions, as numbers in their order
  Entries,      \* the dependency entries manifests can hold
  Manifests,    \* the manifests packages can have
  RootLists,    \* the dependency lists the root can have
  IdOf,         \* PackageHashId::as_package_id of a name and a version
  Absent,       \* no such directory, no upper bound
  Partial,      \* a directory without biwa-package.json
  MaxChanges,   \* bound on the number of changes between runs
  MaxRuns       \* bound on the number of runs of `biwac`

\* A dependency of a manifest: a name and a range of versions.
Entry == [name : Package, min : Version, max : Version \union {Absent}]

Manifest == [name : Package, version : Version, deps : Seq(Entries)]

ASSUME GraphAssumption ==
  /\ Root \notin Package /\ IsFiniteSet(Package)
  /\ Version \subseteq Nat /\ Absent \notin Version
  /\ Entries \subseteq Entry
  /\ Manifests \subseteq Manifest /\ RootLists \subseteq Seq(Entries)
  /\ Absent \notin Manifests /\ Partial \notin Manifests /\ Absent # Partial
  /\ IdOf \in [Package -> [Version -> Nat]]
  /\ MaxChanges \in Nat /\ MaxRuns \in Nat

VARIABLES
  rootDeps,   \* dependencies named by the root's biwa-package.json
  dir,        \* .biwa_build/deps/<name>: its manifest, Partial or Absent
  hub,        \* versions of every package on the Biwa Package Hub
  phase,      \* where the run is
  queue,      \* QueueEntry's left to look at
  visited,    \* names taken from the queue
  cur,        \* the entry being looked at
  picked,     \* the manifest of the version being fetched
  next,       \* index of the dependency to put into the queue
  adjacency, pkgIds,          \* the fields of DepGraph
  inDegree, ready, batches,   \* the locals of topo_batches
  outcome,    \* how the last run ended, "none" once something has changed
  cut,        \* history: directories left behind by a fetch that did not end
  changes, runs               \* history: counters for the bounds

diskVars  == <<rootDeps, dir, hub>>
walkVars  == <<queue, visited, cur, picked, next, adjacency, pkgIds>>
orderVars == <<inDegree, ready, batches>>
vars == <<diskVars, phase, walkVars, orderVars, outcome, cut, changes, runs>>

Phase   == {"idle", "discover", "fetch", "read", "push", "order"}
Outcome == {"none", "running", "ok", "unfetched", "manifest", "collision",
            "cycle", "killed"}

Elements(s) == {s[i] : i \in DOMAIN s}
Names(list) == {list[i].name : i \in DOMAIN list}

-----------------------------------------------------------------------------
(* Fetching. *)

\* PackageVersion::in_range; the upper bound is inclusive.
InRange(v, e) == v >= e.min /\ (e.max # Absent => v <= e.max)

\* The newest version the requirer allows: Fetcher::fetch.
Newest(e) ==
  {m \in hub[e.name] :
     /\ InRange(m.version, e)
     /\ \A n \in hub[e.name] : InRange(n.version, e) => n.version <= m.version}

\* Mutant: a directory with a version out of range is fetched again.
MustFetchOutdated(e) ==
  \/ dir[e.name] = Absent
  \/ dir[e.name] \notin {Absent, Partial} /\ ~InRange(dir[e.name].version, e)

MustFetch(e) == dir[e.name] = Absent

-----------------------------------------------------------------------------
(* discover. *)

Start ==
  /\ phase = "idle" /\ runs < MaxRuns
  /\ runs' = runs + 1
  /\ phase' = "discover" /\ outcome' = "running"
  /\ queue' = rootDeps /\ visited' = {}
  /\ adjacency' = <<>> /\ pkgIds' = <<>>
  /\ inDegree' = <<>> /\ ready' = {} /\ batches' = <<>>
  /\ UNCHANGED <<diskVars, cur, picked, next, cut, changes>>

Fail(why) == phase' = "idle" /\ outcome' = why

\* Mutant: a name seen before is looked at but not taken from the queue.
SkipInPlace ==
  /\ phase = "discover" /\ queue # <<>>
  /\ Head(queue).name \in visited
  /\ UNCHANGED vars

\* A name seen before: `continue`.
Skip ==
  /\ phase = "discover" /\ queue # <<>>
  /\ Head(queue).name \in visited
  /\ queue' = Tail(queue)
  /\ UNCHANGED <<diskVars, phase, visited, cur, picked, next, adjacency, pkgIds,
                 orderVars, outcome, cut, changes, runs>>

\* A new name: its directory is there, or is fetched, or cannot be.
Take ==
  /\ phase = "discover" /\ queue # <<>>
  /\ LET e == Head(queue) IN
     /\ e.name \notin visited
     /\ visited' = visited \union {e.name}
     /\ queue' = Tail(queue)
     /\ cur' = e
     /\ \/ /\ ~MustFetch(e)
           /\ phase' = "read"
           /\ UNCHANGED <<dir, picked, outcome>>
        \/ /\ MustFetch(e)
           /\ picked' \in Newest(e)
           /\ dir' = [dir EXCEPT ![e.name] = Partial]
           /\ phase' = "fetch"
           /\ UNCHANGED outcome
        \/ \* no hub, an unknown package, no version in range
           /\ MustFetch(e)
           /\ Fail("unfetched")
           /\ UNCHANGED <<dir, picked>>
  /\ UNCHANGED <<rootDeps, hub, next, adjacency, pkgIds, orderVars, cut, changes,
                 runs>>

\* `git checkout` has put the files there.
Fetched ==
  /\ phase = "fetch"
  /\ dir' = [dir EXCEPT ![cur.name] = picked]
  /\ phase' = "read"
  /\ UNCHANGED <<rootDeps, hub, walkVars, orderVars, outcome, cut, changes, runs>>

\* What a fetch that does not end leaves: a directory that may already hold
\* biwa-package.json, of a checkout that lacks other files.
LeaveUnfinished ==
  /\ cut' = cut \union {cur.name}
  /\ dir' \in {dir, [dir EXCEPT ![cur.name] = picked]}

\* `git init`, `git fetch` or `git checkout` fails.
GitFails ==
  /\ phase = "fetch"
  /\ Fail("unfetched")
  /\ LeaveUnfinished
  /\ UNCHANGED <<rootDeps, hub, walkVars, orderVars, changes, runs>>

\* Mutant: ids are not compared.
CollidesNever(m, name) == FALSE

\* Another package of the graph has the same PackageId: id_owner.
Collides(m, name) ==
  \E q \in DOMAIN pkgIds \ {name} : pkgIds[q] = IdOf[m.name][m.version]

With(f, p, v) == [q \in DOMAIN f \union {p} |-> IF q = p THEN v ELSE f[q]]

\* Read the manifest and derive the id.
Read ==
  /\ phase = "read"
  /\ LET m == dir[cur.name] IN
     \/ /\ m = Partial
        /\ Fail("manifest")
        /\ UNCHANGED pkgIds
     \/ /\ m # Partial /\ Collides(m, cur.name)
        /\ Fail("collision")
        /\ UNCHANGED pkgIds
     \/ /\ m # Partial /\ ~Collides(m, cur.name)
        /\ phase' = "push"
        /\ pkgIds' = With(pkgIds, cur.name, IdOf[m.name][m.version])
        /\ UNCHANGED outcome
  /\ next' = 1
  /\ UNCHANGED <<diskVars, queue, visited, cur, picked, adjacency, orderVars,
                 cut, changes, runs>>

\* Mutant: what is put into the queue counts as visited.
PushMarkingVisited ==
  /\ phase = "push"
  /\ LET list == dir[cur.name].deps IN
     /\ next <= Len(list)
     /\ queue' = IF list[next].name \in visited THEN queue
                 ELSE Append(queue, list[next])
     /\ visited' = visited \union {list[next].name}
  /\ next' = next + 1
  /\ UNCHANGED <<diskVars, phase, cur, picked, adjacency, pkgIds, orderVars,
                 outcome, cut, changes, runs>>

\* Put the next dependency into the queue, unless its name was seen.
Push ==
  /\ phase = "push"
  /\ LET list == dir[cur.name].deps IN
     /\ next <= Len(list)
     /\ queue' = IF list[next].name \in visited THEN queue
                 ELSE Append(queue, list[next])
  /\ next' = next + 1
  /\ UNCHANGED <<diskVars, phase, visited, cur, picked, adjacency, pkgIds,
                 orderVars, outcome, cut, changes, runs>>

\* All are looked at: the package enters the graph.
EndPush ==
  /\ phase = "push"
  /\ LET list == dir[cur.name].deps IN
     /\ next > Len(list)
     /\ adjacency' = With(adjacency, cur.name,
                          [i \in DOMAIN list |-> list[i].name])
  /\ phase' = "discover"
  /\ UNCHANGED <<diskVars, queue, visited, cur, picked, pkgIds, next,
                 orderVars, outcome, cut, changes, runs>>

-----------------------------------------------------------------------------
(* topo_batches and transitive_deps. *)

\* How often the members of S occur in the dependency list of p.
Occurrences(p, S) == Cardinality({i \in DOMAIN adjacency[p] : adjacency[p][i] \in S})

\* Mutant: in_degree counts every dependency once.
InDegreesOfSets ==
  [p \in DOMAIN adjacency |-> Cardinality(Elements(adjacency[p]))]

InDegrees == [p \in DOMAIN adjacency |-> Len(adjacency[p])]

\* Leave the walk: the queue is empty, in_degree is counted.
BeginOrder ==
  /\ phase = "discover" /\ queue = <<>>
  /\ phase' = "order"
  /\ inDegree' = InDegrees
  /\ ready' = {p \in DOMAIN adjacency : InDegrees[p] = 0}
  /\ UNCHANGED <<diskVars, walkVars, batches, outcome, cut, changes, runs>>

\* Mutant: one finished dependency is enough.
NextReadyEager(degrees) ==
  {p \in DOMAIN degrees : Occurrences(p, ready) > 0}

\* The packages whose counter reaches zero in this round.
NextReady(degrees) ==
  {p \in DOMAIN degrees : Occurrences(p, ready) > 0 /\ degrees[p] = 0}

\* One round of the loop: `ready` becomes a batch.
Batch ==
  /\ phase = "order" /\ ready # {}
  /\ batches' = Append(batches, ready)
  /\ LET degrees == [p \in DOMAIN inDegree \ ready |->
                       inDegree[p] - Occurrences(p, ready)]
     IN inDegree' = degrees /\ ready' = NextReady(degrees)
  /\ UNCHANGED <<diskVars, phase, walkVars, outcome, cut, changes, runs>>

EndOrder ==
  /\ phase = "order" /\ ready = {}
  /\ phase' = "idle"
  /\ outcome' = IF DOMAIN inDegree = {} THEN "ok" ELSE "cycle"
  /\ UNCHANGED <<diskVars, walkVars, orderVars, cut, changes, runs>>

\* Mutant: what a dependency depends on is not put into the queue.
ClosureOfOneLevel(p) == Elements(adjacency[p])

\* The walk of transitive_deps, one level of its queue at a time.
ClosureOf(p) ==
  LET levels == Cardinality(DOMAIN adjacency)
      seen[n \in 0 .. levels] ==
        IF n = 0 THEN Elements(adjacency[p])
        ELSE seen[n - 1] \union UNION {Elements(adjacency[q]) : q \in seen[n - 1]}
  IN seen[levels]

-----------------------------------------------------------------------------
(* The environment. *)

\* The process dies.
Kill ==
  /\ phase # "idle"
  /\ Fail("killed")
  /\ IF phase = "fetch" THEN LeaveUnfinished ELSE UNCHANGED <<dir, cut>>
  /\ UNCHANGED <<rootDeps, hub, walkVars, orderVars, changes, runs>>

Change ==
  /\ phase = "idle" /\ changes < MaxChanges
  /\ changes' = changes + 1 /\ outcome' = "none"
  /\ UNCHANGED <<phase, walkVars, orderVars, runs>>

\* The user puts a version of a package into deps/, or removes it.
EditDir(p) ==
  /\ Change
  /\ \E m \in Manifests \union {Absent} :
       m # dir[p] /\ dir' = [dir EXCEPT ![p] = m]
  /\ cut' = cut \ {p}
  /\ UNCHANGED <<rootDeps, hub>>

\* The user changes the dependencies of the root.
EditRoot ==
  /\ Change
  /\ \E list \in RootLists : list # rootDeps /\ rootDeps' = list
  /\ UNCHANGED <<dir, hub, cut>>

\* Someone publishes a version of a package.
Publish(p) ==
  /\ Change
  /\ \E m \in Manifests :
       /\ m.name = p /\ \A n \in hub[p] : n.version # m.version
       /\ hub' = [hub EXCEPT ![p] = @ \union {m}]
  /\ UNCHANGED <<rootDeps, dir, cut>>

Driver == Start \/ Skip \/ Take \/ Fetched \/ GitFails
            \/ Read \/ Push \/ EndPush
            \/ BeginOrder \/ Batch \/ EndOrder

Environment == Kill \/ EditRoot \/ \E p \in Package : EditDir(p) \/ Publish(p)

NoEntry == [name |-> Absent, min |-> Absent, max |-> Absent]

\* Any user's directories and any hub, and no run yet.
InitFiles ==
  /\ rootDeps \in RootLists
  /\ dir \in [Package -> Manifests \union {Absent}]
  /\ hub \in [Package -> SUBSET Manifests]
  /\ \A p \in Package : \A m \in hub[p] :
       m.name = p /\ \A n \in hub[p] : n.version = m.version => n = m

InitDriver ==
  /\ phase = "idle" /\ outcome = "none"
  /\ queue = <<>> /\ visited = {} /\ cur = NoEntry
  /\ picked = Absent /\ next = 1
  /\ adjacency = <<>> /\ pkgIds = <<>>
  /\ inDegree = <<>> /\ ready = {} /\ batches = <<>>
  /\ cut = {}

Init == InitFiles /\ InitDriver /\ changes = 0 /\ runs = 0

Next == Driver \/ Environment

Spec == Init /\ [][Next]_vars

-----------------------------------------------------------------------------
(* Properties. *)

TypeOK ==
  /\ rootDeps \in RootLists
  /\ dir \in [Package -> Manifests \union {Absent, Partial}]
  /\ hub \in [Package -> SUBSET Manifests]
  /\ phase \in Phase /\ outcome \in Outcome
  /\ queue \in Seq(Entries) /\ visited \subseteq Package
  /\ cur \in Entries \union {NoEntry} /\ picked \in Manifests \union {Absent}
  /\ phase \in {"fetch", "read", "push"} => cur \in Entries
  /\ phase = "fetch" => picked \in Manifests
  /\ phase = "read" => dir[cur.name] # Absent
  /\ phase = "push" => dir[cur.name] \in Manifests
  /\ next \in Nat \ {0}
  /\ DOMAIN adjacency \subseteq Package
  /\ \A p \in DOMAIN adjacency : adjacency[p] \in Seq(Package)
  /\ DOMAIN pkgIds \subseteq Package
  /\ \A p \in DOMAIN pkgIds : pkgIds[p] \in Nat
  /\ DOMAIN inDegree \subseteq DOMAIN adjacency
  /\ \A p \in DOMAIN inDegree : inDegree[p] \in Nat
  /\ ready \subseteq Package /\ batches \in Seq(SUBSET Package)
  /\ cut \subseteq Package
  /\ changes \in Nat /\ runs \in Nat

\* The dependencies a directory with the content d names.
DepsOf(d) == IF d \in Manifests THEN Names(d.deps) ELSE {}

\* The graph that the manifests in the directories describe.
Disk == [p \in All |-> IF p = Root THEN Names(rootDeps) ELSE DepsOf(dir[p])]

Done == UNION Elements(batches)

\* The walk ends with exactly the packages the root reaches, each with its own
\* dependencies, whatever cycles, diamonds and repeated names there are.
\* (DepGraph::discover, all_packages)
GraphIsClosure ==
  phase = "order" =>
    /\ DOMAIN adjacency = AllPackages(Disk)
    /\ \A p \in DOMAIN adjacency : Elements(adjacency[p]) = Disk[p]

\* Every batch holds all the packages that wait for nothing but earlier
\* batches, and none twice: IncrementalBuild may take Ready for the next batch.
\* (DepGraph::topo_batches)
BatchesAreLevels ==
  phase = "order" =>
    /\ ready = Ready(Disk, Done)
    /\ \A i \in DOMAIN batches :
         batches[i] = Ready(Disk, UNION {batches[j] : j \in 1 .. i - 1})

\* A run is refused for a cycle exactly if there is one, and otherwise all
\* packages are in some batch.  (DepGraph::topo_batches)
CyclesAreRefused ==
  /\ outcome = "cycle" => Cyclic(Disk)
  /\ outcome = "ok" => ~Cyclic(Disk) /\ Done = AllPackages(Disk)

\* For a graph that is accepted, transitive_deps finds all that a package
\* reaches, and never the package itself.
ClosureIsReachability ==
  outcome = "ok" =>
    \A p \in DOMAIN adjacency :
      ClosureOf(p) = TransitiveDeps(Disk, p) /\ p \notin ClosureOf(p)

\* Two packages of an accepted graph never share the id that all their symbols
\* carry, nor do two names stand for one package.  (id_owner in discover)
IdsAreDistinct ==
  outcome = "ok" =>
    \A p, q \in DOMAIN pkgIds : p # q => pkgIds[p] # pkgIds[q]

\* What is in deps/ is never replaced by a run, whatever the hub offers and
\* whatever ranges the manifests name: the same tree builds the same versions.
\* (the is_dir test in discover)
KeepsWhatIsThere ==
  [][phase # "idle" =>
       \A p \in Package : dir[p] \in Manifests => dir'[p] = dir[p]]_vars

\* A run that is started ends: a package is looked at once, also in a cycle.
RunEnds == phase # "idle" ~> phase = "idle"

-----------------------------------------------------------------------------
(* What the documentation says and the code does not do. *)

Requirers == {<<Root, rootDeps>>}
  \union {<<p, dir[p].deps>> : p \in {q \in Package : dir[q] \in Manifests}}

\* "A name and the range of versions allowed": every package of an accepted
\* graph is in the range of everyone who requires it.
RangesAreRespected ==
  outcome = "ok" =>
    \A r \in Requirers : r[1] \in AllPackages(Disk) \union {Root} =>
      \A i \in DOMAIN r[2] : InRange(dir[r[2][i].name].version, r[2][i])

\* "A dependency that is not in deps/ is fetched": no run goes on with the
\* directory of a fetch that did not end as if the package were there.
UnfinishedFetchIsRetried ==
  phase = "read" => cur.name \notin cut
=============================================================================
