--------------------------- MODULE DepGraphProofs ---------------------------
(***************************************************************************)
(* Theorems about DepGraph, for every set of packages, every manifest,     *)
(* every hub and any number of runs: the walk finds the packages the root  *)
(* reaches, and the order is the one the build relies on.                  *)
(***************************************************************************)
EXTENDS DepGraph, DependencyOrderProofs, Induction, FiniteSetTheorems,
        SequenceTheorems

(***************************************************************************)
(* The inductive invariant.                                                *)
(***************************************************************************)

\* The package in hand is visited, but not in the graph yet.
InHand == IF phase \in {"fetch", "read", "push"} THEN {cur.name} ELSE {}

\* The names the walk has met.
Listed == visited \union Names(queue)

\* The graph so far, and that nothing a manifest names is forgotten.
WalkInv ==
  /\ phase # "idle" =>
       /\ outcome = "running"
       /\ DOMAIN adjacency = visited \ InHand
       /\ InHand \subseteq visited
       /\ \A p \in DOMAIN adjacency :
            /\ dir[p] \in Manifests
            /\ adjacency[p] = [i \in DOMAIN dir[p].deps |-> dir[p].deps[i].name]
            /\ Names(dir[p].deps) \subseteq Listed
       /\ Names(rootDeps) \subseteq Listed
       /\ Listed \subseteq AllPackages(Disk)
  /\ phase = "fetch" => dir[cur.name] = Partial
  /\ phase = "push" =>
       \A i \in DOMAIN dir[cur.name].deps :
         i < next => dir[cur.name].deps[i].name \in Listed
  /\ phase = "order" => queue = <<>>

\* The dependencies in the list of p that are in no batch.
Pending(p) == {i \in DOMAIN adjacency[p] : adjacency[p][i] \notin Done}

\* S is a set of packages that wait for each other.
Waiting(S) == S \subseteq AllPackages(Disk) /\ \A p \in S : Disk[p] \cap S # {}

\* The counters, and what is in the batches.
OrderInv ==
  /\ phase \in {"discover", "fetch", "read", "push"} => batches = <<>>
  /\ phase = "order" =>
       /\ DOMAIN inDegree = DOMAIN adjacency \ Done
       /\ Done \subseteq DOMAIN adjacency
       /\ \A p \in DOMAIN inDegree : inDegree[p] = Cardinality(Pending(p))
       /\ ready = {p \in DOMAIN inDegree : inDegree[p] = 0}
       /\ \A i \in DOMAIN batches :
            batches[i] = Ready(Disk, UNION {batches[j] : j \in 1 .. i - 1})
       /\ \A S \in SUBSET Package : Waiting(S) => S \cap Done = {}

IInv == TypeOK /\ WalkInv /\ OrderInv /\ CyclesAreRefused

-----------------------------------------------------------------------------
(* Queues, dependency lists and graphs. *)

LEMMA EntryTypes ==
  ASSUME NEW e \in Entries
  PROVE  e.name \in Package /\ e # NoEntry
  BY GraphAssumption DEF Entry, NoEntry

LEMMA NamesTail ==
  ASSUME NEW q \in Seq(Entries), q # <<>>
  PROVE  /\ Head(q) \in Entries /\ Tail(q) \in Seq(Entries)
         /\ Names(q) = {Head(q).name} \union Names(Tail(q))
<1>1. /\ Len(q) \in Nat /\ Len(q) > 0 /\ DOMAIN q = 1 .. Len(q)
      /\ Head(q) = q[1] /\ q[1] \in Entries
      /\ Tail(q) \in Seq(Entries)
      /\ DOMAIN Tail(q) = 1 .. Len(q) - 1
      /\ \A i \in 1 .. Len(q) - 1 : Tail(q)[i] = q[i + 1]
  BY HeadTailProperties, EmptySeq, LenProperties
<1>2. ASSUME NEW i \in DOMAIN q
      PROVE  q[i].name \in {Head(q).name} \union Names(Tail(q))
  <2>1. CASE i = 1
    BY <1>1, <2>1
  <2>2. CASE i # 1
    <3>1. i - 1 \in DOMAIN Tail(q) /\ Tail(q)[i - 1] = q[i]
      BY <1>1, <2>2
    <3> QED
      BY <3>1 DEF Names
  <2> QED
    BY <2>1, <2>2
<1>3. ASSUME NEW i \in DOMAIN Tail(q)
      PROVE  Tail(q)[i].name \in Names(q)
  <2>1. i + 1 \in DOMAIN q /\ Tail(q)[i] = q[i + 1]
    BY <1>1
  <2> QED
    BY <2>1 DEF Names
<1>4. Head(q).name \in Names(q)
  BY <1>1 DEF Names
<1> QED
  BY <1>1, <1>2, <1>3, <1>4 DEF Names

LEMMA NamesAppend ==
  ASSUME NEW q \in Seq(Entries), NEW e \in Entries
  PROVE  /\ Append(q, e) \in Seq(Entries)
         /\ Names(Append(q, e)) = Names(q) \union {e.name}
<1>1. /\ Append(q, e) \in Seq(Entries) /\ Len(q) \in Nat
      /\ DOMAIN Append(q, e) = 1 .. Len(q) + 1 /\ DOMAIN q = 1 .. Len(q)
      /\ Append(q, e)[Len(q) + 1] = e
      /\ \A i \in 1 .. Len(q) : Append(q, e)[i] = q[i]
  BY AppendProperties, LenProperties
<1>2. DOMAIN Append(q, e) = DOMAIN q \union {Len(q) + 1}
  BY <1>1
<1> QED
  BY <1>1, <1>2 DEF Names

LEMMA NamesArePackages ==
  ASSUME NEW q \in Seq(Entries)
  PROVE  Names(q) \subseteq Package
<1>1. \A i \in DOMAIN q : q[i] \in Entries
  BY ElementOfSeq, LenProperties
<1> QED
  BY <1>1, EntryTypes DEF Names

LEMMA ManifestTypes ==
  ASSUME NEW m \in Manifests
  PROVE  /\ m.deps \in Seq(Entries) /\ Len(m.deps) \in Nat
         /\ DOMAIN m.deps = 1 .. Len(m.deps)
         /\ m # Absent /\ m # Partial
         /\ m.name \in Package /\ m.version \in Version
<1>1. m \in Manifest
  BY GraphAssumption
<1>2. m.deps \in Seq(Entries) /\ m.name \in Package /\ m.version \in Version
  BY <1>1 DEF Manifest
<1> QED
  BY <1>2, GraphAssumption, LenProperties

\* The names of a dependency list, as `discover` stores them.
LEMMA ListTypes ==
  ASSUME NEW list \in Seq(Entries)
  PROVE  LET names == [i \in DOMAIN list |-> list[i].name]
         IN  names \in Seq(Package) /\ Elements(names) = Names(list)
<1> DEFINE names == [i \in DOMAIN list |-> list[i].name]
<1>1. /\ Len(list) \in Nat /\ DOMAIN list = 1 .. Len(list)
      /\ \A i \in DOMAIN list : list[i] \in Entries
  BY ElementOfSeq, LenProperties
<1>2. \A i \in DOMAIN list : names[i] \in Package
  BY <1>1, EntryTypes
<1>3. names \in Seq(Package)
  BY <1>1, <1>2, IsASeq
<1>4. Elements(names) = Names(list)
  BY DEF Elements, Names
<1> QED
  BY <1>3, <1>4

\* The manifests describe a graph.
LEMMA DiskIsGraph ==
  ASSUME TypeOK
  PROVE  Disk \in [All -> SUBSET Package]
<1>1. Names(rootDeps) \subseteq Package
  BY NamesArePackages, GraphAssumption DEF TypeOK
<1>2. ASSUME NEW p \in Package, dir[p] \in Manifests
      PROVE  Names(dir[p].deps) \subseteq Package
  BY <1>2, ManifestTypes, NamesArePackages
<1> QED
  BY <1>1, <1>2 DEF Disk, DepsOf, All

-----------------------------------------------------------------------------
(* Types. *)

\* What a batch leaves in the counters.
LEMMA Counting ==
  ASSUME NEW p \in DOMAIN adjacency, adjacency[p] \in Seq(Package), NEW S, NEW T,
         S \cap T = {}
  PROVE  LET all == {i \in DOMAIN adjacency[p] : adjacency[p][i] \notin S}
         IN  /\ Cardinality(all) \in Nat /\ Occurrences(p, T) \in Nat
             /\ Cardinality({i \in DOMAIN adjacency[p] : adjacency[p][i] \notin S \union T})
                  = Cardinality(all) - Occurrences(p, T)
             /\ Cardinality(all) - Occurrences(p, T) \in Nat
             /\ Cardinality(all) = 0 <=> Elements(adjacency[p]) \subseteq S
<1> DEFINE D == DOMAIN adjacency[p]
           all == {i \in D : adjacency[p][i] \notin S}
           now == {i \in D : adjacency[p][i] \in T}
           left == {i \in D : adjacency[p][i] \notin S \union T}
<1>1. IsFiniteSet(D)
  BY LenProperties, FS_Interval, 1 \in Int
<1>2. IsFiniteSet(all) /\ IsFiniteSet(now) /\ IsFiniteSet(left)
  BY <1>1, FS_Subset
<1>3. now \subseteq all /\ left = all \ now /\ all \cap now = now
  OBVIOUS
<1>4. /\ Cardinality(all) \in Nat /\ Cardinality(now) \in Nat
      /\ Cardinality(left) \in Nat
  BY <1>2, FS_CardinalityType
<1>5. Cardinality(all \ now) = Cardinality(all) - Cardinality(all \cap now)
  BY <1>2, FS_Difference
<1>6. Cardinality(all) = 0 <=> all = {}
  BY <1>2, FS_EmptySet
<1>7. all = {} <=> Elements(adjacency[p]) \subseteq S
  BY DEF Elements
<1> QED
  BY <1>3, <1>4, <1>5, <1>6, <1>7 DEF Occurrences

LEMMA InitTypeOK == Init => TypeOK
<1> SUFFICES ASSUME Init PROVE TypeOK
  OBVIOUS
<1>1. <<>> \in Seq(Entries) /\ <<>> \in Seq(SUBSET Package)
  BY EmptySeq
<1>2. DOMAIN adjacency = {} /\ DOMAIN pkgIds = {} /\ DOMAIN inDegree = {}
  BY DEF Init, InitDriver
<1> QED
  BY <1>1, <1>2 DEF Init, InitFiles, InitDriver, TypeOK, Phase, Outcome

LEMMA StartType == TypeOK /\ Start => TypeOK'
<1> SUFFICES ASSUME TypeOK, Start PROVE TypeOK'
  OBVIOUS
<1>1. <<>> \in Seq(SUBSET Package) /\ DOMAIN <<>> = {}
  BY EmptySeq
<1>2. rootDeps \in Seq(Entries)
  BY GraphAssumption DEF TypeOK
<1> QED
  BY <1>1, <1>2 DEF TypeOK, Start, diskVars, Phase, Outcome

LEMMA SkipType == TypeOK /\ Skip => TypeOK'
  BY NamesTail DEF TypeOK, Skip, diskVars, orderVars

LEMMA TakeType == TypeOK /\ Take => TypeOK'
<1> SUFFICES ASSUME TypeOK, Take PROVE TypeOK'
  OBVIOUS
<1> DEFINE e == Head(queue)
<1>1. e \in Entries /\ Tail(queue) \in Seq(Entries) /\ e.name \in Package
  BY NamesTail, EntryTypes DEF TypeOK, Take
<1>2. /\ cur' = e /\ queue' = Tail(queue) /\ visited' = visited \union {e.name}
      /\ UNCHANGED <<rootDeps, hub, next, adjacency, pkgIds, inDegree, ready,
                     batches, cut, changes, runs>>
  BY DEF Take, orderVars
<1>3. CASE ~MustFetch(e) /\ phase' = "read" /\ UNCHANGED <<dir, picked, outcome>>
  BY <1>1, <1>2, <1>3 DEF TypeOK, Phase, MustFetch
<1>4. CASE /\ MustFetch(e) /\ picked' \in Newest(e)
           /\ dir' = [dir EXCEPT ![e.name] = Partial]
           /\ phase' = "fetch" /\ UNCHANGED outcome
  <2>1. picked' \in Manifests
    BY <1>1, <1>4 DEF Newest, TypeOK
  <2> QED
    BY <1>1, <1>2, <1>4, <2>1 DEF TypeOK, Phase
<1>5. CASE Fail("unfetched") /\ UNCHANGED <<dir, picked>>
  BY <1>1, <1>2, <1>5 DEF TypeOK, Phase, Outcome, Fail
<1> QED
  BY <1>3, <1>4, <1>5 DEF Take

LEMMA FetchedType == TypeOK /\ Fetched => TypeOK'
<1> SUFFICES ASSUME TypeOK, Fetched PROVE TypeOK'
  OBVIOUS
<1>1. cur.name \in Package /\ picked \in Manifests /\ picked # Absent
  BY EntryTypes, ManifestTypes DEF TypeOK, Fetched
<1> QED
  BY <1>1 DEF TypeOK, Fetched, walkVars, orderVars, Phase

LEMMA LeaveUnfinishedType ==
  ASSUME TypeOK, phase = "fetch", LeaveUnfinished
  PROVE  /\ dir' \in [Package -> Manifests \union {Absent, Partial}]
         /\ cut' \subseteq Package
  BY EntryTypes DEF TypeOK, LeaveUnfinished

LEMMA GitFailsType == TypeOK /\ GitFails => TypeOK'
  BY LeaveUnfinishedType
     DEF TypeOK, GitFails, Fail, walkVars, orderVars, Phase, Outcome

LEMMA KillType == TypeOK /\ Kill => TypeOK'
<1> SUFFICES ASSUME TypeOK, Kill PROVE TypeOK'
  OBVIOUS
<1>1. /\ dir' \in [Package -> Manifests \union {Absent, Partial}]
      /\ cut' \subseteq Package
  BY LeaveUnfinishedType DEF TypeOK, Kill
<1> QED
  BY <1>1 DEF TypeOK, Kill, Fail, walkVars, orderVars, Phase, Outcome

LEMMA ReadType == TypeOK /\ Read => TypeOK'
<1> SUFFICES ASSUME TypeOK, Read PROVE TypeOK'
  OBVIOUS
<1> DEFINE m == dir[cur.name]
<1>1. /\ cur \in Entries /\ cur.name \in Package
      /\ m \in Manifests \union {Partial}
  BY EntryTypes DEF TypeOK, Read
<1>2. /\ next' = 1
      /\ UNCHANGED <<rootDeps, dir, hub, queue, visited, cur, picked, adjacency,
                     inDegree, ready, batches, cut, changes, runs>>
  BY DEF Read, diskVars, orderVars
<1>3. CASE phase' = "idle" /\ outcome' \in Outcome /\ UNCHANGED pkgIds
  BY <1>2, <1>3 DEF TypeOK, Phase
<1>4. CASE /\ m # Partial /\ phase' = "push" /\ UNCHANGED outcome
           /\ pkgIds' = With(pkgIds, cur.name, IdOf[m.name][m.version])
  <2>1. m \in Manifests
    BY <1>1, <1>4
  <2>2. IdOf[m.name][m.version] \in Nat
    BY <2>1, ManifestTypes, GraphAssumption
  <2>3. DOMAIN pkgIds' \subseteq Package /\ \A p \in DOMAIN pkgIds' : pkgIds'[p] \in Nat
    BY <1>1, <1>4, <2>2 DEF TypeOK, With
  <2>4. phase' = "push" /\ UNCHANGED outcome
    BY <1>4
  <2> QED
    BY <1>1, <1>2, <2>1, <2>3, <2>4 DEF TypeOK, Phase
<1> QED
  BY <1>3, <1>4 DEF Read, Fail, Outcome

LEMMA PushType == TypeOK /\ Push => TypeOK'
<1> SUFFICES ASSUME TypeOK, Push PROVE TypeOK'
  OBVIOUS
<1> DEFINE list == dir[cur.name].deps
<1>1. list \in Seq(Entries) /\ next \in 1 .. Len(list) /\ next' \in Nat \ {0}
  BY ManifestTypes DEF TypeOK, Push
<1>2. list[next] \in Entries
  BY <1>1, ElementOfSeq
<1>3. queue' \in Seq(Entries)
  BY <1>1, <1>2, NamesAppend DEF TypeOK, Push
<1> QED
  BY <1>1, <1>3 DEF TypeOK, Push, diskVars, orderVars

LEMMA EndPushType == TypeOK /\ EndPush => TypeOK'
<1> SUFFICES ASSUME TypeOK, EndPush PROVE TypeOK'
  OBVIOUS
<1> DEFINE list == dir[cur.name].deps
           names == [i \in DOMAIN list |-> list[i].name]
<1>1. cur.name \in Package /\ names \in Seq(Package)
  BY EntryTypes, ManifestTypes, ListTypes DEF TypeOK, EndPush
<1>2. adjacency' = With(adjacency, cur.name, names) /\ phase' = "discover"
  BY DEF EndPush
<1>3. /\ DOMAIN adjacency' = DOMAIN adjacency \union {cur.name}
      /\ \A p \in DOMAIN adjacency' : adjacency'[p] \in Seq(Package)
  BY <1>1, <1>2 DEF TypeOK, With
<1> QED
  BY <1>1, <1>2, <1>3 DEF TypeOK, EndPush, diskVars, orderVars, Phase

LEMMA BeginOrderType == TypeOK /\ BeginOrder => TypeOK'
<1> SUFFICES ASSUME TypeOK, BeginOrder PROVE TypeOK'
  OBVIOUS
<1>1. /\ DOMAIN inDegree' = DOMAIN adjacency /\ ready' \subseteq DOMAIN adjacency
      /\ \A p \in DOMAIN inDegree' : inDegree'[p] = Len(adjacency[p])
  BY DEF BeginOrder, InDegrees
<1>2. \A p \in DOMAIN inDegree' : inDegree'[p] \in Nat
  BY <1>1, LenProperties DEF TypeOK
<1> QED
  BY <1>1, <1>2 DEF TypeOK, BeginOrder, diskVars, walkVars, Phase

\* A counter never falls below zero: a package is in one batch only.
LEMMA BatchCounters ==
  ASSUME TypeOK, OrderInv, Batch, NEW p \in DOMAIN inDegree \ ready
  PROVE  LET left == {i \in DOMAIN adjacency[p] : adjacency[p][i] \notin Done \union ready}
         IN  /\ inDegree'[p] = inDegree[p] - Occurrences(p, ready)
             /\ inDegree'[p] \in Nat
             /\ inDegree'[p] = Cardinality(left)
             /\ Occurrences(p, ready) \in Nat /\ inDegree[p] \in Nat
<1> DEFINE left == {i \in DOMAIN adjacency[p] : adjacency[p][i] \notin Done \union ready}
<1>1. /\ p \in DOMAIN adjacency /\ adjacency[p] \in Seq(Package)
      /\ Done \cap ready = {} /\ inDegree[p] = Cardinality(Pending(p))
  BY DEF TypeOK, OrderInv, Batch
<1>2. inDegree'[p] = inDegree[p] - Occurrences(p, ready)
  BY DEF Batch
<1>3. /\ Cardinality(Pending(p)) \in Nat /\ Occurrences(p, ready) \in Nat
      /\ Cardinality(left) = Cardinality(Pending(p)) - Occurrences(p, ready)
      /\ Cardinality(Pending(p)) - Occurrences(p, ready) \in Nat
  <2> HIDE DEF left
  <2> QED
    BY <1>1, Counting, Zenon DEF Pending, left
<1> QED
  BY <1>1, <1>2, <1>3

LEMMA BatchType == TypeOK /\ OrderInv /\ Batch => TypeOK'
<1> SUFFICES ASSUME TypeOK, OrderInv, Batch PROVE TypeOK'
  OBVIOUS
<1>1. DOMAIN inDegree' = DOMAIN inDegree \ ready
  BY DEF Batch
<1>2. \A p \in DOMAIN inDegree' : inDegree'[p] \in Nat
  BY <1>1, BatchCounters
<1>3. ready' \subseteq DOMAIN inDegree'
  BY <1>1 DEF Batch, NextReady
<1>4. batches' \in Seq(SUBSET Package)
  BY AppendProperties DEF Batch, TypeOK
<1> QED
  BY <1>1, <1>2, <1>3, <1>4 DEF TypeOK, Batch, diskVars, walkVars

LEMMA EndOrderType == TypeOK /\ EndOrder => TypeOK'
  BY DEF TypeOK, EndOrder, diskVars, walkVars, orderVars, Phase, Outcome

LEMMA EnvironmentType ==
  ASSUME TypeOK, EditRoot \/ \E p \in Package : EditDir(p) \/ Publish(p)
  PROVE  TypeOK'
<1>1. CASE EditRoot
  BY <1>1 DEF TypeOK, EditRoot, Change, walkVars, orderVars, Outcome
<1>2. ASSUME NEW p \in Package, EditDir(p) PROVE TypeOK'
  BY <1>2 DEF TypeOK, EditDir, Change, walkVars, orderVars, Outcome
<1>3. ASSUME NEW p \in Package, Publish(p) PROVE TypeOK'
  BY <1>3 DEF TypeOK, Publish, Change, walkVars, orderVars, Outcome
<1> QED
  BY <1>1, <1>2, <1>3

LEMMA NextType == TypeOK /\ OrderInv /\ [Next]_vars => TypeOK'
<1> SUFFICES ASSUME TypeOK, OrderInv, [Next]_vars PROVE TypeOK'
  OBVIOUS
<1>1. CASE UNCHANGED vars
  BY <1>1 DEF TypeOK, vars, diskVars, walkVars, orderVars
<1>2. CASE Driver
  BY <1>2, StartType, SkipType, TakeType, FetchedType, GitFailsType, ReadType,
     PushType, EndPushType, BeginOrderType, BatchType, EndOrderType DEF Driver
<1>3. CASE Environment
  BY <1>3, KillType, EnvironmentType DEF Environment
<1> QED
  BY <1>1, <1>2, <1>3 DEF Next

-----------------------------------------------------------------------------
(* The walk. *)

LEMMA SameDisk ==
  ASSUME UNCHANGED <<rootDeps, dir>>
  PROVE  Disk' = Disk /\ AllPackages(Disk)' = AllPackages(Disk)
  BY DEF Disk, DepsOf, Names, AllPackages, TransitiveDeps, Closed

LEMMA DiskStaysGraph ==
  ASSUME TypeOK'
  PROVE  Disk' \in [All -> SUBSET Package]
<1>1. Names(rootDeps') \subseteq Package
  BY NamesArePackages, GraphAssumption DEF TypeOK
<1>2. ASSUME NEW p \in Package, dir'[p] \in Manifests
      PROVE  Names(dir'[p].deps) \subseteq Package
  BY <1>2, ManifestTypes, NamesArePackages
<1> QED
  BY <1>1, <1>2 DEF Disk, DepsOf, All

\* What the root and the packages it reaches depend on is reached.
LEMMA Reached ==
  ASSUME TypeOK
  PROVE  /\ Names(rootDeps) \subseteq AllPackages(Disk)
         /\ \A p \in AllPackages(Disk) :
              dir[p] \in Manifests => Names(dir[p].deps) \subseteq AllPackages(Disk)
         /\ AllPackages(Disk) \subseteq Package
<1>1. /\ Disk[Root] \subseteq AllPackages(Disk)
      /\ Closed(Disk, AllPackages(Disk))
      /\ AllPackages(Disk) \subseteq Package
  BY DiskIsGraph, TransitiveDepsClosed, TransitiveDepsArePackages
     DEF AllPackages, All
<1>2. Disk[Root] = Names(rootDeps)
  BY DEF Disk, All
<1>3. \A p \in Package : dir[p] \in Manifests => Disk[p] = Names(dir[p].deps)
  BY GraphAssumption DEF Disk, DepsOf, All
<1> QED
  BY <1>1, <1>2, <1>3 DEF Closed

LEMMA StartWalk == TypeOK /\ Start => WalkInv'
<1> SUFFICES ASSUME TypeOK, Start PROVE WalkInv'
  OBVIOUS
<1>1. /\ phase' = "discover" /\ outcome' = "running" /\ visited' = {}
      /\ queue' = rootDeps /\ adjacency' = <<>> /\ UNCHANGED <<rootDeps, dir>>
  BY DEF Start, diskVars
<1>2. DOMAIN <<>> = {}
  BY EmptySeq
<1>3. Listed' = Names(rootDeps) /\ Names(rootDeps)' = Names(rootDeps)
  BY <1>1 DEF Listed, Names
<1> QED
  BY <1>1, <1>2, <1>3, Reached, SameDisk DEF WalkInv, InHand

\* A step that leaves the directories alone and forgets no name.
LEMMA WalkStep ==
  ASSUME WalkInv, phase # "idle", UNCHANGED <<rootDeps, dir, adjacency, outcome>>,
         Listed' = Listed, DOMAIN adjacency = visited' \ InHand',
         InHand' \subseteq visited'
  PROVE  /\ outcome' = "running"
         /\ DOMAIN adjacency' = visited' \ InHand'
         /\ InHand' \subseteq visited'
         /\ \A p \in DOMAIN adjacency' :
              /\ dir'[p] \in Manifests
              /\ adjacency'[p] = [i \in DOMAIN dir'[p].deps |-> dir'[p].deps[i].name]
              /\ Names(dir'[p].deps) \subseteq Listed'
         /\ Names(rootDeps') \subseteq Listed'
         /\ Listed' \subseteq AllPackages(Disk)'
  BY SameDisk DEF WalkInv

LEMMA SkipWalk == TypeOK /\ WalkInv /\ Skip => WalkInv'
<1> SUFFICES ASSUME TypeOK, WalkInv, Skip PROVE WalkInv'
  OBVIOUS
<1>1. Names(queue) = {Head(queue).name} \union Names(queue')
  BY NamesTail DEF TypeOK, Skip
<1>2. Listed' = Listed /\ InHand' = {} /\ InHand = {}
  BY <1>1 DEF Listed, InHand, Skip, Names
<1>3. UNCHANGED <<rootDeps, dir, adjacency, outcome, phase, visited>> /\ phase = "discover"
  BY DEF Skip, diskVars
<1> QED
  BY <1>2, <1>3, WalkStep DEF WalkInv, Names

LEMMA TakeWalk == TypeOK /\ WalkInv /\ Take => WalkInv'
<1> SUFFICES ASSUME TypeOK, WalkInv, Take PROVE WalkInv'
  OBVIOUS
<1> DEFINE e == Head(queue)
<1>1. /\ phase = "discover" /\ e.name \notin visited /\ cur' = e
      /\ visited' = visited \union {e.name} /\ queue' = Tail(queue)
      /\ UNCHANGED <<rootDeps, adjacency>>
  BY DEF Take
<1>2. e.name \in Package /\ Names(queue) = {e.name} \union Names(Tail(queue))
  BY NamesTail, EntryTypes DEF TypeOK, Take
<1>3. Listed' = Listed
  BY <1>1, <1>2 DEF Listed, Names
<1>4. CASE phase' = "read" /\ UNCHANGED <<dir, outcome>>
  <2>1. InHand = {} /\ InHand' = {e.name}
    BY <1>1, <1>4 DEF InHand
  <2>2. DOMAIN adjacency = visited' \ InHand' /\ InHand' \subseteq visited'
    BY <1>1, <2>1 DEF WalkInv
  <2> QED
    BY <1>1, <1>3, <1>4, <2>2, WalkStep DEF WalkInv, Names
<1>5. CASE /\ dir[e.name] = Absent /\ dir' = [dir EXCEPT ![e.name] = Partial]
           /\ phase' = "fetch" /\ UNCHANGED outcome
  <2>1. InHand = {} /\ InHand' = {e.name}
    BY <1>1, <1>5 DEF InHand
  <2>2. /\ dir'[e.name] = Partial
        /\ \A p \in Package \ {e.name} : dir'[p] = dir[p]
    BY <1>2, <1>5 DEF TypeOK
  <2>3. Disk' = Disk
    <3>1. DepsOf(Absent) = DepsOf(Partial)
      BY GraphAssumption DEF DepsOf
    <3>2. \A p \in Package : DepsOf(dir'[p]) = DepsOf(dir[p])
      BY <1>5, <2>2, <3>1
    <3> QED
      BY <1>1, <3>2 DEF Disk, Names, All
  <2>4. AllPackages(Disk)' = AllPackages(Disk)
    BY <2>3 DEF AllPackages, TransitiveDeps, Closed
  <2>5. \A p \in DOMAIN adjacency : p \in Package /\ p # e.name
    BY <1>1, <2>1 DEF TypeOK, WalkInv
  <2>6. \A p \in DOMAIN adjacency' :
          /\ dir'[p] \in Manifests
          /\ adjacency'[p] = [i \in DOMAIN dir'[p].deps |-> dir'[p].deps[i].name]
          /\ Names(dir'[p].deps) \subseteq Listed'
    BY <1>1, <1>3, <2>2, <2>5 DEF WalkInv
  <2>7. /\ outcome' = "running" /\ DOMAIN adjacency' = visited' \ InHand'
        /\ InHand' \subseteq visited'
        /\ Names(rootDeps)' \subseteq Listed'
        /\ Listed' \subseteq AllPackages(Disk)'
    BY <1>1, <1>3, <1>5, <2>1, <2>4 DEF WalkInv, Names
  <2> QED
    BY <1>1, <1>5, <2>2, <2>6, <2>7 DEF WalkInv, Names
<1>6. CASE phase' = "idle"
  BY <1>6 DEF WalkInv
<1> QED
  BY <1>4, <1>5, <1>6 DEF Take, MustFetch, Fail

LEMMA FetchedWalk == TypeOK /\ TypeOK' /\ WalkInv /\ Fetched => WalkInv'
<1> SUFFICES ASSUME TypeOK, TypeOK', WalkInv, Fetched PROVE WalkInv'
  OBVIOUS
<1>1. /\ phase = "fetch" /\ phase' = "read" /\ dir[cur.name] = Partial
      /\ dir' = [dir EXCEPT ![cur.name] = picked]
      /\ UNCHANGED <<rootDeps, visited, queue, cur, adjacency, outcome>>
  BY DEF Fetched, walkVars, WalkInv
<1>2. \A p \in Package \ {cur.name} : dir'[p] = dir[p]
  BY <1>1 DEF TypeOK
<1>3. AllPackages(Disk) \subseteq AllPackages(Disk)'
  <2>1. DepsOf(Partial) = {}
    BY GraphAssumption DEF DepsOf
  <2>2. \A p \in Package : DepsOf(dir[p]) \subseteq DepsOf(dir'[p])
    BY <1>1, <1>2, <2>1
  <2>3. \A p \in All : Disk[p] \subseteq Disk'[p]
    BY <1>1, <2>2 DEF Disk, Names, All
  <2>4. Disk \in [All -> SUBSET Package] /\ Disk' \in [All -> SUBSET Package]
    BY DiskIsGraph, DiskStaysGraph
  <2> QED
    BY <2>3, <2>4, AllPackagesMonotone
<1>4. InHand = {cur.name} /\ InHand' = {cur.name} /\ Listed' = Listed
  BY <1>1 DEF InHand, Listed, Names
<1>5. \A p \in DOMAIN adjacency : p \in Package /\ dir'[p] = dir[p]
  BY <1>1, <1>2, <1>4 DEF TypeOK, WalkInv
<1>6. \A p \in DOMAIN adjacency' :
        /\ dir'[p] \in Manifests
        /\ adjacency'[p] = [i \in DOMAIN dir'[p].deps |-> dir'[p].deps[i].name]
        /\ Names(dir'[p].deps) \subseteq Listed'
  BY <1>1, <1>4, <1>5 DEF WalkInv
<1>7. /\ outcome' = "running" /\ DOMAIN adjacency' = visited' \ InHand'
      /\ InHand' \subseteq visited'
      /\ Names(rootDeps)' \subseteq Listed'
      /\ Listed' \subseteq AllPackages(Disk)'
  BY <1>1, <1>3, <1>4 DEF WalkInv, Names
<1> QED
  BY <1>1, <1>6, <1>7 DEF WalkInv, Names

LEMMA ReadWalk == TypeOK /\ WalkInv /\ Read => WalkInv'
<1> SUFFICES ASSUME TypeOK, WalkInv, Read PROVE WalkInv'
  OBVIOUS
<1>1. /\ phase = "read" /\ next' = 1
      /\ UNCHANGED <<rootDeps, dir, queue, visited, cur, adjacency>>
  BY DEF Read, diskVars
<1>2. CASE phase' = "idle"
  BY <1>2 DEF WalkInv
<1>3. CASE dir[cur.name] # Partial /\ phase' = "push" /\ UNCHANGED outcome
  <2>1. /\ Listed' = Listed /\ InHand' = InHand
    BY <1>1, <1>3 DEF Listed, InHand, Names
  <2>2. DOMAIN adjacency = visited' \ InHand' /\ InHand' \subseteq visited'
    BY <1>1, <2>1 DEF WalkInv
  <2>3. \A i \in DOMAIN dir[cur.name].deps : ~(i < next')
    BY <1>1, <1>3, EntryTypes, ManifestTypes DEF TypeOK
  <2> QED
    BY <1>1, <1>3, <2>1, <2>2, <2>3, WalkStep DEF WalkInv, Names
<1> QED
  BY <1>2, <1>3 DEF Read, Fail

LEMMA PushWalk == TypeOK /\ WalkInv /\ Push => WalkInv'
<1> SUFFICES ASSUME TypeOK, WalkInv, Push PROVE WalkInv'
  OBVIOUS
<1> DEFINE list == dir[cur.name].deps
           e == list[next]
<1>1. /\ phase = "push" /\ phase' = "push" /\ next' = next + 1
      /\ UNCHANGED <<rootDeps, dir, visited, cur, adjacency, outcome>>
      /\ queue' = IF e.name \in visited THEN queue ELSE Append(queue, e)
  BY DEF Push, diskVars
<1>2. /\ list \in Seq(Entries) /\ next \in DOMAIN list /\ DOMAIN list = 1 .. Len(list)
      /\ dir[cur.name] \in Manifests /\ Len(list) \in Nat
  BY ManifestTypes DEF TypeOK, Push
<1>3. e \in Entries
  BY <1>2, ElementOfSeq
<1>4. Listed' = Listed \union {e.name}
  <2>1. CASE e.name \in visited
    BY <1>1, <2>1 DEF Listed, Names
  <2>2. CASE e.name \notin visited
    <3>1. queue' = Append(queue, e) /\ queue \in Seq(Entries)
      BY <1>1, <2>2 DEF TypeOK
    <3>2. Names(queue') = Names(queue) \union {e.name}
      BY <1>3, <3>1, NamesAppend
    <3>3. Names(queue)' = Names(queue')
      BY DEF Names
    <3> QED
      BY <1>1, <3>2, <3>3 DEF Listed
  <2> QED
    BY <2>1, <2>2
<1>5. e.name \in AllPackages(Disk)
  <2>1. cur.name \in AllPackages(Disk)
    BY <1>1 DEF WalkInv, InHand, Listed
  <2>2. e.name \in Names(list)
    BY <1>2 DEF Names
  <2> QED
    BY <1>2, <2>1, <2>2, Reached
<1>6. InHand' = InHand
  BY <1>1 DEF InHand
<1>7. \A i \in DOMAIN list : i < next' => list[i].name \in Listed'
  <2>1. \A i \in DOMAIN list : i < next + 1 => i < next \/ i = next
    BY <1>2
  <2> QED
    BY <1>1, <1>4, <2>1 DEF WalkInv
<1>8. /\ outcome' = "running" /\ DOMAIN adjacency' = visited' \ InHand'
      /\ InHand' \subseteq visited'
      /\ Names(rootDeps)' \subseteq Listed'
      /\ Listed' \subseteq AllPackages(Disk)'
  BY <1>1, <1>4, <1>5, <1>6, SameDisk DEF WalkInv, Names
<1>9. \A p \in DOMAIN adjacency' :
        /\ dir'[p] \in Manifests
        /\ adjacency'[p] = [i \in DOMAIN dir'[p].deps |-> dir'[p].deps[i].name]
        /\ Names(dir'[p].deps) \subseteq Listed'
  BY <1>1, <1>4 DEF WalkInv
<1> QED
  BY <1>1, <1>7, <1>8, <1>9 DEF WalkInv, Names

LEMMA EndPushWalk == TypeOK /\ WalkInv /\ EndPush => WalkInv'
<1> SUFFICES ASSUME TypeOK, WalkInv, EndPush PROVE WalkInv'
  OBVIOUS
<1> DEFINE list == dir[cur.name].deps
           names == [i \in DOMAIN list |-> list[i].name]
<1>1. /\ phase = "push" /\ phase' = "discover" /\ next > Len(list)
      /\ UNCHANGED <<rootDeps, dir, queue, visited, cur, outcome>>
      /\ adjacency' = With(adjacency, cur.name, names)
  BY DEF EndPush, diskVars
<1>2. /\ dir[cur.name] \in Manifests /\ DOMAIN list = 1 .. Len(list) /\ Len(list) \in Nat
  BY <1>1, ManifestTypes DEF TypeOK
<1>3. InHand = {cur.name} /\ InHand' = {} /\ Listed' = Listed
  BY <1>1 DEF InHand, Listed, Names
<1>4. cur.name \in visited /\ DOMAIN adjacency = visited \ {cur.name}
  BY <1>1, <1>3 DEF WalkInv
<1>5. /\ DOMAIN adjacency' = visited'
      /\ adjacency'[cur.name] = names
      /\ \A p \in DOMAIN adjacency : adjacency'[p] = adjacency[p]
  BY <1>1, <1>4 DEF With
<1>6. Names(list) \subseteq Listed
  BY <1>1, <1>2 DEF WalkInv, Names, TypeOK
<1>7. \A p \in DOMAIN adjacency' :
        /\ dir'[p] \in Manifests
        /\ adjacency'[p] = [i \in DOMAIN dir'[p].deps |-> dir'[p].deps[i].name]
        /\ Names(dir'[p].deps) \subseteq Listed'
  <2>1. ASSUME NEW p \in DOMAIN adjacency'
        PROVE  /\ dir[p] \in Manifests
               /\ adjacency'[p] = [i \in DOMAIN dir[p].deps |-> dir[p].deps[i].name]
               /\ Names(dir[p].deps) \subseteq Listed
    <3>1. CASE p = cur.name
      BY <1>2, <1>5, <1>6, <3>1
    <3>2. CASE p # cur.name
      <4>1. p \in DOMAIN adjacency /\ adjacency'[p] = adjacency[p]
        BY <1>1, <1>4, <1>5, <3>2
      <4> QED
        BY <1>1, <4>1 DEF WalkInv
    <3> QED
      BY <3>1, <3>2
  <2> QED
    BY <1>1, <1>3, <2>1
<1>8. /\ outcome' = "running" /\ DOMAIN adjacency' = visited' \ InHand'
      /\ InHand' \subseteq visited'
      /\ Names(rootDeps)' \subseteq Listed'
      /\ Listed' \subseteq AllPackages(Disk)'
  BY <1>1, <1>3, <1>5, SameDisk DEF WalkInv, Names
<1> QED
  BY <1>1, <1>7, <1>8 DEF WalkInv, Names

LEMMA BeginOrderWalk == TypeOK /\ WalkInv /\ BeginOrder => WalkInv'
<1> SUFFICES ASSUME TypeOK, WalkInv, BeginOrder PROVE WalkInv'
  OBVIOUS
<1>1. /\ phase = "discover" /\ queue = <<>> /\ phase' = "order"
      /\ UNCHANGED <<rootDeps, dir, queue, visited, cur, adjacency, outcome>>
  BY DEF BeginOrder, diskVars, walkVars
<1>2. InHand = {} /\ InHand' = {} /\ Listed' = Listed
  BY <1>1 DEF InHand, Listed, Names
<1>3. DOMAIN adjacency = visited' \ InHand' /\ InHand' \subseteq visited'
  BY <1>1, <1>2 DEF WalkInv
<1> QED
  BY <1>1, <1>2, <1>3, WalkStep DEF WalkInv, Names

LEMMA BatchWalk == TypeOK /\ WalkInv /\ Batch => WalkInv'
<1> SUFFICES ASSUME TypeOK, WalkInv, Batch PROVE WalkInv'
  OBVIOUS
<1>1. /\ phase = "order" /\ phase' = "order"
      /\ UNCHANGED <<rootDeps, dir, queue, visited, cur, adjacency, outcome>>
  BY DEF Batch, diskVars, walkVars
<1>2. InHand = {} /\ InHand' = {} /\ Listed' = Listed
  BY <1>1 DEF InHand, Listed, Names
<1>3. DOMAIN adjacency = visited' \ InHand' /\ InHand' \subseteq visited'
  BY <1>1, <1>2 DEF WalkInv
<1> QED
  BY <1>1, <1>2, <1>3, WalkStep DEF WalkInv, Names

-----------------------------------------------------------------------------
(* The order. *)

LEMMA NothingQueued == Names(<<>>) = {} /\ UNION Elements(<<>>) = {}
  BY EmptySeq DEF Names, Elements

\* When the walk is over, the graph is the one the root reaches.
LEMMA GraphOfOrder ==
  ASSUME TypeOK, WalkInv, phase # "idle", InHand = {}, queue = <<>>
  PROVE  /\ DOMAIN adjacency = AllPackages(Disk)
         /\ \A p \in DOMAIN adjacency : Elements(adjacency[p]) = Disk[p]
<1>1. DOMAIN adjacency = visited /\ Listed = visited
  BY NothingQueued DEF WalkInv, Listed
<1>2. ASSUME NEW p \in DOMAIN adjacency
      PROVE  Elements(adjacency[p]) = Disk[p] /\ Disk[p] = Names(dir[p].deps)
  <2>1. p \in Package /\ dir[p] \in Manifests
    BY DEF TypeOK, WalkInv
  <2>2. Elements(adjacency[p]) = Names(dir[p].deps)
    BY <2>1, ManifestTypes, ListTypes DEF WalkInv
  <2>3. Disk[p] = Names(dir[p].deps)
    BY <2>1, GraphAssumption DEF Disk, DepsOf, All
  <2> QED
    BY <2>2, <2>3
<1>3. Disk[Root] = Names(rootDeps)
  BY DEF Disk, All
<1>4. Disk[Root] \subseteq visited /\ Closed(Disk, visited) /\ visited \subseteq Package
  BY <1>1, <1>2, <1>3 DEF WalkInv, Closed, TypeOK
<1>5. AllPackages(Disk) \subseteq visited
  BY <1>4, TransitiveDepsLeast DEF AllPackages
<1> QED
  BY <1>1, <1>2, <1>5 DEF WalkInv

\* A counter is zero when all dependencies are in batches.
LEMMA ReadyIsLevel ==
  ASSUME TypeOK, WalkInv, OrderInv, phase = "order"
  PROVE  ready = Ready(Disk, Done)
<1>1. /\ DOMAIN adjacency = AllPackages(Disk)
      /\ \A p \in DOMAIN adjacency : Elements(adjacency[p]) = Disk[p]
  BY GraphOfOrder DEF WalkInv, InHand
<1>2. ASSUME NEW p \in DOMAIN inDegree
      PROVE  inDegree[p] = 0 <=> Disk[p] \subseteq Done
  <2>1. p \in DOMAIN adjacency /\ adjacency[p] \in Seq(Package)
    BY DEF TypeOK
  <2>2. Cardinality(Pending(p)) = 0 <=> Elements(adjacency[p]) \subseteq Done
    BY <2>1, Counting, Done \cap {} = {}, Zenon DEF Pending
  <2> QED
    BY <1>1, <2>1, <2>2 DEF OrderInv
<1> QED
  BY <1>1, <1>2 DEF OrderInv, Ready

LEMMA BeginOrderOrder == TypeOK /\ WalkInv /\ OrderInv /\ BeginOrder => OrderInv'
<1> SUFFICES ASSUME TypeOK, WalkInv, OrderInv, BeginOrder PROVE OrderInv'
  OBVIOUS
<1>1. /\ phase = "discover" /\ phase' = "order" /\ batches = <<>>
      /\ UNCHANGED <<rootDeps, dir, adjacency, batches>>
      /\ inDegree' = [p \in DOMAIN adjacency |-> Len(adjacency[p])]
      /\ ready' = {p \in DOMAIN adjacency : inDegree'[p] = 0}
  BY DEF BeginOrder, OrderInv, diskVars, walkVars, InDegrees
<1>2. Done' = {} /\ DOMAIN batches' = {}
  BY <1>1, NothingQueued, EmptySeq DEF Done, Elements
<1>3. ASSUME NEW p \in DOMAIN inDegree'
      PROVE  inDegree'[p] = Cardinality(Pending(p)')
  <2>1. p \in DOMAIN adjacency /\ inDegree'[p] = Len(adjacency[p])
    BY <1>1
  <2>2. /\ Len(adjacency[p]) \in Nat
        /\ DOMAIN adjacency[p] = 1 .. Len(adjacency[p])
    BY <2>1, LenProperties DEF TypeOK
  <2>3. Pending(p)' = 1 .. Len(adjacency[p])
    BY <1>1, <1>2, <2>2 DEF Pending
  <2> QED
    <3>1. Cardinality(1 .. Len(adjacency[p]))
            = IF 1 > Len(adjacency[p]) THEN 0 ELSE Len(adjacency[p]) - 1 + 1
      BY <2>2, FS_Interval, 1 \in Int
    <3> QED
      BY <2>1, <2>2, <2>3, <3>1
<1> QED
  BY <1>1, <1>2, <1>3 DEF OrderInv

LEMMA BatchOrder == TypeOK /\ WalkInv /\ OrderInv /\ Batch => OrderInv'
<1> SUFFICES ASSUME TypeOK, WalkInv, OrderInv, Batch PROVE OrderInv'
  OBVIOUS
<1>1. /\ phase = "order" /\ phase' = "order"
      /\ UNCHANGED <<rootDeps, dir, adjacency>>
      /\ batches' = Append(batches, ready)
      /\ DOMAIN inDegree' = DOMAIN inDegree \ ready
  BY DEF Batch, diskVars, walkVars
<1>2. ready = Ready(Disk, Done) /\ Disk' = Disk /\ AllPackages(Disk)' = AllPackages(Disk)
  BY <1>1, ReadyIsLevel, SameDisk
<1>3. /\ Len(batches) \in Nat /\ DOMAIN batches = 1 .. Len(batches)
      /\ DOMAIN batches' = 1 .. Len(batches) + 1
      /\ batches'[Len(batches) + 1] = ready
      /\ \A i \in 1 .. Len(batches) : batches'[i] = batches[i]
  BY <1>1, AppendProperties, LenProperties DEF TypeOK
<1>4. Done' = Done \union ready
  <2>1. Elements(batches') = Elements(batches) \union {ready}
    <3>1. DOMAIN batches' = DOMAIN batches \union {Len(batches) + 1}
      BY <1>3
    <3> QED
      BY <1>3, <3>1 DEF Elements
  <2>2. Elements(batches)' = Elements(batches')
    BY DEF Elements
  <2> QED
    BY <2>1, <2>2 DEF Done
<1>5. /\ DOMAIN inDegree' = DOMAIN adjacency' \ Done'
      /\ Done' \subseteq DOMAIN adjacency'
  BY <1>1, <1>4 DEF OrderInv
<1>6. ASSUME NEW p \in DOMAIN inDegree'
      PROVE  inDegree'[p] = Cardinality(Pending(p)')
  <2>1. p \in DOMAIN inDegree \ ready
    BY <1>1
  <2>2. Pending(p)' = {i \in DOMAIN adjacency[p] : adjacency[p][i] \notin Done \union ready}
    BY <1>1, <1>4 DEF Pending
  <2> QED
    BY <2>1, <2>2, BatchCounters
<1>7. ready' = {p \in DOMAIN inDegree' : inDegree'[p] = 0}
  <2>1. ready' = {p \in DOMAIN inDegree' : Occurrences(p, ready) > 0 /\ inDegree'[p] = 0}
    BY DEF Batch, NextReady
  <2>2. ASSUME NEW p \in DOMAIN inDegree', inDegree'[p] = 0
        PROVE  Occurrences(p, ready) > 0
    <3>1. p \in DOMAIN inDegree \ ready /\ inDegree[p] # 0
      BY <1>1 DEF OrderInv
    <3>2. /\ inDegree'[p] = inDegree[p] - Occurrences(p, ready)
          /\ Occurrences(p, ready) \in Nat /\ inDegree[p] \in Nat
      BY <3>1, BatchCounters
    <3> QED
      BY <2>2, <3>1, <3>2
  <2> QED
    BY <2>1, <2>2
<1>8. ASSUME NEW i \in DOMAIN batches'
      PROVE  batches'[i] = Ready(Disk', UNION {batches'[j] : j \in 1 .. i - 1})
  <2>1. {batches'[j] : j \in 1 .. i - 1} = {batches[j] : j \in 1 .. i - 1}
    BY <1>3
  <2>2. CASE i \in 1 .. Len(batches)
    BY <1>1, <1>2, <1>3, <2>1, <2>2 DEF OrderInv
  <2>3. CASE i = Len(batches) + 1
    <3>1. {batches[j] : j \in 1 .. i - 1} = Elements(batches)
      BY <1>3, <2>3 DEF Elements
    <3> QED
      BY <1>2, <1>3, <2>1, <2>3, <3>1 DEF Done
  <2> QED
    BY <1>3, <2>2, <2>3
<1>9. ASSUME NEW S \in SUBSET Package, Waiting(S)'
      PROVE  S \cap Done' = {}
  <2>1. Waiting(S)
    BY <1>2, <1>9 DEF Waiting
  <2>2. S \cap Done = {}
    BY <1>1, <2>1 DEF OrderInv
  <2>3. S \cap Ready(Disk, Done) = {}
    BY <2>1, <2>2 DEF Waiting, Ready
  <2> QED
    BY <1>2, <1>4, <2>2, <2>3
<1> QED
  BY <1>1, <1>5, <1>6, <1>7, <1>8, <1>9 DEF OrderInv

-----------------------------------------------------------------------------
(* The invariant and what follows from it. *)

\* Steps that end a run, or change something between runs.
LEMMA IdleStep ==
  ASSUME phase' = "idle"
  PROVE  WalkInv' /\ OrderInv'
  BY DEF WalkInv, OrderInv

LEMMA KeptStep ==
  ASSUME WalkInv, OrderInv, UNCHANGED vars
  PROVE  WalkInv' /\ OrderInv'
<1>1. UNCHANGED <<rootDeps, dir>>
  BY DEF vars, diskVars
<1>2. /\ Disk' = Disk /\ AllPackages(Disk)' = AllPackages(Disk)
      /\ Listed' = Listed /\ InHand' = InHand /\ Done' = Done
  BY <1>1, SameDisk DEF vars, walkVars, orderVars, Listed, InHand, Names, Done, Elements
<1>3. /\ \A p : Pending(p)' = Pending(p)
      /\ \A S \in SUBSET Package : Waiting(S)' = Waiting(S)
  BY <1>2 DEF vars, walkVars, Pending, Waiting
<1>4. WalkInv'
  BY <1>1, <1>2 DEF WalkInv, vars, walkVars, Names
<1>5. OrderInv'
  BY <1>1, <1>2, <1>3 DEF OrderInv, vars, walkVars, orderVars
<1> QED
  BY <1>4, <1>5

\* The batches stay empty until the order begins.
LEMMA WalkOrder ==
  ASSUME OrderInv, phase \in {"discover", "fetch", "read", "push"},
         phase' \in {"discover", "fetch", "read", "push"}, UNCHANGED batches
  PROVE  OrderInv'
  BY DEF OrderInv

LEMMA NextWalk ==
  ASSUME TypeOK, TypeOK', WalkInv, OrderInv, [Next]_vars
  PROVE  WalkInv' /\ OrderInv'
<1>1. CASE UNCHANGED vars
  BY <1>1, KeptStep
<1>2. CASE Start
  BY <1>2, StartWalk DEF Start, OrderInv
<1>3. CASE Skip
  BY <1>3, SkipWalk, WalkOrder DEF Skip, orderVars
<1>4. CASE Take
  <2>1. phase' \in {"read", "fetch", "idle"} /\ phase = "discover" /\ batches' = batches
    BY <1>4 DEF Take, Fail, orderVars
  <2> QED
    BY <1>4, <2>1, TakeWalk, WalkOrder, IdleStep
<1>5. CASE Fetched
  BY <1>5, FetchedWalk, WalkOrder DEF Fetched, orderVars
<1>6. CASE Read
  <2>1. phase' \in {"push", "idle"} /\ phase = "read" /\ batches' = batches
    BY <1>6 DEF Read, Fail, orderVars
  <2> QED
    BY <1>6, <2>1, ReadWalk, WalkOrder, IdleStep
<1>7. CASE Push
  BY <1>7, PushWalk, WalkOrder DEF Push, orderVars
<1>8. CASE EndPush
  BY <1>8, EndPushWalk, WalkOrder DEF EndPush, orderVars
<1>9. CASE BeginOrder
  BY <1>9, BeginOrderWalk, BeginOrderOrder
<1>10. CASE Batch
  BY <1>10, BatchWalk, BatchOrder
<1>11. CASE GitFails \/ EndOrder \/ Kill
  BY <1>11, IdleStep DEF GitFails, EndOrder, Kill, Fail
<1>12. CASE EditRoot \/ \E p \in Package : EditDir(p) \/ Publish(p)
  BY <1>12, IdleStep DEF EditRoot, EditDir, Publish, Change
<1> QED
  BY <1>1, <1>2, <1>3, <1>4, <1>5, <1>6, <1>7, <1>8, <1>9, <1>10, <1>11, <1>12
     DEF Next, Driver, Environment

\* The outcome of the loop of topo_batches.
LEMMA EndOrderCycles ==
  ASSUME TypeOK, WalkInv, OrderInv, EndOrder
  PROVE  CyclesAreRefused'
<1>1. /\ phase = "order" /\ ready = {}
      /\ outcome' = IF DOMAIN inDegree = {} THEN "ok" ELSE "cycle"
      /\ UNCHANGED <<rootDeps, dir, batches>>
  BY DEF EndOrder, diskVars, orderVars
<1>2. /\ DOMAIN adjacency = AllPackages(Disk)
      /\ Ready(Disk, Done) = {} /\ Disk \in [All -> SUBSET Package]
      /\ DOMAIN inDegree = AllPackages(Disk) \ Done /\ Done \subseteq AllPackages(Disk)
  BY <1>1, GraphOfOrder, ReadyIsLevel, DiskIsGraph DEF WalkInv, InHand, OrderInv
<1>3. /\ Disk' = Disk /\ AllPackages(Disk)' = AllPackages(Disk)
      /\ Cyclic(Disk)' = Cyclic(Disk) /\ Done' = Done
  BY <1>1, SameDisk DEF Cyclic, Done, Elements
<1>4. CASE DOMAIN inDegree = {}
  <2>1. Done = AllPackages(Disk)
    BY <1>2, <1>4
  <2>2. ~Cyclic(Disk)
    <3>1. AllPackages(Disk) \subseteq Package
      BY TransitiveDepsArePackages DEF AllPackages
    <3> QED
      BY <1>1, <2>1, <3>1 DEF OrderInv, Waiting, Cyclic
  <2> QED
    BY <1>1, <1>3, <1>4, <2>1, <2>2 DEF CyclesAreRefused
<1>5. CASE DOMAIN inDegree # {}
  <2>1. Cyclic(Disk)
    BY <1>2, <1>5, NothingLeft
  <2> QED
    BY <1>1, <1>3, <1>5, <2>1 DEF CyclesAreRefused
<1> QED
  BY <1>4, <1>5

LEMMA NextCycles ==
  ASSUME TypeOK, WalkInv, OrderInv, CyclesAreRefused, [Next]_vars
  PROVE  CyclesAreRefused'
<1>1. CASE UNCHANGED vars
  <2>1. Disk' = Disk /\ AllPackages(Disk)' = AllPackages(Disk)
    BY <1>1, SameDisk DEF vars, diskVars
  <2>2. Done' = Done /\ outcome' = outcome
    BY <1>1 DEF vars, orderVars, Done, Elements
  <2>3. Cyclic(Disk)' = Cyclic(Disk)
    BY <2>1 DEF Cyclic
  <2> QED
    BY <2>1, <2>2, <2>3 DEF CyclesAreRefused
<1>2. CASE EndOrder
  BY <1>2, EndOrderCycles
<1>3. CASE Start \/ Skip \/ Fetched \/ Push \/ EndPush \/ BeginOrder \/ Batch
  <2>1. outcome' = "running"
    BY <1>3 DEF Start, Skip, Fetched, Push, EndPush, BeginOrder, Batch, WalkInv
  <2> QED
    BY <2>1 DEF CyclesAreRefused
<1>4. CASE Take \/ Read \/ GitFails \/ Kill
  <2>1. outcome' \in {"running", "unfetched", "manifest", "collision", "killed"}
    BY <1>4 DEF Take, Read, GitFails, Kill, Fail, WalkInv
  <2> QED
    BY <2>1 DEF CyclesAreRefused
<1>5. CASE EditRoot \/ \E p \in Package : EditDir(p) \/ Publish(p)
  <2>1. outcome' = "none"
    BY <1>5 DEF EditRoot, EditDir, Publish, Change
  <2> QED
    BY <2>1 DEF CyclesAreRefused
<1> QED
  BY <1>1, <1>2, <1>3, <1>4, <1>5 DEF Next, Driver, Environment

LEMMA InitIInv == Init => IInv
<1> SUFFICES ASSUME Init PROVE IInv
  OBVIOUS
<1>1. phase = "idle" /\ outcome = "none"
  BY DEF Init, InitDriver
<1> QED
  BY <1>1, InitTypeOK DEF IInv, WalkInv, OrderInv, CyclesAreRefused

\* The invariant: the graph so far, the queue, the counters and the outcome.
THEOREM WalkInvariance == Spec => []IInv
<1>1. IInv /\ [Next]_vars => IInv'
  BY NextType, NextWalk, NextCycles DEF IInv
<1> QED
  BY <1>1, InitIInv, PTL DEF Spec

\* For every set of manifests, with any cycles, diamonds and repeated names:
\* the walk ends with the packages the root reaches and their dependencies.
THEOREM WalkFindsAll == Spec => []GraphIsClosure
<1>1. IInv => GraphIsClosure
  BY GraphOfOrder DEF IInv, GraphIsClosure, WalkInv, InHand
<1> QED
  BY <1>1, WalkInvariance, PTL

\* Every batch is the set of packages that wait for nothing but earlier ones.
THEOREM BatchesInOrder == Spec => []BatchesAreLevels
<1>1. IInv => BatchesAreLevels
  BY ReadyIsLevel DEF IInv, BatchesAreLevels, OrderInv
<1> QED
  BY <1>1, WalkInvariance, PTL

\* A run is refused for a cycle exactly if the packages have one.
THEOREM CycleDetection == Spec => []CyclesAreRefused
  BY WalkInvariance, PTL DEF IInv

\* Every variable keeps its type, and every phase has what it works on: a
\* package that is read has a directory.
THEOREM WalkTypes == Spec => []TypeOK
  BY WalkInvariance, PTL DEF IInv

-----------------------------------------------------------------------------
(* Ids, and what is in deps/. *)

\* No two packages of the graph so far have the same id, whatever the outcome.
IdInv == \A p, q \in DOMAIN pkgIds : p # q => pkgIds[p] # pkgIds[q]

\* Only a directory that the run has made is being filled.
FetchInv == phase = "fetch" => dir[cur.name] = Partial

LEMMA NextIdInv == IdInv /\ [Next]_vars => IdInv'
<1> SUFFICES ASSUME IdInv, [Next]_vars PROVE IdInv'
  OBVIOUS
<1>1. CASE pkgIds' = pkgIds
  BY <1>1 DEF IdInv
<1>2. CASE Start
  BY <1>2 DEF Start, IdInv
<1>3. CASE Read /\ pkgIds' # pkgIds
  <2> DEFINE m == dir[cur.name]
             v == IdOf[m.name][m.version]
  <2>1. /\ pkgIds' = With(pkgIds, cur.name, v)
        /\ \A q \in DOMAIN pkgIds \ {cur.name} : pkgIds[q] # v
    BY <1>3 DEF Read, Collides
  <2> HIDE DEF v
  <2>2. /\ DOMAIN pkgIds' = DOMAIN pkgIds \union {cur.name}
        /\ \A q \in DOMAIN pkgIds' :
             pkgIds'[q] = IF q = cur.name THEN v ELSE pkgIds[q]
    BY <2>1 DEF With
  <2> QED
    BY <2>1, <2>2 DEF IdInv
<1>4. pkgIds' = pkgIds \/ Start \/ (Read /\ pkgIds' # pkgIds)
  BY DEF Next, Driver, Environment, Skip, Take, Fetched, GitFails, Push, EndPush,
         BeginOrder, Batch, EndOrder, Kill, EditRoot, EditDir, Publish, Change,
         vars, walkVars
<1> QED
  BY <1>1, <1>2, <1>3, <1>4

LEMMA NextFetchInv == TypeOK /\ FetchInv /\ [Next]_vars => FetchInv'
<1> SUFFICES ASSUME TypeOK, FetchInv, [Next]_vars, phase' = "fetch"
             PROVE  dir'[cur'.name] = Partial
  BY DEF FetchInv
<1>1. CASE Take
  <2> DEFINE e == Head(queue)
  <2>1. cur' = e /\ dir' = [dir EXCEPT ![e.name] = Partial]
    BY <1>1 DEF Take, Fail
  <2>2. e.name \in Package
    BY <1>1, NamesTail, EntryTypes DEF TypeOK, Take
  <2> QED
    BY <2>1, <2>2 DEF TypeOK
<1>2. CASE UNCHANGED <<phase, dir, cur>>
  BY <1>2 DEF FetchInv
<1>3. Take \/ UNCHANGED <<phase, dir, cur>>
  BY DEF Next, Driver, Environment, Start, Skip, Fetched, GitFails, Read, Push,
         EndPush, BeginOrder, Batch, EndOrder, Kill, EditRoot, EditDir, Publish,
         Change, Fail, vars, walkVars, diskVars
<1> QED
  BY <1>1, <1>2, <1>3

\* Two packages of an accepted graph never share an id, for every function
\* from packages and versions to ids, however many of its values are equal.
THEOREM DistinctIds == Spec => []IdsAreDistinct
<1>1. Init => IdInv
  BY DEF Init, InitDriver, IdInv
<1>2. IdInv /\ [Next]_vars => IdInv'
  BY NextIdInv
<1>3. IdInv => IdsAreDistinct
  BY DEF IdInv, IdsAreDistinct
<1> QED
  BY <1>1, <1>2, <1>3, PTL DEF Spec

\* No step of a run, nor the end of it by a kill or a failure, replaces or
\* removes a directory that has a manifest.
THEOREM KeepsDirectories == Spec => KeepsWhatIsThere
<1>1. Init => FetchInv
  BY DEF Init, InitDriver, FetchInv
<1>2. ASSUME TypeOK, FetchInv, [Next]_vars, phase # "idle",
             NEW p \in Package, dir[p] \in Manifests
      PROVE  dir'[p] = dir[p]
  <2>1. Absent \notin Manifests /\ Partial \notin Manifests
    BY GraphAssumption
  <2>2. CASE dir' = dir
    BY <2>2
  <2>3. CASE Take
    <3>1. \/ dir' = dir
          \/ /\ dir[Head(queue).name] = Absent
             /\ dir' = [dir EXCEPT ![Head(queue).name] = Partial]
      BY <2>3 DEF Take, MustFetch
    <3> QED
      BY <1>2, <2>1, <3>1 DEF TypeOK
  <2>4. CASE phase = "fetch" /\ dir' = [dir EXCEPT ![cur.name] = picked]
    BY <1>2, <2>1, <2>4 DEF FetchInv, TypeOK
  <2>5. \/ dir' = dir \/ Take
        \/ phase = "fetch" /\ dir' = [dir EXCEPT ![cur.name] = picked]
    BY <1>2 DEF Next, Driver, Environment, Start, Skip, Fetched, GitFails, Read,
                Push, EndPush, BeginOrder, Batch, EndOrder, Kill, LeaveUnfinished,
                EditRoot, EditDir, Publish, Change, vars, diskVars
  <2> QED
    BY <2>2, <2>3, <2>4, <2>5
<1>3. TypeOK /\ FetchInv /\ [Next]_vars =>
        [phase # "idle" =>
           \A p \in Package : dir[p] \in Manifests => dir'[p] = dir[p]]_vars
  BY <1>2
<1>4. TypeOK /\ FetchInv /\ [Next]_vars => FetchInv'
  BY NextFetchInv
<1> QED
  BY <1>1, <1>3, <1>4, WalkTypes, PTL DEF Spec, KeepsWhatIsThere

-----------------------------------------------------------------------------
(* transitive_deps. *)

\* S and all that the packages in it depend on.
Grow(S) == S \union UNION {Elements(adjacency[q]) : q \in S}

\* Every list of the graph names packages of the graph.
ListsStay ==
  /\ Cardinality(DOMAIN adjacency) \in Nat /\ IsFiniteSet(DOMAIN adjacency)
  /\ \A q \in DOMAIN adjacency : Elements(adjacency[q]) \subseteq DOMAIN adjacency

\* The levels of the walk are sets of packages of the graph.
LEMMA ClosureLevels ==
  ASSUME ListsStay, NEW p \in DOMAIN adjacency
  PROVE  \E seen \in [0 .. Cardinality(DOMAIN adjacency) -> SUBSET DOMAIN adjacency] :
           /\ ClosureOf(p) = seen[Cardinality(DOMAIN adjacency)]
           /\ seen[0] = Elements(adjacency[p])
           /\ \A n \in 1 .. Cardinality(DOMAIN adjacency) : seen[n] = Grow(seen[n - 1])
<1> DEFINE N == Cardinality(DOMAIN adjacency)
           V == SUBSET DOMAIN adjacency
           first == Elements(adjacency[p])
           G == [n \in 1 .. N |-> [S \in V |-> Grow(S)]]
           AreLevels(f) == f = [n \in 0 .. N |-> IF n = 0 THEN first ELSE Grow(f[n - 1])]
           seen == CHOOSE f : AreLevels(f)
<1>1. first \in V /\ N \in Nat
  BY DEF ListsStay
<1>2a. \A S \in V : Grow(S) \in V
  BY DEF ListsStay, Grow
<1>2. \E f : AreLevels(f)
  <2>1. G \in [1 .. N -> [V -> V]]
    BY <1>1, <1>2a
  <2>2. PICK g \in [0 .. N -> V] : Iterates(g, N, first, G)
    <3> HIDE DEF G, N, V, first
    <3> QED
      BY <1>1, <2>1, RecursionExists
  <2>3. g[0] = first /\ \A n \in 1 .. N : g[n] = Grow(g[n - 1])
    <3>1. \A n \in 1 .. N : g[n - 1] \in V
      BY <1>1, <2>2
    <3> QED
      BY <2>2, <3>1 DEF Iterates
  <2>4. \A n \in 0 .. N : n = 0 \/ n \in 1 .. N
    BY <1>1
  <2>5. AreLevels(g)
    BY <2>2, <2>3, <2>4
  <2> QED
    BY <2>5
<1>3. AreLevels(seen)
  <2> HIDE DEF AreLevels
  <2> QED
    BY <1>2
<1>4. seen[0] = first /\ \A n \in 1 .. N : seen[n] = Grow(seen[n - 1])
  <2> HIDE DEF seen, first
  <2> QED
    BY <1>1, <1>3
<1>5. \A n \in 0 .. N : seen[n] \in V
  <2> DEFINE T == {n \in 0 .. N : seen[n] \in V}
  <2>1. 0 \in T /\ \A n \in 1 .. N : n - 1 \in T => n \in T
    <3> HIDE DEF seen, first, V
    <3> QED
      BY <1>1, <1>2a, <1>4
  <2>2. 0 .. N \subseteq T
    <3> HIDE DEF T, N
    <3> QED
      BY <1>1, <2>1, IntervalInduction
  <2> QED
    BY <2>2
<1>6. seen \in [0 .. N -> V]
  <2> HIDE DEF seen, V
  <2> QED
    BY <1>3, <1>5
<1>7. ClosureOf(p) = seen[N]
  BY DEF ClosureOf, Grow
<1> HIDE DEF seen
<1> QED
  BY <1>4, <1>6, <1>7

\* They grow until they are closed, at the latest when all packages are in.
LEMMA ClosureOfIsClosed ==
  ASSUME ListsStay, NEW p \in DOMAIN adjacency
  PROVE  /\ ClosureOf(p) \subseteq DOMAIN adjacency
         /\ Elements(adjacency[p]) \subseteq ClosureOf(p)
         /\ \A q \in ClosureOf(p) : Elements(adjacency[q]) \subseteq ClosureOf(p)
<1> DEFINE N == Cardinality(DOMAIN adjacency)
           IsClosed(S) == \A q \in S : Elements(adjacency[q]) \subseteq S
<1>1. PICK seen \in [0 .. N -> SUBSET DOMAIN adjacency] :
        /\ ClosureOf(p) = seen[N] /\ seen[0] = Elements(adjacency[p])
        /\ \A n \in 1 .. N : seen[n] = Grow(seen[n - 1])
  BY ClosureLevels
<1>2. N \in Nat /\ \A n \in 0 .. N : n = 0 \/ n \in 1 .. N
  BY DEF ListsStay
<1>3. ASSUME NEW n \in 0 .. N
      PROVE  /\ IsFiniteSet(seen[n]) /\ Cardinality(seen[n]) \in Nat
             /\ Cardinality(seen[n]) <= N
  <2>1. seen[n] \in SUBSET DOMAIN adjacency
    BY <1>1
  <2> QED
    BY <2>1, FS_Subset, FS_CardinalityType DEF ListsStay
<1> DEFINE T == {n \in 0 .. N : /\ seen[0] \subseteq seen[n]
                                /\ IsClosed(seen[n]) \/ Cardinality(seen[n]) > n}
<1>4. 0 \in T
  <2>1. CASE seen[0] = {}
    BY <1>2, <2>1
  <2>2. CASE seen[0] # {}
    <3>1. Cardinality(seen[0]) # 0 /\ 0 \in 0 .. N
      BY <1>2, <1>3, <2>2, FS_EmptySet
    <3> QED
      BY <1>2, <1>3, <3>1
  <2> QED
    BY <2>1, <2>2
<1>5. ASSUME NEW n \in 1 .. N, n - 1 \in T
      PROVE  n \in T
  <2>1. /\ n \in 0 .. N /\ n - 1 \in 0 .. N /\ seen[n] = Grow(seen[n - 1])
        /\ seen[n - 1] \subseteq seen[n] /\ seen[0] \subseteq seen[n]
    BY <1>1, <1>2, <1>5 DEF Grow
  <2>2. CASE IsClosed(seen[n - 1])
    <3>1. seen[n] = seen[n - 1]
      BY <2>1, <2>2 DEF Grow
    <3> QED
      BY <2>1, <2>2, <3>1
  <2>3. CASE ~IsClosed(seen[n - 1])
    <3>1. seen[n] # seen[n - 1]
      BY <2>1, <2>3 DEF Grow
    <3>2. Cardinality(seen[n - 1]) > n - 1
      BY <1>5, <2>3
    <3>3. /\ Cardinality(seen[n - 1]) <= Cardinality(seen[n])
          /\ Cardinality(seen[n - 1]) # Cardinality(seen[n])
      BY <1>3, <2>1, <3>1, FS_Subset
    <3>4. Cardinality(seen[n]) > n
      BY <1>3, <2>1, <3>2, <3>3
    <3> QED
      BY <2>1, <3>4
  <2> QED
    BY <2>2, <2>3
<1>6. N \in T
  <2>1. 0 .. N \subseteq T
    <3> HIDE DEF T, N
    <3> QED
      BY <1>2, <1>4, <1>5, IntervalInduction
  <2> QED
    BY <1>2, <2>1
<1>7. IsClosed(seen[N])
  BY <1>2, <1>3, <1>6
<1> QED
  BY <1>1, <1>2, <1>6, <1>7

\* They never leave a closed set that has the direct dependencies.
LEMMA ClosureOfIsLeast ==
  ASSUME ListsStay, NEW p \in DOMAIN adjacency,
         NEW S, Elements(adjacency[p]) \subseteq S,
         \A q \in S \intersect DOMAIN adjacency : Elements(adjacency[q]) \subseteq S
  PROVE  ClosureOf(p) \subseteq S
<1> DEFINE N == Cardinality(DOMAIN adjacency)
<1>1. PICK seen \in [0 .. N -> SUBSET DOMAIN adjacency] :
        /\ ClosureOf(p) = seen[N] /\ seen[0] = Elements(adjacency[p])
        /\ \A n \in 1 .. N : seen[n] = Grow(seen[n - 1])
  BY ClosureLevels
<1>2. N \in Nat
  BY DEF ListsStay
<1> DEFINE T == {n \in 0 .. N : seen[n] \subseteq S}
<1>3. 0 \in T
  BY <1>1, <1>2
<1>4. ASSUME NEW n \in 1 .. N, n - 1 \in T
      PROVE  n \in T
  <2>1. /\ n \in 0 .. N /\ seen[n] = Grow(seen[n - 1])
        /\ seen[n - 1] \subseteq S \intersect DOMAIN adjacency
    BY <1>1, <1>2, <1>4
  <2> QED
    BY <2>1 DEF Grow
<1>5. 0 .. N \subseteq T
  <2> HIDE DEF T, N
  <2> QED
    BY <1>2, <1>3, <1>4, IntervalInduction
<1> QED
  BY <1>1, <1>2, <1>5

\* The graph of a run that is accepted is the one in the directories.
AcceptedInv ==
  outcome = "ok" =>
    /\ DOMAIN adjacency = AllPackages(Disk)
    /\ \A p \in DOMAIN adjacency : Elements(adjacency[p]) = Disk[p]

LEMMA NextAccepted ==
  ASSUME TypeOK, WalkInv, OrderInv, AcceptedInv, [Next]_vars
  PROVE  AcceptedInv'
<1>1. CASE UNCHANGED vars
  <2>1. Disk' = Disk /\ AllPackages(Disk)' = AllPackages(Disk)
    BY <1>1, SameDisk DEF vars, diskVars
  <2> QED
    BY <1>1, <2>1 DEF AcceptedInv, vars, walkVars, Elements
<1>2. CASE EndOrder
  <2>1. phase = "order" /\ UNCHANGED <<rootDeps, dir, adjacency>>
    BY <1>2 DEF EndOrder, diskVars, walkVars
  <2>2. Disk' = Disk /\ AllPackages(Disk)' = AllPackages(Disk)
    BY <2>1, SameDisk
  <2>3. /\ DOMAIN adjacency = AllPackages(Disk)
        /\ \A p \in DOMAIN adjacency : Elements(adjacency[p]) = Disk[p]
    BY <2>1, GraphOfOrder DEF WalkInv, InHand
  <2> QED
    BY <2>1, <2>2, <2>3 DEF AcceptedInv, Elements
<1>3. CASE outcome' # "ok"
  BY <1>3 DEF AcceptedInv
<1>4. UNCHANGED vars \/ EndOrder \/ outcome' # "ok"
  BY DEF Next, Driver, Environment, Start, Skip, Take, Fetched, GitFails, Read,
         Push, EndPush, BeginOrder, Batch, Kill, EditRoot, EditDir, Publish,
         Change, Fail, WalkInv
<1> QED
  BY <1>1, <1>2, <1>3, <1>4

LEMMA AcceptedGraph ==
  ASSUME TypeOK, AcceptedInv, outcome = "ok"
  PROVE  ListsStay
<1>1. AllPackages(Disk) \subseteq Package
  BY TransitiveDepsArePackages DEF AllPackages
<1>2. Disk \in [All -> SUBSET Package] /\ Root \in All
  BY DiskIsGraph DEF All
<1>3. Closed(Disk, AllPackages(Disk))
  BY <1>2, TransitiveDepsClosed DEF AllPackages
<1>4. IsFiniteSet(DOMAIN adjacency) /\ Cardinality(DOMAIN adjacency) \in Nat
  BY <1>1, GraphAssumption, FS_Subset, FS_CardinalityType DEF AcceptedInv
<1> QED
  BY <1>3, <1>4 DEF AcceptedInv, Closed, ListsStay

\* For every graph that is accepted the walk of transitive_deps, which looks
\* at direct dependencies only, finds what a package reaches at any distance,
\* and never the package itself.
THEOREM ClosureComplete == Spec => []ClosureIsReachability
<1>1. Init => AcceptedInv
  BY DEF Init, InitDriver, AcceptedInv
<1>2. IInv /\ AcceptedInv /\ [Next]_vars => AcceptedInv'
  BY NextAccepted DEF IInv
<1>3. IInv /\ AcceptedInv => ClosureIsReachability
  <2> SUFFICES ASSUME IInv, AcceptedInv, outcome = "ok", NEW p \in DOMAIN adjacency
               PROVE  /\ ClosureOf(p) = TransitiveDeps(Disk, p)
                      /\ p \notin ClosureOf(p)
    BY DEF ClosureIsReachability
  <2>1. ListsStay
    BY AcceptedGraph DEF IInv
  <2>2. /\ DOMAIN adjacency = AllPackages(Disk)
        /\ \A q \in DOMAIN adjacency : Elements(adjacency[q]) = Disk[q]
    BY DEF AcceptedInv
  <2>3. /\ AllPackages(Disk) \subseteq Package /\ p \in All
        /\ Disk \in [All -> SUBSET Package]
    BY <2>2, TransitiveDepsArePackages, DiskIsGraph DEF IInv, AllPackages, All
  <2>4. ClosureOf(p) \subseteq TransitiveDeps(Disk, p)
    <3>1. Disk[p] \subseteq TransitiveDeps(Disk, p) /\ Closed(Disk, TransitiveDeps(Disk, p))
      BY <2>3, TransitiveDepsClosed
    <3> QED
      BY <2>1, <2>2, <3>1, ClosureOfIsLeast DEF Closed
  <2>5. TransitiveDeps(Disk, p) \subseteq ClosureOf(p)
    <3>1. /\ ClosureOf(p) \in SUBSET Package /\ Disk[p] \subseteq ClosureOf(p)
          /\ Closed(Disk, ClosureOf(p))
      BY <2>1, <2>2, <2>3, ClosureOfIsClosed DEF Closed
    <3> QED
      BY <3>1, TransitiveDepsLeast
  <2>6. p \notin TransitiveDeps(Disk, p)
    BY <2>2, <2>3, AcyclicReach DEF IInv, CyclesAreRefused
  <2> QED
    BY <2>4, <2>5, <2>6
<1> QED
  BY <1>1, <1>2, <1>3, WalkInvariance, PTL DEF Spec
=============================================================================
