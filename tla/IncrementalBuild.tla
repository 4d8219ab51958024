-------------------------- MODULE IncrementalBuild --------------------------
(***************************************************************************)
(* The incremental build of biwac: `compile` and `build_or_reuse_package`  *)
(* of biwac_driver, with the freshness rule of biwac_fingerprint.          *)
(*                                                                         *)
(* One build walks the dependency graph from the leaves.  For every        *)
(* package it either reuses what an earlier build left in .biwa_build, if  *)
(* the fingerprint (.biwafp) matches, or compiles the package, writing     *)
(* .biwameta, .biwamir, the output and last the fingerprint.  Between and  *)
(* during builds the user edits sources and manifests, removes files,      *)
(* upgrades the compiler, or kills the build.                              *)
(*                                                                         *)
(* Hashes are modelled by what they hash: two contents have the same hash  *)
(* exactly if the hashed parts are equal (no collisions of Hash64).        *)
(***************************************************************************)
EXTENDS Naturals, FiniteSets, DependencyOrder

CONSTANTS
  Source,       \* the contents src/**/*.biwa can have, see SourceAssumption
  SourcesOf,    \* the contents the user gives to each package
  ManifestsOf,  \* the dependency sets the user gives to each package
  Compilers,    \* identities of compilers (compiler_identity), numbers
  Target,       \* "typescript" or "wasm"
  Absent,       \* no such file
  Torn,         \* a file whose writing was cut off by a crash
  Disturbances, \* what the environment does besides editing between builds
  MaxEdits,     \* bound on the number of environment steps
  MaxBuilds     \* bound on the number of builds

Sig   == {s.sig : s \in Source}
Bound == {s.bound : s \in Source}
Body  == {s.body : s \in Source}

(***************************************************************************)
(* What the analyses tell apart in a source tree.  `sig` stands for all    *)
(* the items and signatures the SVH covers, `bound` for the trait bounds   *)
(* of the generic arguments, `body` for the function bodies.  `exposes`    *)
(* says whether signatures mention types of dependencies, `accepts` the    *)
(* bounds of dependencies the calls in the bodies satisfy, `main` whether  *)
(* there is a src/main.biwa, `error` the pass that rejects the source, and *)
(* `rev` when the user wrote it.                                           *)
(***************************************************************************)
Errors == {"none", "resolve", "infer", "mono", "traitcall"}

ASSUME SourceAssumption ==
  \A s \in Source :
     /\ s = [sig |-> s.sig, bound |-> s.bound, body |-> s.body,
             exposes |-> s.exposes, accepts |-> s.accepts, main |-> s.main,
             error |-> s.error, rev |-> s.rev]
     /\ s.exposes \in BOOLEAN /\ s.main \in BOOLEAN
     /\ s.accepts \subseteq Bound /\ s.error \in Errors /\ s.rev \in Nat

ASSUME EnvironmentAssumption ==
  /\ Root \notin Package
  /\ SourcesOf \in [All -> SUBSET Source]
  /\ ManifestsOf \in [All -> SUBSET SUBSET Package]
  /\ Compilers \subseteq Nat
  /\ Target \in {"typescript", "wasm"}
  /\ Disturbances \subseteq {"revert", "midedit", "crash", "emit", "remove"}
  /\ MaxEdits \in Nat /\ MaxBuilds \in Nat

(* The files of a build directory. *)

OrAbsent(S) == S \union {Absent}

\* What the SVH hashes: the interface, without trait bounds (svh_genargs).
SvhValue  == [sig : Sig, ext : [Package -> OrAbsent(Sig)]]
SvhTable  == [Package -> OrAbsent(SvhValue)]
MetaFile  == [sig : Sig, bound : Bound, ext : [Package -> OrAbsent(Sig)],
              deps : SvhTable, by : Compilers]
MirFile   == [svh : SvhValue, body : Body, env : SvhTable, by : Compilers]
BinFile   == [src : Source, manifest : SUBSET Package, env : SvhTable,
              mirs : [Package -> OrAbsent(MirFile)], by : Compilers]
PackageHashes == [svh : SvhValue, mir : MirFile]
HashTable     == [Package -> OrAbsent(PackageHashes)]
Fingerprint   == [compiler : Compilers, manifest : SUBSET Package,
                  own : PackageHashes, deps : HashTable, sources : Source]

\* The markers are not contents of files, nor parts of them.
ASSUME MarkerAssumption ==
  /\ Absent # Torn
  /\ \A marker \in {Absent, Torn} :
       /\ marker \notin Sig /\ marker \notin Source
       /\ marker \notin SvhValue /\ marker \notin MetaFile
       /\ marker \notin MirFile /\ marker \notin BinFile
       /\ marker \notin PackageHashes /\ marker \notin Fingerprint

Phase == {"idle", "deps", "collect", "root",
          "analyze", "infer", "codegen", "record"}

VARIABLES
  src,       \* the sources of every package, as the user last wrote them
  manifest,  \* the dependencies named by every biwa-package.json
  compiler,  \* the installed compiler
  meta, mir, bin, fp,  \* <name>.biwameta, .biwamir, .ts/.wasm and .biwafp
  out,       \* dependency outputs copied beside the root's own output
  phase,     \* where the running build is
  cur,       \* the package being compiled
  force, emit,         \* BuildOptions of the last build
  graph,     \* DepGraph::adjacency of the last build
  batch,     \* rest of the current topological batch
  svhs,      \* HashMapOfPackages of the last build
  work,      \* what build_or_reuse_package read before compiling `cur`
  outcome,   \* how the last build ended
  quiet,     \* history: nothing was edited since the last build began
  tainted,   \* history: packages whose .biwafp may not describe the files
  edits, builds        \* history: counters for the bounds

envVars    == <<src, manifest, compiler>>
diskVars   == <<meta, mir, bin, fp, out>>
driverVars == <<phase, cur, force, emit, graph, batch, svhs, work, outcome>>
vars == <<envVars, diskVars, driverVars, quiet, tainted, edits, builds>>

-----------------------------------------------------------------------------
(* The target table. *)

Wasm                    == Target = "wasm"
ConsumesDependencyMir   == Wasm
CollectsDependencyBins  == ~Wasm
LibraryProducesBinary   == ~Wasm
ProducesBinary(s)       == s.main \/ LibraryProducesBinary

-----------------------------------------------------------------------------
(* The dependency graph of the running build. *)

Nodes == AllPackages(graph)

\* The dependencies a package is compiled against.
Needed(p) == IF p = Root THEN Nodes ELSE TransitiveDeps(graph, p)

Built == {q \in Package : svhs[q] # Absent}

-----------------------------------------------------------------------------
(* What the passes write, from the source s, the manifest m and the        *)
(* interfaces and bodies d of the dependencies.  `h` is the table of       *)
(* dependency hashes the build holds in memory.                            *)

Svh(file) == [sig |-> file.sig, ext |-> file.ext]

SvhsIn(d) == [q \in Package |-> IF d[q] = Absent THEN Absent ELSE d[q].svh]
MirsIn(d) == [q \in Package |-> IF d[q] = Absent THEN Absent ELSE d[q].mir]

\* The types of dependencies that the signatures of s mention.
ExternalTypes(s, d) ==
  [q \in Package |-> IF s.exposes /\ d[q] # Absent THEN d[q].svh.sig ELSE Absent]

MetaOf(s, d, h, c) ==
  [sig |-> s.sig, bound |-> s.bound, ext |-> ExternalTypes(s, d),
   deps |-> SvhsIn(h), by |-> c]

\* Mutant: the header of .biwamir names another interface than .biwameta.
MirOfOtherInterface(s, d, c) ==
  [svh |-> [sig |-> s.sig, ext |-> [q \in Package |-> Absent]],
   body |-> s.body, env |-> SvhsIn(d), by |-> c]

MirOf(s, d, c) ==
  [svh |-> [sig |-> s.sig, ext |-> ExternalTypes(s, d)],
   body |-> s.body, env |-> SvhsIn(d), by |-> c]

BinOf(s, m, d, c) ==
  [src |-> s, manifest |-> m, env |-> SvhsIn(d),
   mirs |-> IF ConsumesDependencyMir THEN MirsIn(d)
            ELSE [q \in Package |-> Absent],
   by |-> c]

\* Mutant: only direct dependencies are looked at.
DepHashesDirect(p) ==
  [q \in Package |-> IF q \in graph[p] THEN svhs[q] ELSE Absent]

\* The hashes of dependencies in memory: `dep_hashes` of build_or_reuse_package.
DepHashes(p) ==
  [q \in Package |-> IF q \in Needed(p) THEN svhs[q] ELSE Absent]

\* The interfaces and bodies of dependencies on disk.
DepFiles(p) ==
  [q \in Package |-> IF q \in Needed(p)
                     THEN [svh |-> Svh(meta[q]), mir |-> mir[q]]
                     ELSE Absent]

-----------------------------------------------------------------------------
(* Freshness. *)

Readable(file) == file \notin {Absent, Torn}

\* Mutant: no hash is compared.
SameDepsByName(before, now) ==
  \A q \in Package : before[q] = Absent <=> now[q] = Absent

\* Fingerprint::freshness on the dependencies: bodies count only if the
\* target takes them into its output.
SameDeps(before, now) ==
  \A q \in Package :
    /\ before[q] = Absent <=> now[q] = Absent
    /\ now[q] # Absent =>
         /\ before[q].svh = now[q].svh
         /\ ConsumesDependencyMir => before[q].mir = now[q].mir

\* Mutant: the files of interfaces and bodies need not be there.
IsFreshByRecord(p, h) ==
  /\ ProducesBinary(src[p]) => bin[p] # Absent
  /\ Readable(fp[p])
  /\ fp[p].compiler = compiler
  /\ fp[p].manifest = manifest[p]
  /\ SameDeps(fp[p].deps, h)
  /\ fp[p].sources = src[p]

\* Mutant: an output of an older compiler counts.
IsFreshAcrossCompilers(p, h) ==
  /\ meta[p] # Absent /\ mir[p] # Absent
  /\ ProducesBinary(src[p]) => bin[p] # Absent
  /\ Readable(fp[p])
  /\ fp[p].manifest = manifest[p]
  /\ SameDeps(fp[p].deps, h)
  /\ fp[p].sources = src[p]

\* check_freshness of p against the dependency hashes h.
IsFresh(p, h) ==
  /\ meta[p] # Absent /\ mir[p] # Absent
  /\ ProducesBinary(src[p]) => bin[p] # Absent
  /\ Readable(fp[p])
  /\ fp[p].compiler = compiler
  /\ fp[p].manifest = manifest[p]
  /\ SameDeps(fp[p].deps, h)
  /\ fp[p].sources = src[p]

\* Mutant: the interface a body was compiled with is not checked.
LoadableUnchecked(p) ==
  \A q \in Needed(p) :
    /\ Readable(meta[q])
    /\ emit \/ ConsumesDependencyMir => Readable(mir[q])

\* load_external_packages and, where bodies are used, load_dep_mirs.
Loadable(p) ==
  \A q \in Needed(p) :
    /\ Readable(meta[q])
    /\ emit \/ ConsumesDependencyMir =>
         Readable(mir[q]) /\ mir[q].svh = Svh(meta[q])

-----------------------------------------------------------------------------
(* The driver. *)

NoWork == [sources |-> Absent, manifest |-> {}, loaded |-> Absent]

\* The build stops here with an error.
Fail == /\ phase' = "idle" /\ outcome' = "failed"
        /\ UNCHANGED <<batch, svhs>>

\* Mutant: p stays in its batch.
FinishAgain(p, h) ==
  IF p = Root
  THEN /\ phase' = "idle" /\ outcome' = "ok"
       /\ UNCHANGED <<batch, svhs>>
  ELSE /\ svhs' = [svhs EXCEPT ![p] = h]
       /\ phase' = "deps"
       /\ UNCHANGED <<batch, outcome>>

\* p is done and h is what its dependents are told about it.
Finish(p, h) ==
  IF p = Root
  THEN /\ phase' = "idle" /\ outcome' = "ok"
       /\ UNCHANGED <<batch, svhs>>
  ELSE /\ svhs' = [svhs EXCEPT ![p] = h]
       /\ batch' = IF batch = {p} THEN Ready(graph, Built \union {p})
                   ELSE batch \ {p}
       /\ phase' = IF batch' = {} THEN "collect" ELSE "deps"
       /\ UNCHANGED outcome

\* `biwac [--rebuild] [--emit mir]`: discover the graph, order it.
StartBuild(f, e) ==
  /\ phase = "idle" /\ builds < MaxBuilds
  /\ builds' = builds + 1
  /\ force' = (f \/ e) /\ emit' = e
  /\ graph' = manifest
  /\ svhs' = [q \in Package |-> Absent]
  /\ quiet' = TRUE /\ cur' = Root /\ work' = NoWork
  /\ IF Cyclic(manifest)
     THEN phase' = "idle" /\ outcome' = "failed" /\ batch' = {}
     ELSE /\ batch' = Ready(manifest, {})
          /\ phase' = IF batch' = {} THEN "collect" ELSE "deps"
          /\ outcome' = "running"
  /\ UNCHANGED <<envVars, diskVars, tainted, edits>>

\* p is next in the loop of `compile`.
Eligible(p) == \/ phase = "deps" /\ p \in batch
               \/ phase = "root" /\ p = Root

\* Mutant: `--rebuild` does not stop the reuse of fresh packages.
ReuseEvenIfForced(p) ==
  /\ Eligible(p)
  /\ IsFresh(p, DepHashes(p))
  /\ Finish(p, fp[p].own)
  /\ UNCHANGED <<envVars, diskVars, cur, force, emit, graph, work,
                 quiet, tainted, edits, builds>>

\* build_or_reuse_package finds p fresh and hands on the recorded hashes.
ReusePackage(p) ==
  /\ Eligible(p)
  /\ ~force /\ IsFresh(p, DepHashes(p))
  /\ Finish(p, fp[p].own)
  /\ UNCHANGED <<envVars, diskVars, cur, force, emit, graph, work,
                 quiet, tainted, edits, builds>>

\* It finds p stale: it has hashed the sources, and now reads what the
\* dependencies left on disk.
BeginRebuild(p) ==
  /\ Eligible(p)
  /\ force \/ ~IsFresh(p, DepHashes(p))
  /\ cur' = p
  /\ work' = [sources |-> src[p], manifest |-> manifest[p], loaded |-> Absent]
  /\ IF Loadable(p)
     THEN phase' = "analyze" /\ UNCHANGED <<batch, svhs, outcome>>
     ELSE Fail
  /\ UNCHANGED <<envVars, diskVars, force, emit, graph,
                 quiet, tainted, edits, builds>>

\* Load the source, resolve names, check scenes, write .biwameta.
Analyze ==
  /\ phase = "analyze"
  /\ LET s == src[cur] IN
     /\ work' = [work EXCEPT !.loaded = s]
     /\ IF s.error = "resolve"
        THEN Fail /\ UNCHANGED <<meta, tainted>>
        ELSE /\ meta' = [meta EXCEPT
                   ![cur] = MetaOf(s, DepFiles(cur), DepHashes(cur), compiler)]
             /\ tainted' = tainted \union {cur}
             /\ phase' = "infer"
             /\ UNCHANGED <<batch, svhs, outcome>>
  /\ UNCHANGED <<envVars, mir, bin, fp, out, cur, force, emit, graph,
                 quiet, edits, builds>>

\* The type inferrer rejects a call whose callee has a bound it does not meet.
Accepted(p, s) == \A q \in Needed(p) : meta[q].bound \in s.accepts

MonoFails(s) == s.main /\ s.error = "mono"

\* Mutant: the whole .biwameta is hashed, not the interface.
OwnHashesOfFile(p) == [svh |-> meta[p], mir |-> mir[p]]

\* What a package that has been compiled tells its dependents.
OwnHashes(p) == [svh |-> Svh(meta[p]), mir |-> mir[p]]

\* Infer types, build and validate MIR, write .biwamir.  `--emit mir` stops
\* here and records nothing.
Infer ==
  /\ phase = "infer"
  /\ LET s == work.loaded
         m == MirOf(s, DepFiles(cur), compiler) IN
     IF s.error = "infer" \/ ~Accepted(cur, s)
     THEN Fail /\ UNCHANGED mir
     ELSE /\ mir' = [mir EXCEPT ![cur] = m]
          /\ IF ~emit THEN phase' = "codegen" /\ UNCHANGED <<batch, svhs, outcome>>
             ELSE IF MonoFails(s) THEN Fail
             ELSE Finish(cur, [svh |-> Svh(meta[cur]), mir |-> m])
  /\ UNCHANGED <<envVars, meta, bin, fp, out, cur, force, emit, graph, work,
                 quiet, tainted, edits, builds>>

\* TypeScript: reject calls that need monomorphization, write the .ts.
\* wasm: monomorphize and write the .wasm, for playable packages only.
Codegen ==
  /\ phase = "codegen"
  /\ LET s == work.loaded IN
     IF IF Wasm THEN MonoFails(s) ELSE s.error = "traitcall"
     THEN Fail /\ UNCHANGED bin
     ELSE /\ bin' = IF ProducesBinary(s)
                    THEN [bin EXCEPT ![cur] =
                            BinOf(s, work.manifest, DepFiles(cur), compiler)]
                    ELSE bin
          /\ phase' = "record"
          /\ UNCHANGED <<batch, svhs, outcome>>
  /\ UNCHANGED <<envVars, meta, mir, fp, out, cur, force, emit, graph, work,
                 quiet, tainted, edits, builds>>

\* Mutant: the dependencies of dependencies are not recorded.
RecordDirectOnly ==
  /\ phase = "record"
  /\ fp' = [fp EXCEPT ![cur] =
              [compiler |-> compiler, manifest |-> work.manifest,
               own |-> OwnHashes(cur),
               deps |-> [q \in Package |-> IF q \in graph[cur] THEN svhs[q]
                                          ELSE Absent],
               sources |-> work.sources]]
  /\ tainted' = IF work.sources = work.loaded /\ Needed(cur) \cap tainted = {}
                THEN tainted \ {cur} ELSE tainted
  /\ Finish(cur, OwnHashes(cur))
  /\ UNCHANGED <<envVars, meta, mir, bin, out, cur, force, emit, graph, work,
                 quiet, edits, builds>>

\* Mutant: the sources are hashed after they were compiled.
RecordLateSources ==
  /\ phase = "record"
  /\ fp' = [fp EXCEPT ![cur] =
              [compiler |-> compiler, manifest |-> work.manifest,
               own |-> OwnHashes(cur), deps |-> DepHashes(cur),
               sources |-> src[cur]]]
  /\ tainted' = IF work.sources = work.loaded /\ Needed(cur) \cap tainted = {}
                THEN tainted \ {cur} ELSE tainted
  /\ Finish(cur, OwnHashes(cur))
  /\ UNCHANGED <<envVars, meta, mir, bin, out, cur, force, emit, graph, work,
                 quiet, edits, builds>>

\* Write .biwafp, last of all.  The package stays tainted if the user saved
\* a file between hashing and loading, or a dependency was tainted itself.
RecordFingerprint ==
  /\ phase = "record"
  /\ fp' = [fp EXCEPT ![cur] =
              [compiler |-> compiler, manifest |-> work.manifest,
               own |-> OwnHashes(cur), deps |-> DepHashes(cur),
               sources |-> work.sources]]
  /\ tainted' = IF work.sources = work.loaded /\ Needed(cur) \cap tainted = {}
                THEN tainted \ {cur} ELSE tainted
  /\ Finish(cur, OwnHashes(cur))
  /\ UNCHANGED <<envVars, meta, mir, bin, out, cur, force, emit, graph, work,
                 quiet, edits, builds>>

\* The root's output directory after copying the outputs of `done`.
CopyBins(done) == [q \in Package |-> IF q \in done THEN bin[q] ELSE out[q]]

\* Mutant: outputs of packages that left the graph stay.
CollectKeepsOld ==
  /\ phase = "collect"
  /\ IF emit \/ ~CollectsDependencyBins
     THEN phase' = "root" /\ UNCHANGED <<out, batch, svhs, outcome>>
     ELSE /\ out' = CopyBins(Nodes)
          /\ phase' = "root"
          /\ UNCHANGED <<batch, svhs, outcome>>
  /\ UNCHANGED <<envVars, meta, mir, bin, fp, cur, force, emit, graph, work,
                 quiet, tainted, edits, builds>>

\* Copy every output of the graph beside the root's, remove the others.
CollectDepBins ==
  /\ phase = "collect"
  /\ IF emit \/ ~CollectsDependencyBins
     THEN phase' = "root" /\ UNCHANGED <<out, batch, svhs, outcome>>
     ELSE IF \E q \in Nodes : bin[q] = Absent
     THEN /\ Fail
          /\ \E done \in SUBSET {q \in Nodes : bin[q] # Absent} :
                out' = CopyBins(done)
     ELSE /\ out' = [q \in Package |-> IF q \in Nodes THEN bin[q] ELSE Absent]
          /\ phase' = "root"
          /\ UNCHANGED <<batch, svhs, outcome>>
  /\ UNCHANGED <<envVars, meta, mir, bin, fp, cur, force, emit, graph, work,
                 quiet, tainted, edits, builds>>

Driver == \/ \E p \in All : ReusePackage(p) \/ BeginRebuild(p)
          \/ Analyze \/ Infer \/ Codegen \/ RecordFingerprint
          \/ CollectDepBins

-----------------------------------------------------------------------------
(* The environment. *)

Halt == /\ phase' = "idle" /\ outcome' = "crashed"
        /\ UNCHANGED <<envVars, cur, force, emit, graph, batch, svhs, work,
                       quiet, edits, builds>>

\* The process is killed between two steps.
Crash ==
  /\ "crash" \in Disturbances /\ phase # "idle"
  /\ Halt /\ UNCHANGED <<diskVars, tainted>>

\* The process is killed inside std::fs::write, which has truncated the file.
TornWrite ==
  /\ "crash" \in Disturbances
  /\ \/ /\ phase = "analyze" /\ src[cur].error # "resolve"
        /\ meta' = [meta EXCEPT ![cur] = Torn]
        /\ tainted' = tainted \union {cur} /\ UNCHANGED <<mir, bin, fp>>
     \/ /\ phase = "infer" /\ work.loaded.error # "infer"
        /\ Accepted(cur, work.loaded)
        /\ mir' = [mir EXCEPT ![cur] = Torn] /\ UNCHANGED <<meta, bin, fp, tainted>>
     \/ /\ phase = "codegen" /\ ProducesBinary(work.loaded)
        /\ ~(IF Wasm THEN MonoFails(work.loaded)
             ELSE work.loaded.error = "traitcall")
        /\ bin' = [bin EXCEPT ![cur] = Torn] /\ UNCHANGED <<meta, mir, fp, tainted>>
     \/ /\ phase = "record"
        /\ fp' = [fp EXCEPT ![cur] = Torn] /\ UNCHANGED <<meta, mir, bin, tainted>>
  /\ Halt /\ UNCHANGED out

\* It is killed while it copies outputs beside the root's.
CrashInCollect ==
  /\ "crash" \in Disturbances /\ phase = "collect"
  /\ ~emit /\ CollectsDependencyBins
  /\ \E done \in SUBSET Nodes : out' = CopyBins(done)
  /\ Halt /\ UNCHANGED <<meta, mir, bin, fp, tainted>>

\* A step of the user; while a build runs, only with "midedit".
UserStep ==
  /\ edits < MaxEdits /\ edits' = edits + 1
  /\ phase = "idle" \/ "midedit" \in Disturbances
  /\ quiet' = FALSE
  /\ UNCHANGED <<driverVars, tainted, builds>>

EditSource(p, s) ==
  /\ UserStep
  /\ s \in SourcesOf[p] \ {src[p]}
  /\ s.rev > src[p].rev \/ "revert" \in Disturbances
  /\ src' = [src EXCEPT ![p] = s]
  /\ UNCHANGED <<manifest, compiler, diskVars>>

EditManifest(p, d) ==
  /\ UserStep
  /\ d \in ManifestsOf[p] \ {manifest[p]}
  /\ manifest' = [manifest EXCEPT ![p] = d]
  /\ UNCHANGED <<src, compiler, diskVars>>

\* A newer biwac is installed; a running build keeps the old one.
UpgradeCompiler(c) ==
  /\ UserStep /\ phase = "idle"
  /\ c \in Compilers /\ c > compiler
  /\ compiler' = c
  /\ UNCHANGED <<src, manifest, diskVars>>

\* The user deletes a file of a build directory.
RemoveFile(p) ==
  /\ UserStep /\ phase = "idle" /\ "remove" \in Disturbances
  /\ \/ meta' = [meta EXCEPT ![p] = Absent] /\ UNCHANGED <<mir, bin, fp>>
     \/ mir' = [mir EXCEPT ![p] = Absent] /\ UNCHANGED <<meta, bin, fp>>
     \/ bin' = [bin EXCEPT ![p] = Absent] /\ UNCHANGED <<meta, mir, fp>>
     \/ fp' = [fp EXCEPT ![p] = Absent] /\ UNCHANGED <<meta, mir, bin>>
  /\ UNCHANGED <<envVars, out>>

Environment ==
  \/ \E f \in BOOLEAN, e \in BOOLEAN :
       (e => "emit" \in Disturbances) /\ StartBuild(f, e)
  \/ Crash \/ TornWrite \/ CrashInCollect
  \/ \E p \in All : \/ \E s \in SourcesOf[p] : EditSource(p, s)
                    \/ \E d \in ManifestsOf[p] : EditManifest(p, d)
                    \/ RemoveFile(p)
  \/ \E c \in Compilers : UpgradeCompiler(c)

-----------------------------------------------------------------------------
Init ==
  /\ src \in [All -> Source] /\ \A p \in All : src[p] \in SourcesOf[p]
  /\ manifest \in [All -> SUBSET Package]
  /\ \A p \in All : manifest[p] \in ManifestsOf[p]
  /\ compiler \in Compilers
  /\ meta = [p \in All |-> Absent] /\ mir = [p \in All |-> Absent]
  /\ bin = [p \in All |-> Absent] /\ fp = [p \in All |-> Absent]
  /\ out = [q \in Package |-> Absent]
  /\ phase = "idle" /\ cur = Root /\ force = FALSE /\ emit = FALSE
  /\ graph = manifest /\ batch = {}
  /\ svhs = [q \in Package |-> Absent]
  /\ work = NoWork /\ outcome = "none" /\ quiet = FALSE
  /\ tainted = {} /\ edits = 0 /\ builds = 0

Next == Driver \/ Environment

Spec == Init /\ [][Next]_vars

\* A started build is not left standing: the driver is one sequential process.
FairSpec == Spec /\ WF_vars(Driver)

-----------------------------------------------------------------------------
(* Properties. *)

OnDisk(File) == [All -> File \union {Absent, Torn}]

\* Every variable has its type; a running phase has what it works on.
TypeOK ==
  /\ src \in [All -> Source] /\ manifest \in [All -> SUBSET Package]
  /\ compiler \in Compilers
  /\ meta \in OnDisk(MetaFile) /\ mir \in OnDisk(MirFile)
  /\ bin \in OnDisk(BinFile) /\ fp \in OnDisk(Fingerprint)
  /\ out \in [Package -> BinFile \union {Absent, Torn}]
  /\ phase \in Phase /\ cur \in All /\ force \in BOOLEAN /\ emit \in BOOLEAN
  /\ graph \in [All -> SUBSET Package] /\ batch \subseteq Package
  /\ svhs \in HashTable
  /\ work \in [sources : OrAbsent(Source), manifest : SUBSET Package,
               loaded : OrAbsent(Source)]
  /\ outcome \in {"none", "running", "ok", "failed", "crashed"}
  /\ quiet \in BOOLEAN /\ tainted \subseteq All
  /\ edits \in 0 .. MaxEdits /\ builds \in 0 .. MaxBuilds

Untainted(p) == ({p} \union Needed(p)) \cap tainted = {}

\* The files of p are what compiling it now would write.
UpToDate(p) ==
  /\ meta[p] = MetaOf(src[p], DepFiles(p), DepFiles(p), compiler)
  /\ mir[p] = MirOf(src[p], DepFiles(p), compiler)
  /\ ProducesBinary(src[p]) =>
       bin[p] = BinOf(src[p], manifest[p], DepFiles(p), compiler)

\* A package that is reused is one whose recompilation would write the files
\* that are there already, whatever was edited, removed, upgraded, rejected or
\* killed before, unless a rebuild of it or of a dependency was cut short
\* after it began to write.  (check_freshness, Fingerprint::freshness)
ReuseIsSound ==
  \A p \in All :
    Eligible(p) /\ ~force /\ IsFresh(p, DepHashes(p)) /\ Untainted(p)
      => UpToDate(p)

Finished == phase = "idle" /\ outcome = "ok"

\* A build that succeeds, with nothing edited meanwhile, leaves what a build
\* from scratch of the present sources would: every package of the graph is
\* up to date with the files of its dependencies.  (compile)
SuccessIsClean ==
  Finished /\ quiet /\ ~emit /\ Untainted(Root)
    => \A p \in Nodes \union {Root} : UpToDate(p)

\* `--rebuild` is the way out when the cache is doubted: whatever state the
\* build directories are in, torn or stale, a forced build that succeeds
\* leaves all of it up to date.  (biwac_cli main.rs, Args::rebuild)
ForcedBuildIsClean ==
  Finished /\ quiet /\ ~emit /\ force
    => \A p \in Nodes \union {Root} : UpToDate(p)

\* After a build that succeeds, building again compiles nothing.
NullBuildIsFresh ==
  Finished /\ quiet /\ ~emit =>
    \A p \in Nodes \union {Root} :
      IsFresh(p, [q \in Package |-> IF q \in Needed(p) THEN fp[q].own ELSE Absent])

\* When a package is judged, the hashes of all its dependencies are there, so
\* that filter_map in build_or_reuse_package drops none.
DepHashesComplete ==
  \A p \in All : Eligible(p) => Needed(p) \subseteq Built

\* A package whose dependencies are sound never fails to read their files.
DepsAreLoadable ==
  \A p \in All :
    Eligible(p) /\ Needed(p) \cap tainted = {} => Loadable(p)

\* Once outputs are collected, the root's output directory holds those of
\* exactly the packages of the graph, and the ones their own directories hold.
OutputsMatchGraph ==
  (phase = "root" \/ (Finished /\ quiet)) /\ ~emit /\ CollectsDependencyBins =>
    \A q \in Package : out[q] = IF q \in Nodes THEN bin[q] ELSE Absent

\* A wasm output never joins the body of a dependency with the interface of
\* another version of it, even when files are torn or stale.  (load_dep_mir)
NeverMixesVersions ==
  \A p \in All : Readable(bin[p]) =>
    \A q \in Package : bin[p].mirs[q] # Absent =>
                         bin[p].mirs[q].svh = bin[p].env[q]

\* A build that is started ends.
BuildTerminates == phase # "idle" ~> phase = "idle"

-----------------------------------------------------------------------------
(* What the documentation says and the code does not do. *)

\* "No rebuild is needed, .biwameta and .biwamir can be used as they are":
\* ReuseIsSound with no exception for rebuilds that were cut short.
FreshMeansUsable ==
  \A p \in All :
    Eligible(p) /\ ~force /\ IsFresh(p, DepHashes(p)) =>
      /\ Readable(meta[p]) /\ meta[p].sig = src[p].sig
      /\ Readable(mir[p]) /\ mir[p].body = src[p].body

\* "While the SVH is unchanged, packages that use this one need not be built
\* again": compiling them again would succeed.
SameSvhMeansCompatible ==
  \A p \in All :
    Eligible(p) /\ ~force /\ IsFresh(p, DepHashes(p)) /\ Untainted(p)
      => Accepted(p, src[p])
=============================================================================
