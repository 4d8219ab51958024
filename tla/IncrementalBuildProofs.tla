---------------------- MODULE IncrementalBuildProofs ----------------------
(***************************************************************************)
(* Theorems about IncrementalBuild, for every set of packages, every       *)
(* source and every dependency graph: types, that dependencies are         *)
(* complete when a package is judged, and that what is reused is what      *)
(* would be compiled; that what a build loads from disk belongs together,  *)
(* and so does what it writes; and that a build that succeeds leaves what  *)
(* a build from scratch would, and nothing to do for the next one.         *)
(***************************************************************************)
EXTENDS IncrementalBuild, DependencyOrderProofs

Compiling == {"analyze", "infer", "codegen", "record"}

(***************************************************************************)
(* What a compilation has at hand in each of its phases: the inductive     *)
(* strengthening that type correctness needs.                              *)
(***************************************************************************)
WorkOK ==
  /\ phase \in Compiling =>
       /\ work.sources \in Source
       /\ \A q \in Needed(cur) :
            /\ meta[q] \in MetaFile
            /\ ConsumesDependencyMir => mir[q] \in MirFile
  /\ phase \in {"infer", "codegen", "record"} =>
       work.loaded \in Source /\ meta[cur] \in MetaFile
  /\ phase \in {"codegen", "record"} => mir[cur] \in MirFile

TypeInv == TypeOK /\ WorkOK

-----------------------------------------------------------------------------
(* The dependency graph. *)

\* What is compiled against is a set of packages.
LEMMA NeededArePackages ==
  ASSUME NEW p PROVE Needed(p) \subseteq Package /\ Needed(p) \subseteq All
  BY TransitiveDepsArePackages DEF Needed, Nodes, AllPackages, All

-----------------------------------------------------------------------------
(* The types of what the passes write. *)

LEMMA SourceTypes ==
  ASSUME NEW s \in Source
  PROVE  /\ s.sig \in Sig /\ s.bound \in Bound /\ s.body \in Body
         /\ s.exposes \in BOOLEAN /\ s.main \in BOOLEAN
  BY SourceAssumption DEF Sig, Bound, Body

\* The interfaces and bodies of dependencies, as the passes take them.
DepTable == [Package -> OrAbsent([svh : SvhValue, mir : MirFile \union {Absent, Torn}])]

LEMMA ExternalTypesType ==
  ASSUME NEW s \in Source, NEW d \in DepTable
  PROVE  ExternalTypes(s, d) \in [Package -> OrAbsent(Sig)]
  BY DEF ExternalTypes, DepTable, OrAbsent, SvhValue

LEMMA SvhsInType ==
  ASSUME NEW d \in DepTable
  PROVE  SvhsIn(d) \in SvhTable
  BY DEF SvhsIn, DepTable, SvhTable, OrAbsent

LEMMA SvhType ==
  ASSUME NEW file \in MetaFile
  PROVE  Svh(file) \in SvhValue
  BY DEF Svh, MetaFile, SvhValue

LEMMA MetaOfType ==
  ASSUME NEW s \in Source, NEW d \in DepTable, NEW h \in DepTable,
         NEW c \in Compilers
  PROVE  MetaOf(s, d, h, c) \in MetaFile
  BY SourceTypes, ExternalTypesType, SvhsInType DEF MetaOf, MetaFile

LEMMA MirOfType ==
  ASSUME NEW s \in Source, NEW d \in DepTable, NEW c \in Compilers
  PROVE  MirOf(s, d, c) \in MirFile
  BY SourceTypes, ExternalTypesType, SvhsInType DEF MirOf, MirFile, SvhValue

LEMMA BinOfType ==
  ASSUME NEW s \in Source, NEW m \in SUBSET Package, NEW d \in DepTable,
         NEW c \in Compilers,
         ConsumesDependencyMir =>
           \A q \in Package : d[q] # Absent => d[q].mir \in MirFile
  PROVE  BinOf(s, m, d, c) \in BinFile
<1>1. (IF ConsumesDependencyMir THEN MirsIn(d)
       ELSE [q \in Package |-> Absent]) \in [Package -> OrAbsent(MirFile)]
  BY DEF MirsIn, OrAbsent
<1> QED
  BY <1>1, SvhsInType DEF BinOf, BinFile


\* What the compilation of `cur` reads from disk has the types of files.
LEMMA DepFilesType ==
  ASSUME TypeInv, phase \in Compiling
  PROVE  /\ DepFiles(cur) \in DepTable
         /\ ConsumesDependencyMir =>
              \A q \in Package :
                DepFiles(cur)[q] # Absent => DepFiles(cur)[q].mir \in MirFile
<1>1. ASSUME NEW q \in Needed(cur)
      PROVE  /\ Svh(meta[q]) \in SvhValue
             /\ mir[q] \in MirFile \union {Absent, Torn}
             /\ ConsumesDependencyMir => mir[q] \in MirFile
  BY SvhType, NeededArePackages DEF TypeInv, WorkOK, TypeOK, OnDisk
<1> QED
  BY <1>1 DEF DepFiles, DepTable, OrAbsent

LEMMA DepHashesType ==
  ASSUME TypeOK, NEW p
  PROVE  DepHashes(p) \in HashTable /\ DepHashes(p) \in DepTable
  BY DEF TypeOK, DepHashes, HashTable, DepTable, OrAbsent, PackageHashes

LEMMA ReadyType ==
  ASSUME NEW g, NEW done
  PROVE  Ready(g, done) \subseteq Package
  BY TransitiveDepsArePackages DEF Ready, AllPackages

\* How the driver's own variables change when a package is done.
LEMMA FinishType ==
  ASSUME TypeOK, NEW p \in All, NEW h \in PackageHashes, Finish(p, h)
  PROVE  /\ phase' \in {"idle", "deps", "collect"} /\ batch' \subseteq Package
         /\ svhs' \in HashTable
         /\ outcome' \in {"none", "running", "ok", "failed", "crashed"}
<1>1. CASE p = Root
  BY <1>1 DEF Finish, TypeOK
<1>2. CASE p # Root
  <2>1. p \in Package
    BY <1>2 DEF All
  <2>2. svhs' \in HashTable
    BY <1>2, <2>1 DEF Finish, TypeOK, HashTable, OrAbsent
  <2>3. batch' \subseteq Package
    BY <1>2, ReadyType DEF Finish, TypeOK
  <2> QED
    BY <1>2, <2>2, <2>3 DEF Finish, TypeOK
<1> QED
  BY <1>1, <1>2

-----------------------------------------------------------------------------
(* Type correctness. *)

\* The initial states have the types.
THEOREM InitTypeInv == Init => TypeInv
<1> SUFFICES ASSUME Init PROVE TypeInv
  OBVIOUS
<1>1. WorkOK
  BY DEF Init, WorkOK, Compiling
<1>2. /\ meta \in OnDisk(MetaFile) /\ mir \in OnDisk(MirFile)
      /\ bin \in OnDisk(BinFile) /\ fp \in OnDisk(Fingerprint)
      /\ out \in [Package -> BinFile \union {Absent, Torn}]
      /\ svhs \in HashTable
  BY DEF Init, OnDisk, HashTable, OrAbsent
<1>3. /\ graph \in [All -> SUBSET Package] /\ batch \subseteq Package
      /\ work \in [sources : OrAbsent(Source), manifest : SUBSET Package,
                   loaded : OrAbsent(Source)]
  BY DEF Init, NoWork, OrAbsent
<1>4. edits \in 0 .. MaxEdits /\ builds \in 0 .. MaxBuilds
  BY EnvironmentAssumption DEF Init
<1>5. TypeOK
  BY <1>2, <1>3, <1>4 DEF Init, TypeOK, Phase, All
<1> QED
  BY <1>1, <1>5 DEF TypeInv

\* A build that starts, and a package that is reused.
LEMMA StartBuildTypeInv ==
  ASSUME TypeInv, NEW f \in BOOLEAN, NEW e \in BOOLEAN, StartBuild(f, e)
  PROVE  TypeInv'
<1>1. batch' \subseteq Package /\ phase' \in {"idle", "deps", "collect"}
  BY ReadyType DEF StartBuild
<1>2. TypeOK'
  BY <1>1, EnvironmentAssumption
  DEF StartBuild, TypeInv, TypeOK, envVars, diskVars, Phase, HashTable,
      OrAbsent, NoWork, All
<1>3. WorkOK'
  BY <1>1 DEF WorkOK, Compiling
<1> QED
  BY <1>2, <1>3 DEF TypeInv

LEMMA ReusePackageTypeInv ==
  ASSUME TypeInv, NEW p \in All, ReusePackage(p)
  PROVE  TypeInv'
<1>1. fp[p].own \in PackageHashes
  BY DEF ReusePackage, IsFresh, Readable, TypeInv, TypeOK, OnDisk, Fingerprint
<1>2. /\ phase' \in {"idle", "deps", "collect"} /\ batch' \subseteq Package
      /\ svhs' \in HashTable
      /\ outcome' \in {"none", "running", "ok", "failed", "crashed"}
  BY <1>1, FinishType DEF ReusePackage, TypeInv
<1>3. TypeOK'
  BY <1>2 DEF ReusePackage, TypeInv, TypeOK, envVars, diskVars, Phase
<1>4. WorkOK'
  BY <1>2 DEF WorkOK, Compiling
<1> QED
  BY <1>3, <1>4 DEF TypeInv

\* The steps of a compilation.
LEMMA BeginRebuildTypeInv ==
  ASSUME TypeInv, NEW p \in All, BeginRebuild(p)
  PROVE  TypeInv'
<1>1. work' \in [sources : OrAbsent(Source), manifest : SUBSET Package,
                 loaded : OrAbsent(Source)] /\ work'.sources \in Source
  BY DEF BeginRebuild, TypeInv, TypeOK, OrAbsent
<1>2. TypeOK'
  BY <1>1 DEF BeginRebuild, Fail, TypeInv, TypeOK, envVars, diskVars, Phase
<1>3. WorkOK'
  <2>1. CASE ~Loadable(p)
    BY <2>1 DEF BeginRebuild, Fail, WorkOK, Compiling
  <2>2. CASE Loadable(p)
    <3>1. phase' = "analyze" /\ cur' = p /\ Needed(p)' = Needed(p)
      BY <2>2 DEF BeginRebuild, Needed, Nodes, AllPackages, TransitiveDeps, Closed
    <3>2. ASSUME NEW q \in Needed(p)
          PROVE  meta'[q] \in MetaFile /\ (ConsumesDependencyMir => mir'[q] \in MirFile)
      BY <2>2, NeededArePackages
      DEF Loadable, Readable, BeginRebuild, diskVars, TypeInv, TypeOK, OnDisk
    <3> QED
      BY <1>1, <3>1, <3>2 DEF WorkOK, Needed
  <2> QED
    BY <2>1, <2>2
<1> QED
  BY <1>2, <1>3 DEF TypeInv

\* Writing .biwameta: the files of the dependencies are read before.
LEMMA AnalyzeTypeInv ==
  ASSUME TypeInv, Analyze
  PROVE  TypeInv'
<1>1. src[cur] \in Source /\ work.sources \in Source /\ phase = "analyze"
  BY DEF Analyze, TypeInv, TypeOK, WorkOK, Compiling
<1>2. /\ work' \in [sources : OrAbsent(Source), manifest : SUBSET Package,
                    loaded : OrAbsent(Source)]
      /\ work'.loaded = src[cur] /\ work'.sources = work.sources
  BY <1>1 DEF Analyze, TypeInv, TypeOK, OrAbsent
<1>3. CASE src[cur].error = "resolve"
  <2>1. TypeOK'
    BY <1>2, <1>3 DEF Analyze, Fail, TypeInv, TypeOK, envVars, Phase
  <2>2. WorkOK'
    BY <1>3 DEF Analyze, Fail, WorkOK, Compiling
  <2> QED
    BY <2>1, <2>2 DEF TypeInv
<1>4. CASE src[cur].error # "resolve"
  <2> DEFINE m == MetaOf(src[cur], DepFiles(cur), DepHashes(cur), compiler)
  <2>1. m \in MetaFile
    BY <1>1, DepFilesType, DepHashesType, MetaOfType
    DEF TypeInv, TypeOK, Compiling
  <2> HIDE DEF m
  <2>2. /\ meta' = [meta EXCEPT ![cur] = m] /\ phase' = "infer"
        /\ tainted' = tainted \union {cur}
        /\ UNCHANGED <<src, manifest, compiler, mir, bin, fp, out, cur, force,
                       emit, graph, batch, svhs, outcome, quiet, edits, builds>>
    BY <1>4 DEF Analyze, envVars, m
  <2>3. TypeOK'
    BY <1>2, <2>1, <2>2 DEF TypeInv, TypeOK, OnDisk, Phase
  <2>4. Needed(cur)' = Needed(cur)
    BY <2>2 DEF Needed, Nodes, AllPackages
  <2>5. WorkOK'
    BY <1>1, <1>2, <2>1, <2>2, <2>4, NeededArePackages
    DEF TypeInv, TypeOK, OnDisk, WorkOK, Compiling
  <2> QED
    BY <2>3, <2>5 DEF TypeInv
<1> QED
  BY <1>3, <1>4

\* Writing .biwamir; with `--emit mir` the package is done.
LEMMA InferTypeInv ==
  ASSUME TypeInv, Infer
  PROVE  TypeInv'
<1> DEFINE m == MirOf(work.loaded, DepFiles(cur), compiler)
<1>1. /\ phase = "infer" /\ work.loaded \in Source /\ meta[cur] \in MetaFile
      /\ cur \in All
  BY DEF Infer, TypeInv, WorkOK, TypeOK
<1>2. m \in MirFile
  BY <1>1, DepFilesType, MirOfType DEF TypeInv, TypeOK, Compiling
<1>3. [svh |-> Svh(meta[cur]), mir |-> m] \in PackageHashes
  BY <1>1, <1>2, SvhType DEF PackageHashes
<1> HIDE DEF m
<1>4. /\ mir' = mir \/ mir' = [mir EXCEPT ![cur] = m]
      /\ \/ Fail
         \/ /\ phase' = "codegen" /\ mir' = [mir EXCEPT ![cur] = m]
            /\ UNCHANGED <<batch, svhs, outcome>>
         \/ Finish(cur, [svh |-> Svh(meta[cur]), mir |-> m])
      /\ UNCHANGED <<src, manifest, compiler, meta, bin, fp, out, cur, force,
                     emit, graph, work, quiet, tainted, edits, builds>>
  BY DEF Infer, envVars, m
<1>5. mir' \in OnDisk(MirFile)
  BY <1>1, <1>2, <1>4 DEF TypeInv, TypeOK, OnDisk
<1>6. /\ phase' \in {"idle", "deps", "collect", "codegen"}
      /\ batch' \subseteq Package /\ svhs' \in HashTable
      /\ outcome' \in {"none", "running", "ok", "failed", "crashed"}
  BY <1>1, <1>3, <1>4, FinishType DEF Fail, TypeInv, TypeOK
<1>7. TypeOK'
  BY <1>4, <1>5, <1>6 DEF TypeInv, TypeOK, Phase
<1>8. WorkOK'
  <2>1. CASE phase' # "codegen"
    BY <1>6, <2>1 DEF WorkOK, Compiling
  <2>2. CASE phase' = "codegen"
    <3>1. mir' = [mir EXCEPT ![cur] = m]
      BY <1>1, <1>4, <2>2, <1>3, FinishType DEF Fail, TypeInv
    <3>2. Needed(cur)' = Needed(cur)
      BY <1>4 DEF Needed, Nodes, AllPackages
    <3> QED
      BY <1>1, <1>2, <1>4, <2>2, <3>1, <3>2, NeededArePackages
      DEF TypeInv, TypeOK, OnDisk, WorkOK, Compiling
  <2> QED
    BY <2>1, <2>2
<1> QED
  BY <1>7, <1>8 DEF TypeInv

\* Writing the output.
LEMMA CodegenTypeInv ==
  ASSUME TypeInv, Codegen
  PROVE  TypeInv'
<1> DEFINE o == BinOf(work.loaded, work.manifest, DepFiles(cur), compiler)
<1>1. phase = "codegen" /\ work.loaded \in Source /\ cur \in All
  BY DEF Codegen, TypeInv, WorkOK, TypeOK
<1>2. o \in BinFile
  BY <1>1, DepFilesType, BinOfType DEF TypeInv, TypeOK, Compiling
<1> HIDE DEF o
<1>3. /\ bin' = bin \/ bin' = [bin EXCEPT ![cur] = o]
      /\ \/ Fail
         \/ phase' = "record" /\ UNCHANGED <<batch, svhs, outcome>>
      /\ UNCHANGED <<src, manifest, compiler, meta, mir, fp, out, cur, force,
                     emit, graph, work, quiet, tainted, edits, builds>>
  BY DEF Codegen, envVars, o
<1>4. bin' \in OnDisk(BinFile)
  BY <1>1, <1>2, <1>3 DEF TypeInv, TypeOK, OnDisk
<1>5. TypeOK'
  BY <1>3, <1>4 DEF Fail, TypeInv, TypeOK, Phase
<1>6. WorkOK'
  <2>1. Needed(cur)' = Needed(cur)
    BY <1>3 DEF Needed, Nodes, AllPackages
  <2> QED
    BY <1>1, <1>3, <2>1 DEF Fail, TypeInv, WorkOK, Compiling
<1> QED
  BY <1>5, <1>6 DEF TypeInv

\* Writing the fingerprint.
LEMMA RecordFingerprintTypeInv ==
  ASSUME TypeInv, RecordFingerprint
  PROVE  TypeInv'
<1> DEFINE f == [compiler |-> compiler, manifest |-> work.manifest,
                 own |-> OwnHashes(cur), deps |-> DepHashes(cur),
                 sources |-> work.sources]
<1>1. /\ work.sources \in Source /\ meta[cur] \in MetaFile
      /\ mir[cur] \in MirFile /\ cur \in All
  BY DEF RecordFingerprint, TypeInv, TypeOK, WorkOK, Compiling
<1>2. OwnHashes(cur) \in PackageHashes
  BY <1>1, SvhType DEF OwnHashes, PackageHashes
<1>3. f \in Fingerprint
  BY <1>1, <1>2, DepHashesType DEF TypeInv, TypeOK, Fingerprint
<1> HIDE DEF f
<1>4. /\ fp' = [fp EXCEPT ![cur] = f] /\ Finish(cur, OwnHashes(cur))
      /\ tainted' \subseteq tainted
      /\ UNCHANGED <<src, manifest, compiler, meta, mir, bin, out, cur, force,
                     emit, graph, work, quiet, edits, builds>>
  BY DEF RecordFingerprint, envVars, f
<1>5. /\ phase' \in {"idle", "deps", "collect"} /\ batch' \subseteq Package
      /\ svhs' \in HashTable
      /\ outcome' \in {"none", "running", "ok", "failed", "crashed"}
  BY <1>1, <1>2, <1>4, FinishType DEF TypeInv
<1>6. fp' \in OnDisk(Fingerprint)
  BY <1>1, <1>3, <1>4 DEF TypeInv, TypeOK, OnDisk
<1>7. TypeOK'
  BY <1>4, <1>5, <1>6 DEF TypeInv, TypeOK, Phase
<1>8. WorkOK'
  BY <1>5 DEF WorkOK, Compiling
<1> QED
  BY <1>7, <1>8 DEF TypeInv

\* Copying outputs, to the end or up to a crash.
LEMMA CopyBinsType ==
  ASSUME TypeOK, NEW done
  PROVE  CopyBins(done) \in [Package -> BinFile \union {Absent, Torn}]
  BY DEF CopyBins, TypeOK, OnDisk, All

LEMMA CollectDepBinsTypeInv ==
  ASSUME TypeInv, CollectDepBins
  PROVE  TypeInv'
<1>1. out' \in [Package -> BinFile \union {Absent, Torn}]
  <2>1. CASE emit \/ ~CollectsDependencyBins
    BY <2>1 DEF CollectDepBins, TypeInv, TypeOK
  <2>2. CASE ~(emit \/ ~CollectsDependencyBins) /\ \E q \in Nodes : bin[q] = Absent
    BY <2>2, CopyBinsType DEF CollectDepBins, TypeInv
  <2>3. CASE /\ ~(emit \/ ~CollectsDependencyBins)
             /\ ~ \E q \in Nodes : bin[q] = Absent
    BY <2>3 DEF CollectDepBins, TypeInv, TypeOK, OnDisk, All
  <2> QED
    BY <2>1, <2>2, <2>3
<1>2. /\ phase' \in {"idle", "root"} /\ UNCHANGED <<batch, svhs>>
      /\ outcome' \in {outcome, "failed"}
  BY DEF CollectDepBins, Fail
<1>3. TypeOK'
  BY <1>1, <1>2 DEF CollectDepBins, TypeInv, TypeOK, envVars, Phase
<1>4. WorkOK'
  BY <1>2 DEF WorkOK, Compiling
<1> QED
  BY <1>3, <1>4 DEF TypeInv

\* The build is killed.
LEMMA HaltTypeInv ==
  ASSUME TypeInv, Halt,
         meta' \in OnDisk(MetaFile), mir' \in OnDisk(MirFile),
         bin' \in OnDisk(BinFile), fp' \in OnDisk(Fingerprint),
         out' \in [Package -> BinFile \union {Absent, Torn}],
         tainted' \subseteq All
  PROVE  TypeInv'
<1>1. TypeOK'
  BY DEF Halt, TypeInv, TypeOK, envVars, Phase
<1>2. WorkOK'
  BY DEF Halt, WorkOK, Compiling
<1> QED
  BY <1>1, <1>2 DEF TypeInv

LEMMA CrashTypeInv ==
  ASSUME TypeInv, Crash \/ TornWrite \/ CrashInCollect
  PROVE  TypeInv'
<1>1. CASE Crash
  BY <1>1, HaltTypeInv DEF Crash, diskVars, TypeInv, TypeOK
<1>2. CASE TornWrite
  <2>1. /\ meta' \in {meta, [meta EXCEPT ![cur] = Torn]}
        /\ mir' \in {mir, [mir EXCEPT ![cur] = Torn]}
        /\ bin' \in {bin, [bin EXCEPT ![cur] = Torn]}
        /\ fp' \in {fp, [fp EXCEPT ![cur] = Torn]}
        /\ tainted' \in {tainted, tainted \union {cur}}
        /\ Halt /\ out' = out
    BY <1>2 DEF TornWrite
  <2>2. /\ meta' \in OnDisk(MetaFile) /\ mir' \in OnDisk(MirFile)
        /\ bin' \in OnDisk(BinFile) /\ fp' \in OnDisk(Fingerprint)
    BY <2>1 DEF TypeInv, TypeOK, OnDisk
  <2> QED
    BY <2>1, <2>2, HaltTypeInv DEF TypeInv, TypeOK
<1>3. CASE CrashInCollect
  BY <1>3, CopyBinsType, HaltTypeInv DEF CrashInCollect, TypeInv, TypeOK
<1> QED
  BY <1>1, <1>2, <1>3

\* The steps of the user.
LEMMA EditTypeInv ==
  ASSUME TypeInv, NEW p \in All,
         \/ \E s \in SourcesOf[p] : EditSource(p, s)
         \/ \E d \in ManifestsOf[p] : EditManifest(p, d)
         \/ \E c \in Compilers : UpgradeCompiler(c)
  PROVE  TypeInv'
<1>1. /\ src' \in [All -> Source] /\ manifest' \in [All -> SUBSET Package]
      /\ compiler' \in Compilers
  BY EnvironmentAssumption
  DEF EditSource, EditManifest, UpgradeCompiler, TypeInv, TypeOK
<1>2. UserStep /\ UNCHANGED diskVars
  BY DEF EditSource, EditManifest, UpgradeCompiler
<1>3. edits' \in 0 .. MaxEdits
  BY <1>2, EnvironmentAssumption DEF UserStep, TypeInv, TypeOK
<1>4. TypeOK'
  BY <1>1, <1>2, <1>3
  DEF UserStep, driverVars, diskVars, TypeInv, TypeOK
<1>5. Needed(cur)' = Needed(cur)
  BY <1>2 DEF UserStep, driverVars, Needed, Nodes, AllPackages
<1>6. WorkOK'
  BY <1>2, <1>5 DEF UserStep, driverVars, diskVars, TypeInv, WorkOK
<1> QED
  BY <1>4, <1>6 DEF TypeInv

LEMMA RemoveFileTypeInv ==
  ASSUME TypeInv, NEW p \in All, RemoveFile(p)
  PROVE  TypeInv'
<1>1. /\ meta' \in {meta, [meta EXCEPT ![p] = Absent]}
      /\ mir' \in {mir, [mir EXCEPT ![p] = Absent]}
      /\ bin' \in {bin, [bin EXCEPT ![p] = Absent]}
      /\ fp' \in {fp, [fp EXCEPT ![p] = Absent]}
      /\ UserStep /\ phase = "idle" /\ UNCHANGED <<envVars, out>>
  BY DEF RemoveFile
<1>2. /\ meta' \in OnDisk(MetaFile) /\ mir' \in OnDisk(MirFile)
      /\ bin' \in OnDisk(BinFile) /\ fp' \in OnDisk(Fingerprint)
  BY <1>1 DEF TypeInv, TypeOK, OnDisk
<1>3. edits' \in 0 .. MaxEdits
  BY <1>1, EnvironmentAssumption DEF UserStep, TypeInv, TypeOK
<1>4. TypeOK'
  BY <1>1, <1>2, <1>3 DEF UserStep, driverVars, envVars, TypeInv, TypeOK
<1>5. WorkOK'
  BY <1>1 DEF UserStep, driverVars, WorkOK, Compiling
<1> QED
  BY <1>4, <1>5 DEF TypeInv

\* Every step keeps the types.
THEOREM NextTypeInv == TypeInv /\ [Next]_vars => TypeInv'
<1> SUFFICES ASSUME TypeInv, [Next]_vars PROVE TypeInv'
  OBVIOUS
<1>1. CASE Driver
  BY <1>1, ReusePackageTypeInv, BeginRebuildTypeInv, AnalyzeTypeInv,
     InferTypeInv, CodegenTypeInv, RecordFingerprintTypeInv,
     CollectDepBinsTypeInv
  DEF Driver
<1>2. CASE Environment
  BY <1>2, StartBuildTypeInv, CrashTypeInv, EditTypeInv, RemoveFileTypeInv
  DEF Environment, All
<1>3. CASE UNCHANGED vars
  <2>1. TypeOK'
    BY <1>3 DEF vars, envVars, diskVars, driverVars, TypeInv, TypeOK
  <2>2. Needed(cur)' = Needed(cur)
    BY <1>3 DEF vars, driverVars, Needed, Nodes, AllPackages
  <2>3. WorkOK'
    BY <1>3, <2>2 DEF vars, diskVars, driverVars, TypeInv, WorkOK
  <2> QED
    BY <2>1, <2>3 DEF TypeInv
<1> QED
  BY <1>1, <1>2, <1>3 DEF Next

\* Every variable keeps its type, and while a package is compiled the files
\* of its dependencies are whole: no pass of build_or_reuse_package reads a
\* file that is missing or torn.
THEOREM TypeCorrect == Spec => []TypeInv
  BY InitTypeInv, NextTypeInv, PTL DEF Spec

\* Type correctness alone.
THEOREM TypesHold == Spec => []TypeOK
<1>1. TypeInv => TypeOK
  BY DEF TypeInv
<1> QED
  BY <1>1, TypeCorrect, PTL

-----------------------------------------------------------------------------

(***************************************************************************)
(* The inductive invariant, in four parts.                                 *)
(***************************************************************************)

\* The packages are built in the order of the graph.
OrderInv ==
  phase # "idle" =>
    /\ ~Cyclic(graph)
    /\ batch \subseteq Nodes \ Built
    /\ \A q \in Built \union batch : graph[q] \subseteq Built
    /\ phase \in {"collect", "root"} => Nodes \subseteq Built
    /\ phase \in Compiling =>
         cur \in batch \/ (cur = Root /\ Nodes \subseteq Built)

\* The hashes in memory are those of the files of untainted packages.
HashInv ==
  phase # "idle" =>
    \A q \in Built \ tainted : svhs[q] = OwnHashes(q)

\* What the compilation of `cur` has written so far.
CompileInv ==
  /\ phase \in {"infer", "codegen", "record"} =>
       /\ cur \in tainted
       /\ meta[cur] = MetaOf(work.loaded, DepFiles(cur), DepHashes(cur), compiler)
  /\ phase \in {"codegen", "record"} =>
       mir[cur] = MirOf(work.loaded, DepFiles(cur), compiler)
  /\ phase = "record" /\ ProducesBinary(work.loaded) =>
       bin[cur] = BinOf(work.loaded, work.manifest, DepFiles(cur), compiler)

\* The fingerprint f of p describes the files of p that are there.
Describes(f, p) ==
  /\ meta[p] \in {Absent, MetaOf(f.sources, f.deps, f.deps, f.compiler)}
  /\ f.own = [svh |-> Svh(MetaOf(f.sources, f.deps, f.deps, f.compiler)),
              mir |-> MirOf(f.sources, f.deps, f.compiler)]
  /\ mir[p] \in {Absent, f.own.mir}
  /\ ProducesBinary(f.sources) =>
       bin[p] \in {Absent, BinOf(f.sources, f.manifest, f.deps, f.compiler)}

RecordInv ==
  \A p \in All \ tainted : Readable(fp[p]) => Describes(fp[p], p)

BuildInv == OrderInv /\ HashInv /\ CompileInv /\ RecordInv

-----------------------------------------------------------------------------
(* The order of the build. *)

\* What a package that is judged or compiled needs is built, and it is not.
LEMMA NeededAreBuilt ==
  ASSUME TypeOK, OrderInv, NEW p \in All,
         Eligible(p) \/ (phase \in Compiling /\ p = cur)
  PROVE  Needed(p) \subseteq Built /\ p \notin Built
<1>1. phase # "idle" /\ Built \subseteq Package
  BY DEF Eligible, Compiling, Built
<1>2. CASE p \in batch
  <2>1. p # Root /\ p \notin Built
    BY <1>1, <1>2, EnvironmentAssumption DEF OrderInv, TypeOK
  <2>2. graph[p] \subseteq Built /\ Closed(graph, Built)
    BY <1>1, <1>2 DEF OrderInv, Closed
  <2>3. TransitiveDeps(graph, p) \subseteq Built
    BY <1>1, <2>2, TransitiveDepsLeast
  <2> QED
    BY <2>1, <2>3 DEF Needed
<1>3. CASE p = Root /\ Nodes \subseteq Built
  BY <1>1, <1>3, EnvironmentAssumption DEF Needed
<1> QED
  BY <1>1, <1>2, <1>3 DEF Eligible, OrderInv

\* Finishing p moves it from the batch to the built packages.
LEMMA FinishOrder ==
  ASSUME TypeOK, OrderInv, NEW p \in All, NEW h \in PackageHashes,
         Eligible(p) \/ (phase \in Compiling /\ p = cur),
         Finish(p, h), UNCHANGED <<graph, cur>>
  PROVE  /\ OrderInv'
         /\ phase' # "idle" => Built' = Built \union {p} /\ svhs' = [svhs EXCEPT ![p] = h]
<1>1. CASE p = Root
  BY <1>1 DEF Finish, OrderInv
<1>2. CASE p # Root
  <2>1. p \in Package /\ h # Absent /\ phase # "idle"
    BY <1>2, MarkerAssumption DEF All, Eligible, Compiling
  <2>2. svhs' = [svhs EXCEPT ![p] = h] /\ Built' = Built \union {p}
    BY <1>2, <2>1 DEF Finish, Built, TypeOK, HashTable
  <2>3. p \in batch
    BY <1>2, <2>1 DEF OrderInv, Eligible
  <2>4. /\ graph \in [All -> SUBSET Package] /\ ~Cyclic(graph)
        /\ graph[p] \subseteq Built /\ batch \subseteq Nodes \ Built
        /\ \A q \in Built \union batch : graph[q] \subseteq Built
    BY <2>1, <2>3 DEF OrderInv, TypeOK
  <2>5. /\ batch' = IF batch = {p} THEN Ready(graph, Built \union {p})
                    ELSE batch \ {p}
        /\ phase' = IF batch' = {} THEN "collect" ELSE "deps"
    BY <1>2 DEF Finish
  <2>6. Nodes' = Nodes /\ Cyclic(graph)' = Cyclic(graph)
    BY DEF Nodes, AllPackages, Cyclic
  <2>7. /\ batch' \subseteq Nodes \ Built'
        /\ \A q \in batch' : graph[q] \subseteq Built'
    BY <2>2, <2>4, <2>5 DEF Ready, Nodes
  <2>8. \A q \in Built' : graph[q] \subseteq Built'
    BY <2>2, <2>4
  <2>9. phase' = "collect" => Nodes \subseteq Built'
    <3> SUFFICES ASSUME phase' = "collect" PROVE Nodes \subseteq Built'
      OBVIOUS
    <3>1. batch' = {} /\ batch = {p}
      BY <2>3, <2>5
    <3>2. Ready(graph, Built \union {p}) = {}
      BY <2>5, <3>1
    <3> QED
      BY <2>2, <2>4, <3>2, NothingLeft DEF Nodes
  <2>10. phase' \in {"collect", "deps"}
    BY <2>5
  <2> QED
    BY <2>2, <2>4, <2>6, <2>7, <2>8, <2>9, <2>10 DEF OrderInv, Compiling
<1> QED
  BY <1>1, <1>2

-----------------------------------------------------------------------------
(* Every step keeps the invariant. *)

LEMMA InitBuildInv == Init => BuildInv
  BY DEF Init, BuildInv, OrderInv, HashInv, CompileInv, RecordInv, Readable

LEMMA StartBuildInv ==
  ASSUME TypeInv, BuildInv, NEW f \in BOOLEAN, NEW e \in BOOLEAN, StartBuild(f, e)
  PROVE  BuildInv'
<1>1. Built' = {}
  BY DEF StartBuild, Built
<1>2. OrderInv'
  <2>1. CASE Cyclic(manifest)
    BY <2>1 DEF StartBuild, OrderInv
  <2>2. CASE ~Cyclic(manifest)
    <3>1. /\ graph' = manifest /\ batch' = Ready(manifest, {})
          /\ phase' = IF batch' = {} THEN "collect" ELSE "deps"
          /\ manifest \in [All -> SUBSET Package]
          /\ Cyclic(graph)' = Cyclic(manifest) /\ Nodes' = AllPackages(manifest)
      BY <2>2 DEF StartBuild, TypeInv, TypeOK, Cyclic, Nodes, AllPackages
    <3>2. batch' = {} => Nodes' = {}
      BY <2>2, <3>1, NothingLeft
    <3>3. \A q \in batch' : graph'[q] = {}
      BY <3>1 DEF Ready
    <3>4. batch' \subseteq Nodes'
      BY <3>1 DEF Ready
    <3> QED
      BY <1>1, <2>2, <3>1, <3>2, <3>3, <3>4 DEF OrderInv, Compiling
  <2> QED
    BY <2>1, <2>2
<1>3. HashInv'
  BY <1>1 DEF HashInv
<1>4. CompileInv'
  BY DEF StartBuild, CompileInv
<1>5. RecordInv'
  BY DEF BuildInv, StartBuild, RecordInv, Describes, diskVars
<1> QED
  BY <1>2, <1>3, <1>4, <1>5 DEF BuildInv

\* Handing on the recorded hashes is handing on those of the files.
LEMMA ReusePackageInv ==
  ASSUME TypeInv, BuildInv, NEW p \in All, ReusePackage(p)
  PROVE  BuildInv'
<1>1. /\ Eligible(p) /\ IsFresh(p, DepHashes(p)) /\ Finish(p, fp[p].own)
      /\ UNCHANGED <<src, manifest, compiler, meta, mir, bin, fp, out, cur,
                     graph, work, tainted>>
  BY DEF ReusePackage, envVars, diskVars
<1>2. fp[p].own \in PackageHashes /\ Readable(fp[p])
  BY <1>1 DEF IsFresh, Readable, TypeInv, TypeOK, OnDisk, Fingerprint
<1>3. OrderInv' /\ (phase' # "idle" => /\ Built' = Built \union {p}
                                        /\ svhs' = [svhs EXCEPT ![p] = fp[p].own])
  BY <1>1, <1>2, FinishOrder DEF TypeInv, BuildInv
<1>4. p \notin tainted => fp[p].own = OwnHashes(p)
  <2> SUFFICES ASSUME p \notin tainted PROVE fp[p].own = OwnHashes(p)
    OBVIOUS
  <2>1. Describes(fp[p], p) /\ meta[p] # Absent /\ mir[p] # Absent
    BY <1>1, <1>2 DEF BuildInv, RecordInv, IsFresh
  <2>2. /\ fp[p].own.svh = Svh(meta[p]) /\ fp[p].own.mir = mir[p]
    BY <2>1 DEF Describes
  <2> QED
    BY <1>2, <2>2 DEF OwnHashes, PackageHashes
<1>5. HashInv'
  <2> SUFFICES ASSUME phase' # "idle", NEW q \in Built' \ tainted'
               PROVE  svhs'[q] = OwnHashes(q)'
    BY DEF HashInv
  <2>1. phase # "idle" /\ Built \subseteq Package /\ OwnHashes(q)' = OwnHashes(q)
    BY <1>1 DEF Eligible, Built, OwnHashes
  <2>2. q \in Built \ tainted => svhs[q] = OwnHashes(q)
    BY <2>1 DEF BuildInv, HashInv
  <2>3. q \in Package /\ q \in DOMAIN svhs
    BY DEF Built, TypeInv, TypeOK, HashTable
  <2> QED
    BY <1>1, <1>3, <1>4, <2>1, <2>2, <2>3
<1>6. CompileInv'
  <2>1. phase' \in {"idle", "deps", "collect"}
    BY <1>1, <1>2, FinishType DEF TypeInv
  <2> QED
    BY <2>1 DEF CompileInv
<1>7. RecordInv'
  BY <1>1 DEF BuildInv, RecordInv, Describes
<1> QED
  BY <1>3, <1>5, <1>6, <1>7 DEF BuildInv

LEMMA BeginRebuildInv ==
  ASSUME TypeInv, BuildInv, NEW p \in All, BeginRebuild(p)
  PROVE  BuildInv'
<1>1. /\ Eligible(p) /\ cur' = p /\ phase' \in {"analyze", "idle"}
      /\ UNCHANGED <<meta, mir, bin, fp, graph, tainted, batch, svhs>>
  BY DEF BeginRebuild, diskVars, Fail
<1>2. Nodes' = Nodes /\ Built' = Built /\ Cyclic(graph)' = Cyclic(graph)
  BY <1>1 DEF Nodes, AllPackages, Built, Cyclic
<1>3. OrderInv'
  BY <1>1, <1>2 DEF BuildInv, OrderInv, Eligible, Compiling
<1>4. HashInv'
  BY <1>1, <1>2 DEF BuildInv, HashInv, Eligible, OwnHashes
<1>5. CompileInv'
  BY <1>1 DEF CompileInv
<1>6. RecordInv'
  BY <1>1 DEF BuildInv, RecordInv, Describes
<1> QED
  BY <1>3, <1>4, <1>5, <1>6 DEF BuildInv

\* A compilation writes only the files of `cur`, so what it reads stays.
LEMMA CompilationFrame ==
  ASSUME TypeInv, BuildInv, phase \in Compiling,
         \A q \in All \ {cur} : meta'[q] = meta[q] /\ mir'[q] = mir[q],
         UNCHANGED <<cur, graph>>
  PROVE  /\ Needed(cur)' = Needed(cur)
         /\ DepFiles(cur)' = DepFiles(cur)
         /\ \A q \in Built : OwnHashes(q)' = OwnHashes(q)
<1>1. Needed(cur) \subseteq Built /\ cur \notin Built /\ Built \subseteq All
  BY NeededAreBuilt DEF TypeInv, TypeOK, BuildInv, Built, All
<1>2. Needed(cur)' = Needed(cur)
  BY DEF Needed, Nodes, AllPackages
<1>3. \A q \in Built : OwnHashes(q)' = OwnHashes(q)
  BY <1>1 DEF OwnHashes
<1>4. \A q \in Needed(cur) : meta'[q] = meta[q] /\ mir'[q] = mir[q]
  BY <1>1
<1>5. DepFiles(cur)' = DepFiles(cur)
  BY <1>2, <1>4 DEF DepFiles, Svh
<1> QED
  BY <1>2, <1>3, <1>5

\* The next phase of the same compilation.
LEMMA CompilationGoesOn ==
  ASSUME TypeInv, BuildInv, phase \in Compiling, phase' \in Compiling,
         \A q \in All \ {cur} : meta'[q] = meta[q] /\ mir'[q] = mir[q],
         UNCHANGED <<cur, graph, batch, svhs>>,
         tainted \subseteq tainted'
  PROVE  OrderInv' /\ HashInv' /\ DepHashes(cur)' = DepHashes(cur)
<1>1. /\ Nodes' = Nodes /\ Built' = Built /\ Cyclic(graph)' = Cyclic(graph)
      /\ phase # "idle"
  BY DEF Nodes, AllPackages, Built, Cyclic, Compiling
<1>2. OrderInv'
  BY <1>1 DEF BuildInv, OrderInv, Compiling
<1>3. HashInv'
  BY <1>1, CompilationFrame DEF BuildInv, HashInv
<1>4. DepHashes(cur)' = DepHashes(cur)
  BY CompilationFrame DEF DepHashes
<1> QED
  BY <1>2, <1>3, <1>4

\* The build ends, or the environment acts while none runs.
LEMMA IdleInv ==
  ASSUME phase' = "idle", RecordInv'
  PROVE  BuildInv'
  BY DEF BuildInv, OrderInv, HashInv, CompileInv

\* Only files of a tainted package change.
LEMMA RecordsKept ==
  ASSUME BuildInv, NEW p \in tainted',
         \A q \in All \ {p} : /\ meta'[q] = meta[q] /\ mir'[q] = mir[q]
                              /\ bin'[q] = bin[q] /\ fp'[q] = fp[q],
         tainted \subseteq tainted'
  PROVE  RecordInv'
  BY DEF BuildInv, RecordInv, Describes

LEMMA AnalyzeInv ==
  ASSUME TypeInv, BuildInv, Analyze
  PROVE  BuildInv'
<1>1. /\ phase = "analyze" /\ phase \in Compiling /\ cur \in All
      /\ UNCHANGED <<cur, graph, mir, bin, fp>>
  BY DEF Analyze, Compiling, TypeInv, TypeOK
<1>2. CASE src[cur].error = "resolve"
  <2>1. phase' = "idle" /\ UNCHANGED <<meta, tainted>>
    BY <1>2 DEF Analyze, Fail
  <2>2. RecordInv'
    BY <1>1, <2>1 DEF BuildInv, RecordInv, Describes
  <2> QED
    BY <2>1, <2>2, IdleInv
<1>3. CASE src[cur].error # "resolve"
  <2> DEFINE m == MetaOf(src[cur], DepFiles(cur), DepHashes(cur), compiler)
  <2>1. /\ meta' = [meta EXCEPT ![cur] = m] /\ work'.loaded = src[cur]
        /\ tainted' = tainted \union {cur} /\ phase' = "infer"
        /\ UNCHANGED <<batch, svhs, compiler>>
    BY <1>3 DEF Analyze, envVars, TypeInv, TypeOK
  <2>2. meta'[cur] = m /\ \A q \in All \ {cur} : meta'[q] = meta[q]
    BY <1>1, <2>1 DEF TypeInv, TypeOK, OnDisk
  <2> HIDE DEF m
  <2>3. phase' \in Compiling
    BY <2>1 DEF Compiling
  <2>4. OrderInv' /\ HashInv' /\ DepHashes(cur)' = DepHashes(cur)
    BY <1>1, <2>1, <2>2, <2>3, CompilationGoesOn
  <2>5. DepFiles(cur)' = DepFiles(cur)
    BY <1>1, <2>2, CompilationFrame
  <2>6. CompileInv'
    BY <1>1, <2>1, <2>2, <2>4, <2>5 DEF CompileInv, m, MetaOf, SvhsIn, ExternalTypes
  <2>7. RecordInv'
    BY <1>1, <2>1, <2>2, RecordsKept
  <2> QED
    BY <2>4, <2>6, <2>7 DEF BuildInv
<1> QED
  BY <1>2, <1>3

LEMMA InferInv ==
  ASSUME TypeInv, BuildInv, Infer
  PROVE  BuildInv'
<1> DEFINE m == MirOf(work.loaded, DepFiles(cur), compiler)
           h == [svh |-> Svh(meta[cur]), mir |-> m]
<1>1. /\ phase = "infer" /\ phase \in Compiling /\ cur \in All /\ cur \in tainted
      /\ meta[cur] = MetaOf(work.loaded, DepFiles(cur), DepHashes(cur), compiler)
      /\ UNCHANGED <<cur, graph, meta, bin, fp, work, compiler, tainted>>
  BY DEF Infer, Compiling, TypeInv, TypeOK, BuildInv, CompileInv, envVars
<1>2. m \in MirFile /\ h \in PackageHashes
  <2>1. work.loaded \in Source /\ meta[cur] \in MetaFile /\ compiler \in Compilers
    BY <1>1 DEF TypeInv, WorkOK, TypeOK
  <2>2. m \in MirFile
    BY <1>1, <2>1, DepFilesType, MirOfType
  <2> QED
    BY <2>1, <2>2, SvhType DEF PackageHashes
<1>3. \/ Fail
      \/ /\ mir' = [mir EXCEPT ![cur] = m] /\ phase' = "codegen"
         /\ UNCHANGED <<batch, svhs>>
      \/ Finish(cur, h)
  BY DEF Infer
<1>4. mir' \in {mir, [mir EXCEPT ![cur] = m]}
  BY DEF Infer
<1> HIDE DEF m, h
<1>5. \A q \in All \ {cur} : mir'[q] = mir[q]
  BY <1>1, <1>4 DEF TypeInv, TypeOK, OnDisk
<1>6. RecordInv'
  BY <1>1, <1>5, RecordsKept
<1>7. CASE Fail
  BY <1>6, <1>7, IdleInv DEF Fail
<1>8. CASE /\ mir' = [mir EXCEPT ![cur] = m] /\ phase' = "codegen"
           /\ UNCHANGED <<batch, svhs>>
  <2>1. phase' \in Compiling /\ mir'[cur] = m
    BY <1>1, <1>8 DEF Compiling, TypeInv, TypeOK, OnDisk
  <2>2. OrderInv' /\ HashInv' /\ DepHashes(cur)' = DepHashes(cur)
    BY <1>1, <1>5, <1>8, <2>1, CompilationGoesOn
  <2>3. DepFiles(cur)' = DepFiles(cur)
    BY <1>1, <1>5, CompilationFrame
  <2>4. CompileInv'
    BY <1>1, <1>8, <2>1, <2>2, <2>3
    DEF CompileInv, m, MetaOf, MirOf, SvhsIn, ExternalTypes
  <2> QED
    BY <1>6, <2>2, <2>4 DEF BuildInv
<1>9. CASE Finish(cur, h)
  <2>1. /\ OrderInv'
        /\ phase' # "idle" => /\ Built' = Built \union {cur}
                              /\ svhs' = [svhs EXCEPT ![cur] = h]
    BY <1>1, <1>2, <1>9, FinishOrder DEF TypeInv, BuildInv
  <2>2. phase' \in {"idle", "deps", "collect"}
    BY <1>1, <1>2, <1>9, FinishType DEF TypeInv
  <2>3. HashInv'
    <3> SUFFICES ASSUME phase' # "idle", NEW q \in Built' \ tainted'
                 PROVE  svhs'[q] = OwnHashes(q)'
      BY DEF HashInv
    <3>1. q \in Built \ tainted /\ q # cur /\ q \in Package
      BY <1>1, <2>1 DEF Built
    <3>2. svhs[q] = OwnHashes(q)
      BY <1>1, <3>1 DEF BuildInv, HashInv, Compiling
    <3> QED
      BY <1>1, <1>5, <2>1, <3>1, <3>2, CompilationFrame
      DEF TypeInv, TypeOK, HashTable
  <2>4. CompileInv'
    BY <2>2 DEF CompileInv
  <2> QED
    BY <1>6, <2>1, <2>3, <2>4 DEF BuildInv
<1> QED
  BY <1>3, <1>7, <1>8, <1>9

LEMMA CodegenInv ==
  ASSUME TypeInv, BuildInv, Codegen
  PROVE  BuildInv'
<1> DEFINE o == BinOf(work.loaded, work.manifest, DepFiles(cur), compiler)
<1>1. /\ phase = "codegen" /\ phase \in Compiling /\ cur \in All /\ cur \in tainted
      /\ meta[cur] = MetaOf(work.loaded, DepFiles(cur), DepHashes(cur), compiler)
      /\ mir[cur] = MirOf(work.loaded, DepFiles(cur), compiler)
      /\ UNCHANGED <<cur, graph, meta, mir, fp, work, compiler, tainted>>
  BY DEF Codegen, Compiling, TypeInv, TypeOK, BuildInv, CompileInv, envVars
<1>2. /\ bin' \in {bin, [bin EXCEPT ![cur] = o]}
      /\ \/ Fail
         \/ /\ ProducesBinary(work.loaded) => bin' = [bin EXCEPT ![cur] = o]
            /\ phase' = "record" /\ UNCHANGED <<batch, svhs>>
  BY DEF Codegen
<1> HIDE DEF o
<1>3. \A q \in All \ {cur} : bin'[q] = bin[q]
  BY <1>1, <1>2 DEF TypeInv, TypeOK, OnDisk
<1>4. RecordInv'
  BY <1>1, <1>3, RecordsKept
<1>5. CASE Fail
  BY <1>4, <1>5, IdleInv DEF Fail
<1>6. CASE /\ ProducesBinary(work.loaded) => bin' = [bin EXCEPT ![cur] = o]
           /\ phase' = "record" /\ UNCHANGED <<batch, svhs>>
  <2>1. phase' \in Compiling
    BY <1>6 DEF Compiling
  <2>2. ProducesBinary(work.loaded) => bin'[cur] = o
    BY <1>1, <1>6 DEF TypeInv, TypeOK, OnDisk
  <2>3. OrderInv' /\ HashInv' /\ DepHashes(cur)' = DepHashes(cur)
    BY <1>1, <1>6, <2>1, CompilationGoesOn
  <2>4. DepFiles(cur)' = DepFiles(cur)
    BY <1>1, CompilationFrame
  <2>5. CompileInv'
    BY <1>1, <1>6, <2>2, <2>3, <2>4
    DEF CompileInv, o, MetaOf, MirOf, BinOf, SvhsIn, MirsIn, ExternalTypes
  <2> QED
    BY <1>4, <2>3, <2>5 DEF BuildInv
<1> QED
  BY <1>2, <1>5, <1>6

\* If no dependency is tainted, the hashes in memory are those on disk.
LEMMA HashesAreThoseOnDisk ==
  ASSUME TypeInv, BuildInv, NEW p \in All,
         Eligible(p) \/ (phase \in Compiling /\ p = cur),
         Needed(p) \cap tainted = {}
  PROVE  DepHashes(p) = DepFiles(p)
<1>1. Needed(p) \subseteq Built /\ phase # "idle"
  BY NeededAreBuilt DEF TypeInv, BuildInv, Eligible, Compiling
<1>2. \A q \in Needed(p) : svhs[q] = OwnHashes(q)
  BY <1>1 DEF BuildInv, HashInv
<1> QED
  BY <1>2 DEF DepHashes, DepFiles, OwnHashes

\* A fingerprint is recorded last, and describes what was written.
LEMMA RecordFingerprintInv ==
  ASSUME TypeInv, BuildInv, RecordFingerprint
  PROVE  BuildInv'
<1> DEFINE f == [compiler |-> compiler, manifest |-> work.manifest,
                 own |-> OwnHashes(cur), deps |-> DepHashes(cur),
                 sources |-> work.sources]
<1>1. /\ phase = "record" /\ phase \in Compiling /\ cur \in All
      /\ fp' = [fp EXCEPT ![cur] = f] /\ Finish(cur, OwnHashes(cur))
      /\ UNCHANGED <<cur, graph, meta, mir, bin>>
      /\ tainted' = IF work.sources = work.loaded /\ Needed(cur) \cap tainted = {}
                    THEN tainted \ {cur} ELSE tainted
  BY DEF RecordFingerprint, Compiling, TypeInv, TypeOK, envVars
<1>2. OwnHashes(cur) \in PackageHashes
  BY <1>1, SvhType DEF OwnHashes, PackageHashes, TypeInv, WorkOK
<1>3. /\ OrderInv'
      /\ phase' # "idle" => /\ Built' = Built \union {cur}
                            /\ svhs' = [svhs EXCEPT ![cur] = OwnHashes(cur)]
  BY <1>1, <1>2, FinishOrder DEF TypeInv, BuildInv
<1>4. HashInv'
  <2> SUFFICES ASSUME phase' # "idle", NEW q \in Built' \ tainted'
               PROVE  svhs'[q] = OwnHashes(q)'
    BY DEF HashInv
  <2>1. OwnHashes(q)' = OwnHashes(q) /\ q \in Package
    BY <1>1 DEF OwnHashes, Built
  <2>2. q # cur => svhs[q] = OwnHashes(q)
    BY <1>1, <1>3 DEF BuildInv, HashInv
  <2> QED
    BY <1>3, <2>1, <2>2 DEF TypeInv, TypeOK, HashTable
<1>5. CompileInv'
  <2>1. phase' \in {"idle", "deps", "collect"}
    BY <1>1, <1>2, FinishType DEF TypeInv
  <2> QED
    BY <2>1 DEF CompileInv
<1>6. fp'[cur] = f /\ \A q \in All \ {cur} : fp'[q] = fp[q]
  BY <1>1 DEF TypeInv, TypeOK, OnDisk
<1>7. ASSUME cur \notin tainted'
      PROVE  Describes(f, cur)
  <2>1. work.sources = work.loaded /\ Needed(cur) \cap tainted = {}
    BY <1>1, <1>7 DEF BuildInv, CompileInv
  <2>2. DepHashes(cur) = DepFiles(cur)
    BY <1>1, <2>1, HashesAreThoseOnDisk
  <2>3. /\ meta[cur] = MetaOf(f.sources, f.deps, f.deps, f.compiler)
        /\ mir[cur] = MirOf(f.sources, f.deps, f.compiler)
        /\ ProducesBinary(f.sources) =>
             bin[cur] = BinOf(f.sources, f.manifest, f.deps, f.compiler)
    BY <1>1, <2>1, <2>2 DEF BuildInv, CompileInv
  <2>4. f.own = [svh |-> Svh(meta[cur]), mir |-> mir[cur]]
    BY DEF OwnHashes
  <2> HIDE DEF f
  <2> QED
    BY <2>3, <2>4 DEF Describes
<1> HIDE DEF f
<1>8. RecordInv'
  <2> SUFFICES ASSUME NEW p \in All \ tainted', Readable(fp[p])'
               PROVE  Describes(fp[p], p)'
    BY DEF RecordInv
  <2>1. CASE p = cur
    <3>1. Describes(f, p)
      BY <1>7, <2>1
    <3> QED
      BY <1>1, <1>6, <2>1, <3>1 DEF Describes
  <2>2. CASE p # cur
    <3>1. p \in All \ tainted /\ fp'[p] = fp[p]
      BY <1>1, <1>6, <2>2
    <3>2. Describes(fp[p], p)
      BY <3>1 DEF BuildInv, RecordInv, Readable
    <3> QED
      BY <1>1, <3>1, <3>2 DEF Describes
  <2> QED
    BY <2>1, <2>2
<1> QED
  BY <1>3, <1>4, <1>5, <1>8 DEF BuildInv

LEMMA CollectDepBinsInv ==
  ASSUME TypeInv, BuildInv, CollectDepBins
  PROVE  BuildInv'
<1>1. /\ phase = "collect" /\ phase' \in {"idle", "root"}
      /\ UNCHANGED <<meta, mir, bin, fp, cur, graph, batch, svhs, tainted>>
  BY DEF CollectDepBins, Fail
<1>2. Nodes' = Nodes /\ Built' = Built /\ Cyclic(graph)' = Cyclic(graph)
  BY <1>1 DEF Nodes, AllPackages, Built, Cyclic
<1>3. OrderInv'
  BY <1>1, <1>2 DEF BuildInv, OrderInv, Compiling
<1>4. HashInv'
  BY <1>1, <1>2 DEF BuildInv, HashInv, OwnHashes
<1>5. CompileInv'
  BY <1>1 DEF CompileInv
<1>6. RecordInv'
  BY <1>1 DEF BuildInv, RecordInv, Describes
<1> QED
  BY <1>3, <1>4, <1>5, <1>6 DEF BuildInv

\* A crash leaves torn files only where the package is tainted already, or
\* where the fingerprint itself is torn.
LEMMA CrashInv ==
  ASSUME TypeInv, BuildInv, Crash \/ TornWrite \/ CrashInCollect
  PROVE  BuildInv'
<1>1. CASE Crash \/ CrashInCollect
  <2>1. phase' = "idle" /\ UNCHANGED <<meta, mir, bin, fp, tainted>>
    BY <1>1 DEF Crash, CrashInCollect, Halt, diskVars
  <2>2. RecordInv'
    BY <2>1 DEF BuildInv, RecordInv, Describes
  <2> QED
    BY <2>1, <2>2, IdleInv
<1>2. CASE TornWrite
  <2>1. /\ phase' = "idle" /\ cur \in All
        /\ \/ cur \in tainted' /\ tainted \subseteq tainted' /\ fp' = fp
           \/ fp' = [fp EXCEPT ![cur] = Torn] /\ UNCHANGED <<meta, mir, bin, tainted>>
        /\ meta' \in {meta, [meta EXCEPT ![cur] = Torn]}
        /\ mir' \in {mir, [mir EXCEPT ![cur] = Torn]}
        /\ bin' \in {bin, [bin EXCEPT ![cur] = Torn]}
    BY <1>2 DEF TornWrite, Halt, BuildInv, CompileInv, TypeInv, TypeOK
  <2>2. \A q \in All \ {cur} : meta'[q] = meta[q] /\ mir'[q] = mir[q] /\ bin'[q] = bin[q]
    BY <2>1 DEF TypeInv, TypeOK, OnDisk
  <2>3. CASE cur \in tainted' /\ tainted \subseteq tainted' /\ fp' = fp
    BY <2>1, <2>2, <2>3, RecordsKept, IdleInv
  <2>4. CASE fp' = [fp EXCEPT ![cur] = Torn] /\ UNCHANGED <<meta, mir, bin, tainted>>
    <3>1. fp'[cur] = Torn /\ \A q \in All \ {cur} : fp'[q] = fp[q]
      BY <2>1, <2>4 DEF TypeInv, TypeOK, OnDisk
    <3>2. RecordInv'
      BY <2>4, <3>1 DEF BuildInv, RecordInv, Describes, Readable
    <3> QED
      BY <2>1, <3>2, IdleInv
  <2> QED
    BY <2>1, <2>3, <2>4
<1> QED
  BY <1>1, <1>2

\* Edits touch nothing the invariant speaks of; removed files may be absent.
LEMMA EditInv ==
  ASSUME TypeInv, BuildInv, NEW p \in All,
         \/ \E s \in SourcesOf[p] : EditSource(p, s)
         \/ \E d \in ManifestsOf[p] : EditManifest(p, d)
         \/ \E c \in Compilers : UpgradeCompiler(c)
  PROVE  BuildInv'
<1>1. /\ UNCHANGED <<meta, mir, bin, fp, phase, cur, graph, batch, svhs, work,
                     tainted>>
      /\ compiler' = compiler \/ phase = "idle"
  BY DEF EditSource, EditManifest, UpgradeCompiler, UserStep, diskVars, driverVars
<1>2. RecordInv'
  BY <1>1 DEF BuildInv, RecordInv, Describes
<1>3. CASE phase = "idle"
  BY <1>1, <1>2, <1>3, IdleInv
<1>4. CASE compiler' = compiler
  <2>1. /\ Nodes' = Nodes /\ Built' = Built /\ Cyclic(graph)' = Cyclic(graph)
        /\ Needed(cur)' = Needed(cur)
    BY <1>1 DEF Nodes, AllPackages, Built, Cyclic, Needed
  <2>2. DepFiles(cur)' = DepFiles(cur) /\ DepHashes(cur)' = DepHashes(cur)
    BY <1>1, <2>1 DEF DepFiles, DepHashes, Svh
  <2>3. OrderInv'
    BY <1>1, <2>1 DEF BuildInv, OrderInv
  <2>4. HashInv'
    BY <1>1, <2>1 DEF BuildInv, HashInv, OwnHashes
  <2>5. CompileInv'
    BY <1>1, <1>4, <2>2
    DEF BuildInv, CompileInv, MetaOf, MirOf, BinOf, SvhsIn, MirsIn, ExternalTypes
  <2> QED
    BY <1>2, <2>3, <2>4, <2>5 DEF BuildInv
<1> QED
  BY <1>1, <1>3, <1>4

LEMMA RemoveFileInv ==
  ASSUME TypeInv, BuildInv, NEW p \in All, RemoveFile(p)
  PROVE  BuildInv'
<1>1. /\ phase' = "idle" /\ UNCHANGED tainted
      /\ meta' \in {meta, [meta EXCEPT ![p] = Absent]}
      /\ mir' \in {mir, [mir EXCEPT ![p] = Absent]}
      /\ bin' \in {bin, [bin EXCEPT ![p] = Absent]}
      /\ fp' \in {fp, [fp EXCEPT ![p] = Absent]}
  BY DEF RemoveFile, UserStep, driverVars
<1>2. ASSUME NEW q \in All
      PROVE  /\ meta'[q] \in {meta[q], Absent} /\ mir'[q] \in {mir[q], Absent}
             /\ bin'[q] \in {bin[q], Absent} /\ fp'[q] \in {fp[q], Absent}
  BY <1>1, <1>2 DEF TypeInv, TypeOK, OnDisk
<1>3. RecordInv'
  <2> SUFFICES ASSUME NEW q \in All \ tainted', Readable(fp[q])'
               PROVE  Describes(fp[q], q)'
    BY DEF RecordInv
  <2>1. fp'[q] = fp[q] /\ Readable(fp[q])
    BY <1>2 DEF Readable
  <2>2. Describes(fp[q], q)
    BY <1>1, <2>1 DEF BuildInv, RecordInv
  <2> QED
    BY <1>2, <2>1, <2>2 DEF Describes
<1> QED
  BY <1>1, <1>3, IdleInv

THEOREM NextBuildInv == TypeInv /\ BuildInv /\ [Next]_vars => BuildInv'
<1> SUFFICES ASSUME TypeInv, BuildInv, [Next]_vars PROVE BuildInv'
  OBVIOUS
<1>1. CASE Driver
  BY <1>1, ReusePackageInv, BeginRebuildInv, AnalyzeInv, InferInv, CodegenInv,
     RecordFingerprintInv, CollectDepBinsInv
  DEF Driver
<1>2. CASE Environment
  BY <1>2, StartBuildInv, CrashInv, EditInv, RemoveFileInv DEF Environment, All
<1>3. CASE UNCHANGED vars
  <2>1. UNCHANGED <<meta, mir, bin, fp, phase, cur, graph, batch, svhs, work,
                    tainted, compiler>>
    BY <1>3 DEF vars, envVars, diskVars, driverVars
  <2>2. /\ Nodes' = Nodes /\ Built' = Built /\ Cyclic(graph)' = Cyclic(graph)
        /\ Needed(cur)' = Needed(cur)
    BY <2>1 DEF Nodes, AllPackages, Built, Cyclic, Needed
  <2>3. DepFiles(cur)' = DepFiles(cur) /\ DepHashes(cur)' = DepHashes(cur)
    BY <2>1, <2>2 DEF DepFiles, DepHashes, Svh
  <2>4. OrderInv' /\ HashInv'
    BY <2>1, <2>2 DEF BuildInv, OrderInv, HashInv, OwnHashes
  <2>5. CompileInv'
    BY <2>1, <2>3
    DEF BuildInv, CompileInv, MetaOf, MirOf, BinOf, SvhsIn, MirsIn, ExternalTypes
  <2>6. RecordInv'
    BY <2>1 DEF BuildInv, RecordInv, Describes
  <2> QED
    BY <2>4, <2>5, <2>6 DEF BuildInv
<1> QED
  BY <1>1, <1>2, <1>3 DEF Next

\* The inductive invariant holds in every state.
THEOREM Invariance == Spec => [](TypeInv /\ BuildInv)
<1>1. Init => TypeInv /\ BuildInv
  BY InitTypeInv, InitBuildInv
<1>2. TypeInv /\ BuildInv /\ [Next]_vars => TypeInv' /\ BuildInv'
  BY NextTypeInv, NextBuildInv
<1> QED
  BY <1>1, <1>2, PTL DEF Spec

-----------------------------------------------------------------------------
(* What follows. *)

\* In every build, whatever happened before, the hashes of all dependencies
\* are known when a package is judged: build_or_reuse_package compares the
\* whole transitive closure.
THEOREM DependenciesComplete == Spec => []DepHashesComplete
<1>1. TypeInv /\ BuildInv => DepHashesComplete
  BY NeededAreBuilt DEF TypeInv, BuildInv, DepHashesComplete
<1> QED
  BY <1>1, Invariance, PTL

\* Two tables that Fingerprint::freshness cannot tell apart give the same files.
LEMMA SameDepsSameFiles ==
  ASSUME NEW d, NEW e, SameDeps(d, e), NEW s, NEW m, NEW c
  PROVE  /\ MetaOf(s, d, d, c) = MetaOf(s, e, e, c)
         /\ MirOf(s, d, c) = MirOf(s, e, c)
         /\ BinOf(s, m, d, c) = BinOf(s, m, e, c)
<1>1. SvhsIn(d) = SvhsIn(e)
  BY DEF SameDeps, SvhsIn
<1>2. ExternalTypes(s, d) = ExternalTypes(s, e)
  BY DEF SameDeps, ExternalTypes
<1>3. ConsumesDependencyMir => MirsIn(d) = MirsIn(e)
  BY DEF SameDeps, MirsIn
<1> QED
  BY <1>1, <1>2, <1>3 DEF MetaOf, MirOf, BinOf

\* What check_freshness calls fresh is what a compilation would write.
LEMMA FreshIsUpToDate ==
  ASSUME TypeInv, BuildInv, NEW p \in All, Eligible(p),
         IsFresh(p, DepHashes(p)), Untainted(p)
  PROVE  UpToDate(p)
<1> DEFINE f == fp[p]
<1>1. p \notin tainted /\ Needed(p) \cap tainted = {}
  BY DEF Untainted
<1>2. DepHashes(p) = DepFiles(p)
  BY <1>1, HashesAreThoseOnDisk
<1>3. /\ meta[p] # Absent /\ mir[p] # Absent
      /\ ProducesBinary(src[p]) => bin[p] # Absent
      /\ f.sources = src[p] /\ f.manifest = manifest[p]
      /\ f.compiler = compiler /\ SameDeps(f.deps, DepFiles(p))
      /\ Readable(f)
  BY <1>2 DEF IsFresh
<1>4. Describes(f, p)
  BY <1>1, <1>3 DEF BuildInv, RecordInv
<1> HIDE DEF f
<1>5. /\ meta[p] = MetaOf(src[p], f.deps, f.deps, compiler)
      /\ mir[p] = MirOf(src[p], f.deps, compiler)
      /\ ProducesBinary(src[p]) =>
           bin[p] = BinOf(src[p], manifest[p], f.deps, compiler)
  BY <1>3, <1>4 DEF Describes
<1> QED
  BY <1>3, <1>5, SameDepsSameFiles DEF UpToDate

\* For every graph, every history of edits, removals, upgrades, rejected
\* sources and crashes: a package that check_freshness calls fresh has the
\* files its compilation would write, unless a rebuild of it or of one of its
\* dependencies was cut short after it began to write.
THEOREM ReuseSound == Spec => []ReuseIsSound
<1>1. TypeInv /\ BuildInv => ReuseIsSound
  BY FreshIsUpToDate DEF ReuseIsSound
<1> QED
  BY <1>1, Invariance, PTL

-----------------------------------------------------------------------------
(***************************************************************************)
(* What is loaded and collected: what TypeInv and BuildInv do not say.     *)
(***************************************************************************)

\* The interface and the body of q are there, and the body names the interface.
Whole(q) ==
  Readable(meta[q]) /\ Readable(mir[q]) /\ mir[q].svh = Svh(meta[q])

\* What the dependents of a sound package will load is there.
FilesInv == phase # "idle" => \A q \in Built \ tainted : Whole(q)

\* The bodies a wasm output takes in are those load_dep_mirs has checked.
LoadedInv ==
  phase \in Compiling /\ ConsumesDependencyMir =>
    \A q \in Needed(cur) : mir[q].svh = Svh(meta[q])

\* The outputs have been copied, and no later step touches them.
Collected ==
  \A q \in Package : out[q] = IF q \in Nodes THEN bin[q] ELSE Absent

AfterCollect ==
  \/ phase = "root"
  \/ phase \in Compiling /\ cur = Root
  \/ Finished /\ quiet

CollectInv == AfterCollect /\ ~emit /\ CollectsDependencyBins => Collected

OutputInv == FilesInv /\ LoadedInv /\ CollectInv /\ NeverMixesVersions

-----------------------------------------------------------------------------
(* Each part is kept. *)

LEMMA InitOutputInv == Init => OutputInv
<1> SUFFICES ASSUME Init PROVE OutputInv
  OBVIOUS
<1>1. phase = "idle" /\ quiet = FALSE
  BY DEF Init
<1>2. \A p \in All : ~Readable(bin[p])
  BY DEF Init, Readable
<1> QED
  BY <1>1, <1>2 DEF OutputInv, FilesInv, LoadedInv, CollectInv, AfterCollect,
              Compiling, NeverMixesVersions

\* Outputs that go, or are torn, mix nothing.
LEMMA MixesKept ==
  ASSUME NeverMixesVersions,
         \A p \in All : bin'[p] \in {bin[p], Absent, Torn}
  PROVE  NeverMixesVersions'
  BY DEF NeverMixesVersions, Readable

\* The output of a compilation takes its bodies and interfaces from one table.
LEMMA OutputOfOneTable ==
  ASSUME NEW s, NEW m, NEW d, NEW c, NEW q \in Package,
         ConsumesDependencyMir /\ d[q] # Absent => d[q].mir.svh = d[q].svh,
         BinOf(s, m, d, c).mirs[q] # Absent
  PROVE  BinOf(s, m, d, c).mirs[q].svh = BinOf(s, m, d, c).env[q]
  BY DEF BinOf, MirsIn, SvhsIn

\* Files of packages that are built stay while another one is compiled.
LEMMA FilesKept ==
  ASSUME BuildInv, FilesInv, phase # "idle", UNCHANGED svhs,
         NEW p \in All \ Built,
         \A q \in All \ {p} : meta'[q] = meta[q] /\ mir'[q] = mir[q],
         tainted \subseteq tainted'
  PROVE  FilesInv'
<1>1. Built' = Built /\ Built \subseteq All
  BY DEF Built, All
<1> QED
  BY <1>1 DEF FilesInv, Whole, Svh

\* No step before the root is compiled, or after, undoes the copies.
LEMMA CollectKept ==
  ASSUME CollectInv, UNCHANGED <<emit, out, graph>>,
         \A q \in Package : bin'[q] = bin[q],
         AfterCollect' => AfterCollect
  PROVE  CollectInv'
<1>1. Collected' <=> Collected
  BY DEF Collected, Nodes, AllPackages
<1>2. CollectsDependencyBins' <=> CollectsDependencyBins
  BY DEF CollectsDependencyBins, Wasm
<1> QED
  BY <1>1, <1>2 DEF CollectInv

LEMMA StartBuildOutput ==
  ASSUME TypeInv, OutputInv, NEW f \in BOOLEAN, NEW e \in BOOLEAN, StartBuild(f, e)
  PROVE  OutputInv'
<1>1. Built' = {} /\ phase' \in {"idle", "deps", "collect"}
  BY DEF StartBuild, Built
<1>2. FilesInv'
  BY <1>1 DEF FilesInv
<1>3. LoadedInv'
  BY <1>1 DEF LoadedInv, Compiling
<1>4. CollectInv'
  <2>1. ~AfterCollect'
    BY <1>1 DEF StartBuild, AfterCollect, Finished, Compiling
  <2> QED
    BY <2>1 DEF CollectInv
<1>5. NeverMixesVersions'
  BY MixesKept DEF StartBuild, diskVars, OutputInv
<1> QED
  BY <1>2, <1>3, <1>4, <1>5 DEF OutputInv

\* What is reused is whole: its fingerprint describes it.
LEMMA FreshIsWhole ==
  ASSUME TypeInv, BuildInv, NEW p \in All \ tainted, IsFresh(p, DepHashes(p))
  PROVE  Whole(p)
<1> DEFINE f == fp[p]
<1>1. /\ f \in Fingerprint /\ meta[p] # Absent /\ mir[p] # Absent
      /\ Readable(f)
  BY DEF IsFresh, Readable, TypeInv, TypeOK, OnDisk
<1>2. Describes(f, p)
  BY <1>1 DEF BuildInv, RecordInv
<1>3. /\ f.sources \in Source /\ f.compiler \in Compilers
      /\ f.deps \in DepTable /\ f.own \in PackageHashes
  BY <1>1 DEF Fingerprint, HashTable, DepTable, OrAbsent, PackageHashes
<1> HIDE DEF f
<1>4. meta[p] \in MetaFile /\ meta[p] = MetaOf(f.sources, f.deps, f.deps, f.compiler)
  BY <1>1, <1>2, <1>3, MetaOfType DEF Describes
<1>5. mir[p] = MirOf(f.sources, f.deps, f.compiler) /\ mir[p] \in MirFile
  BY <1>1, <1>2, <1>3 DEF Describes, PackageHashes
<1> QED
  BY <1>4, <1>5, MarkerAssumption DEF Whole, Readable, MetaOf, MirOf, Svh

\* A package that joins the built ones is whole, or tainted.
LEMMA FilesGrow ==
  ASSUME FilesInv, phase # "idle", NEW p \in All \ Built,
         phase' # "idle" => Built' = Built \union {p},
         \A q \in All \ {p} : meta'[q] = meta[q] /\ mir'[q] = mir[q],
         tainted \subseteq tainted' \union {p},
         p \in tainted' \/ Whole(p)'
  PROVE  FilesInv'
<1>1. Built \subseteq All
  BY DEF Built, All
<1>2. \A q \in Built : Whole(q)' <=> Whole(q)
  BY <1>1 DEF Whole, Svh
<1> QED
  BY <1>2 DEF FilesInv

LEMMA ReusePackageOutput ==
  ASSUME TypeInv, BuildInv, OutputInv, NEW p \in All, ReusePackage(p)
  PROVE  OutputInv'
<1>1. /\ Eligible(p) /\ IsFresh(p, DepHashes(p)) /\ Finish(p, fp[p].own)
      /\ UNCHANGED <<meta, mir, bin, out, cur, emit, graph, tainted, quiet>>
  BY DEF ReusePackage, diskVars
<1>2. fp[p].own \in PackageHashes
  BY <1>1 DEF IsFresh, Readable, TypeInv, TypeOK, OnDisk, Fingerprint
<1>3. phase' # "idle" => Built' = Built \union {p}
  BY <1>1, <1>2, FinishOrder DEF TypeInv, BuildInv, ReusePackage
<1>4. phase' \in {"idle", "deps", "collect"} /\ phase # "idle" /\ p \notin Built
  BY <1>1, <1>2, FinishType, NeededAreBuilt DEF TypeInv, BuildInv, Eligible
<1>5. FilesInv'
  <2>1. p \in tainted' \/ Whole(p)'
    BY <1>1, FreshIsWhole DEF Whole, Svh
  <2> QED
    BY <1>1, <1>3, <1>4, <2>1, FilesGrow DEF OutputInv
<1>6. LoadedInv'
  BY <1>4 DEF LoadedInv, Compiling
<1>7. CollectInv'
  <2>1. phase' = "idle" => p = Root /\ phase = "root"
    BY <1>1, EnvironmentAssumption DEF Finish, Eligible, TypeInv, TypeOK
  <2>2. AfterCollect' => AfterCollect
    BY <1>4, <2>1 DEF AfterCollect, Finished, Compiling
  <2> QED
    BY <1>1, <2>2, CollectKept DEF OutputInv
<1>8. NeverMixesVersions'
  BY <1>1, MixesKept DEF OutputInv
<1> QED
  BY <1>5, <1>6, <1>7, <1>8 DEF OutputInv

LEMMA BeginRebuildOutput ==
  ASSUME TypeInv, BuildInv, OutputInv, NEW p \in All, BeginRebuild(p)
  PROVE  OutputInv'
<1>1. /\ Eligible(p) /\ cur' = p
      /\ UNCHANGED <<meta, mir, bin, out, emit, graph, tainted, quiet>>
      /\ \/ Loadable(p) /\ phase' = "analyze" /\ svhs' = svhs
         \/ phase' = "idle" /\ outcome' = "failed"
  BY DEF BeginRebuild, diskVars, Fail
<1>2. phase # "idle"
  BY <1>1 DEF Eligible
<1>3. FilesInv'
  <2>1. phase' # "idle" => UNCHANGED svhs
    BY <1>1
  <2>2. \A q : Whole(q)' <=> Whole(q)
    BY <1>1 DEF Whole, Svh
  <2> QED
    BY <1>1, <1>2, <2>1, <2>2 DEF OutputInv, FilesInv, Built
<1>4. LoadedInv'
  <2> SUFFICES ASSUME phase' \in Compiling, ConsumesDependencyMir',
                      NEW q \in Needed(p)'
               PROVE  mir[q].svh = Svh(meta[q])
    BY <1>1 DEF LoadedInv, Svh
  <2>1. Loadable(p) /\ Needed(p)' = Needed(p) /\ ConsumesDependencyMir
    BY <1>1 DEF Compiling, Needed, Nodes, AllPackages, ConsumesDependencyMir, Wasm
  <2> QED
    BY <2>1 DEF Loadable
<1>5. CollectInv'
  <2>1. p = Root => phase = "root"
    BY <1>1, EnvironmentAssumption DEF Eligible, TypeInv, TypeOK
  <2>2. AfterCollect' => AfterCollect
    BY <1>1, <2>1 DEF AfterCollect, Finished
  <2> QED
    BY <1>1, <2>2, CollectKept DEF OutputInv
<1>6. NeverMixesVersions'
  BY <1>1, MixesKept DEF OutputInv
<1> QED
  BY <1>3, <1>4, <1>5, <1>6 DEF OutputInv

\* A compilation writes only files of `cur`, which it does not load.
LEMMA LoadedKept ==
  ASSUME TypeInv, BuildInv, LoadedInv, phase \in Compiling,
         \A q \in All \ {cur} : meta'[q] = meta[q] /\ mir'[q] = mir[q],
         UNCHANGED <<cur, graph>>
  PROVE  LoadedInv'
<1>1. Needed(cur) \subseteq Built /\ cur \notin Built /\ Built \subseteq All
  BY NeededAreBuilt DEF TypeInv, TypeOK, BuildInv, Built, All
<1>2. Needed(cur)' = Needed(cur) /\ (ConsumesDependencyMir' <=> ConsumesDependencyMir)
  BY CompilationFrame DEF ConsumesDependencyMir, Wasm
<1>3. \A q \in Needed(cur) : meta'[q] = meta[q] /\ mir'[q] = mir[q]
  BY <1>1
<1> QED
  BY <1>2, <1>3 DEF LoadedInv, Svh

\* The root is the only package whose own output changes after the copies.
LEMMA CollectWhileCompiling ==
  ASSUME TypeInv, BuildInv, CollectInv, phase \in Compiling,
         UNCHANGED <<cur, emit, out, graph, quiet>>,
         \A q \in All \ {cur} : bin'[q] = bin[q],
         \/ phase' \in Compiling \/ (phase' = "idle" /\ outcome' = "failed")
         \/ \E h : Finish(cur, h)
  PROVE  CollectInv'
<1>1. CASE cur = Root
  <2>1. \A q \in Package : bin'[q] = bin[q]
    BY <1>1, EnvironmentAssumption DEF All
  <2>2. AfterCollect
    BY <1>1 DEF AfterCollect
  <2> QED
    BY <2>1, <2>2, CollectKept
<1>2. CASE cur # Root
  <2>1. ~AfterCollect'
    <3>1. CASE phase' \in Compiling
      BY <1>2, <3>1 DEF AfterCollect, Compiling, Finished
    <3>2. CASE phase' = "idle" /\ outcome' = "failed"
      BY <3>2 DEF AfterCollect, Compiling, Finished
    <3>3. CASE \E h : Finish(cur, h)
      <4>1. phase' \in {"collect", "deps"}
        BY <1>2, <3>3 DEF Finish
      <4> QED
        BY <4>1 DEF AfterCollect, Compiling, Finished
    <3> QED
      BY <3>1, <3>2, <3>3
  <2> QED
    BY <2>1 DEF CollectInv
<1> QED
  BY <1>1, <1>2

LEMMA AnalyzeOutput ==
  ASSUME TypeInv, BuildInv, OutputInv, Analyze
  PROVE  OutputInv'
<1>1. /\ phase \in Compiling /\ phase # "idle" /\ cur \in All
      /\ UNCHANGED <<cur, graph, mir, bin, out, emit, quiet>>
  BY DEF Analyze, Compiling, TypeInv, TypeOK
<1>2. /\ \A q \in All \ {cur} : meta'[q] = meta[q]
      /\ tainted \subseteq tainted'
      /\ \/ phase' = "infer" /\ UNCHANGED svhs
         \/ phase' = "idle" /\ outcome' = "failed"
  BY <1>1 DEF Analyze, Fail, TypeInv, TypeOK, OnDisk
<1>3. cur \notin Built
  BY <1>1, NeededAreBuilt DEF TypeInv, BuildInv
<1>4. FilesInv'
  BY <1>1, <1>2, <1>3, FilesKept DEF OutputInv, FilesInv
<1>5. LoadedInv'
  BY <1>1, <1>2, LoadedKept DEF OutputInv
<1>6. CollectInv'
  BY <1>1, <1>2, CollectWhileCompiling DEF OutputInv, Compiling
<1>7. NeverMixesVersions'
  BY <1>1, MixesKept DEF OutputInv
<1> QED
  BY <1>4, <1>5, <1>6, <1>7 DEF OutputInv

LEMMA InferOutput ==
  ASSUME TypeInv, BuildInv, OutputInv, Infer
  PROVE  OutputInv'
<1> DEFINE m == MirOf(work.loaded, DepFiles(cur), compiler)
           h == [svh |-> Svh(meta[cur]), mir |-> m]
<1>1. /\ phase = "infer" /\ phase \in Compiling /\ cur \in All /\ cur \in tainted
      /\ UNCHANGED <<cur, graph, meta, bin, out, emit, quiet, tainted>>
  BY DEF Infer, Compiling, TypeInv, TypeOK, BuildInv, CompileInv
<1>2. /\ mir' \in {mir, [mir EXCEPT ![cur] = m]}
      /\ \/ phase' = "codegen" /\ UNCHANGED svhs
         \/ phase' = "idle" /\ outcome' = "failed"
         \/ Finish(cur, h)
  BY DEF Infer, Fail
<1>3. h \in PackageHashes
  <2>1. /\ work.loaded \in Source /\ meta[cur] \in MetaFile
        /\ compiler \in Compilers
    BY <1>1 DEF TypeInv, WorkOK, TypeOK
  <2> QED
    BY <1>1, <2>1, DepFilesType, MirOfType, SvhType DEF PackageHashes
<1> HIDE DEF m, h
<1>4. \A q \in All \ {cur} : mir'[q] = mir[q]
  BY <1>1, <1>2 DEF TypeInv, TypeOK, OnDisk
<1>5. cur \notin Built
  BY <1>1, NeededAreBuilt DEF TypeInv, BuildInv
<1>6. FilesInv'
  <2>1. CASE phase' = "codegen" /\ UNCHANGED svhs
    BY <1>1, <1>4, <1>5, <2>1, FilesKept DEF OutputInv
  <2>2. CASE phase' = "idle"
    BY <2>2 DEF FilesInv
  <2>3. CASE Finish(cur, h)
    <3>1. phase' # "idle" => Built' = Built \union {cur}
      BY <1>1, <1>3, <2>3, FinishOrder DEF TypeInv, BuildInv
    <3> QED
      BY <1>1, <1>4, <1>5, <3>1, FilesGrow DEF OutputInv
  <2> QED
    BY <1>2, <2>1, <2>2, <2>3
<1>7. LoadedInv'
  BY <1>1, <1>4, LoadedKept DEF OutputInv
<1>8. CollectInv'
  BY <1>1, <1>2, CollectWhileCompiling DEF OutputInv, Compiling
<1>9. NeverMixesVersions'
  BY <1>1, MixesKept DEF OutputInv
<1> QED
  BY <1>6, <1>7, <1>8, <1>9 DEF OutputInv

LEMMA CodegenOutput ==
  ASSUME TypeInv, BuildInv, OutputInv, Codegen
  PROVE  OutputInv'
<1> DEFINE o == BinOf(work.loaded, work.manifest, DepFiles(cur), compiler)
<1>1. /\ phase \in Compiling /\ phase # "idle" /\ cur \in All
      /\ UNCHANGED <<cur, graph, meta, mir, out, emit, quiet, tainted>>
  BY DEF Codegen, Compiling, TypeInv, TypeOK
<1>2. /\ bin' \in {bin, [bin EXCEPT ![cur] = o]}
      /\ \/ phase' = "record" /\ UNCHANGED svhs
         \/ phase' = "idle" /\ outcome' = "failed"
  BY DEF Codegen, Fail
<1>3. \A q \in Package : o.mirs[q] # Absent => o.mirs[q].svh = o.env[q]
  <2>1. ASSUME NEW q \in Package, ConsumesDependencyMir, DepFiles(cur)[q] # Absent
        PROVE  DepFiles(cur)[q].mir.svh = DepFiles(cur)[q].svh
    <3>1. q \in Needed(cur) /\ DepFiles(cur)[q] = [svh |-> Svh(meta[q]), mir |-> mir[q]]
      BY <2>1 DEF DepFiles
    <3> QED
      BY <1>1, <2>1, <3>1 DEF OutputInv, LoadedInv
  <2> QED
    BY <2>1, OutputOfOneTable
<1> HIDE DEF o
<1>4. \A q \in All \ {cur} : bin'[q] = bin[q]
  BY <1>1, <1>2 DEF TypeInv, TypeOK, OnDisk
<1>5. FilesInv'
  <2>1. cur \notin Built
    BY <1>1, NeededAreBuilt DEF TypeInv, BuildInv
  <2> QED
    BY <1>1, <1>2, <2>1, FilesKept DEF OutputInv, FilesInv
<1>6. LoadedInv'
  BY <1>1, LoadedKept DEF OutputInv
<1>7. CollectInv'
  BY <1>1, <1>2, <1>4, CollectWhileCompiling DEF OutputInv, Compiling
<1>8. NeverMixesVersions'
  <2>1. bin'[cur] \in {bin[cur], o}
    BY <1>1, <1>2 DEF TypeInv, TypeOK, OnDisk
  <2> QED
    BY <1>3, <1>4, <2>1 DEF OutputInv, NeverMixesVersions
<1> QED
  BY <1>5, <1>6, <1>7, <1>8 DEF OutputInv

LEMMA RecordFingerprintOutput ==
  ASSUME TypeInv, BuildInv, OutputInv, RecordFingerprint
  PROVE  OutputInv'
<1>1. /\ phase = "record" /\ phase \in Compiling /\ phase # "idle" /\ cur \in All
      /\ Finish(cur, OwnHashes(cur)) /\ tainted \subseteq tainted' \union {cur}
      /\ UNCHANGED <<cur, graph, meta, mir, bin, out, emit, quiet>>
  BY DEF RecordFingerprint, Compiling, TypeInv, TypeOK
<1>2. OwnHashes(cur) \in PackageHashes
  BY <1>1, SvhType DEF OwnHashes, PackageHashes, TypeInv, WorkOK
<1>3. FilesInv'
  <2>1. phase' # "idle" => Built' = Built \union {cur}
    BY <1>1, <1>2, FinishOrder DEF TypeInv, BuildInv
  <2>2. cur \notin Built
    BY <1>1, NeededAreBuilt DEF TypeInv, BuildInv
  <2>3. Whole(cur)'
    <3>1. /\ meta[cur] = MetaOf(work.loaded, DepFiles(cur), DepHashes(cur), compiler)
          /\ mir[cur] = MirOf(work.loaded, DepFiles(cur), compiler)
          /\ meta[cur] \in MetaFile /\ mir[cur] \in MirFile
      BY <1>1 DEF BuildInv, CompileInv, TypeInv, WorkOK
    <3>2. Whole(cur)
      BY <3>1, MarkerAssumption DEF Whole, Readable, MetaOf, MirOf, Svh
    <3> QED
      BY <1>1, <3>2 DEF Whole, Svh
  <2> QED
    BY <1>1, <2>1, <2>2, <2>3, FilesGrow DEF OutputInv
<1>4. LoadedInv'
  BY <1>1, LoadedKept DEF OutputInv
<1>5. CollectInv'
  BY <1>1, CollectWhileCompiling DEF OutputInv
<1>6. NeverMixesVersions'
  BY <1>1, MixesKept DEF OutputInv
<1> QED
  BY <1>3, <1>4, <1>5, <1>6 DEF OutputInv

LEMMA CollectDepBinsOutput ==
  ASSUME TypeInv, BuildInv, OutputInv, CollectDepBins
  PROVE  OutputInv'
<1>1. /\ phase = "collect" /\ phase' \in {"idle", "root"}
      /\ UNCHANGED <<meta, mir, bin, cur, graph, tainted, svhs, emit, quiet>>
      /\ phase' = "idle" => outcome' = "failed"
  BY DEF CollectDepBins, Fail
<1>2. FilesInv'
  <2>1. \A q : Whole(q)' <=> Whole(q)
    BY <1>1 DEF Whole, Svh
  <2> QED
    BY <1>1, <2>1 DEF OutputInv, FilesInv, Built
<1>3. LoadedInv'
  BY <1>1 DEF LoadedInv, Compiling
<1>4. CollectInv'
  <2>1. CASE phase' = "idle"
    BY <1>1, <2>1 DEF CollectInv, AfterCollect, Finished, Compiling
  <2>2. CASE phase' # "idle" /\ ~emit /\ CollectsDependencyBins
    <3>1. out' = [q \in Package |-> IF q \in Nodes THEN bin[q] ELSE Absent]
      BY <2>2 DEF CollectDepBins, Fail
    <3>2. Nodes' = Nodes
      BY <1>1 DEF Nodes, AllPackages
    <3>3. Collected'
      BY <1>1, <3>1, <3>2 DEF Collected
    <3> QED
      BY <3>3 DEF CollectInv
  <2>3. CASE emit \/ ~CollectsDependencyBins
    BY <1>1, <2>3 DEF CollectInv, CollectsDependencyBins, Wasm
  <2> QED
    BY <2>1, <2>2, <2>3
<1>5. NeverMixesVersions'
  BY <1>1, MixesKept DEF OutputInv
<1> QED
  BY <1>2, <1>3, <1>4, <1>5 DEF OutputInv

\* A build that is killed leaves torn files, and is not finished.
LEMMA CrashOutput ==
  ASSUME TypeInv, BuildInv, OutputInv, Crash \/ TornWrite \/ CrashInCollect
  PROVE  OutputInv'
<1>1. /\ phase' = "idle" /\ outcome' = "crashed" /\ cur \in All
      /\ bin' \in {bin, [bin EXCEPT ![cur] = Torn]}
  BY DEF Crash, TornWrite, CrashInCollect, Halt, diskVars, TypeInv, TypeOK
<1>2. FilesInv' /\ LoadedInv' /\ CollectInv'
  BY <1>1 DEF FilesInv, LoadedInv, CollectInv, AfterCollect, Finished, Compiling
<1>3. NeverMixesVersions'
  <2>1. \A q \in All : bin'[q] \in {bin[q], Absent, Torn}
    BY <1>1 DEF TypeInv, TypeOK, OnDisk
  <2> QED
    BY <2>1, MixesKept DEF OutputInv
<1> QED
  BY <1>2, <1>3 DEF OutputInv

\* The user's steps: edits touch no file of a build, and removing one leaves
\* nothing in its place.
LEMMA EditOutput ==
  ASSUME TypeInv, OutputInv, NEW p \in All,
         \/ \E s \in SourcesOf[p] : EditSource(p, s)
         \/ \E d \in ManifestsOf[p] : EditManifest(p, d)
         \/ \E c \in Compilers : UpgradeCompiler(c)
  PROVE  OutputInv'
<1>1. /\ UNCHANGED <<meta, mir, bin, out, phase, cur, graph, svhs, emit, tainted>>
      /\ quiet' = FALSE
  BY DEF EditSource, EditManifest, UpgradeCompiler, UserStep, diskVars, driverVars
<1>2. FilesInv'
  <2>1. \A q : Whole(q)' <=> Whole(q)
    BY <1>1 DEF Whole, Svh
  <2> QED
    BY <1>1, <2>1 DEF OutputInv, FilesInv, Built
<1>3. LoadedInv'
  <2>1. /\ Needed(cur)' = Needed(cur)
        /\ ConsumesDependencyMir' <=> ConsumesDependencyMir
    BY <1>1 DEF Needed, Nodes, AllPackages, ConsumesDependencyMir, Wasm
  <2> QED
    BY <1>1, <2>1 DEF OutputInv, LoadedInv, Svh
<1>4. CollectInv'
  <2>1. AfterCollect' => AfterCollect
    BY <1>1 DEF AfterCollect, Finished
  <2> QED
    BY <1>1, <2>1, CollectKept DEF OutputInv
<1>5. NeverMixesVersions'
  BY <1>1, MixesKept DEF OutputInv
<1> QED
  BY <1>2, <1>3, <1>4, <1>5 DEF OutputInv

LEMMA RemoveFileOutput ==
  ASSUME TypeInv, OutputInv, NEW p \in All, RemoveFile(p)
  PROVE  OutputInv'
<1>1. /\ phase' = "idle" /\ quiet' = FALSE
      /\ bin' \in {bin, [bin EXCEPT ![p] = Absent]}
  BY DEF RemoveFile, UserStep, driverVars
<1>2. FilesInv' /\ LoadedInv' /\ CollectInv'
  BY <1>1 DEF FilesInv, LoadedInv, CollectInv, AfterCollect, Compiling
<1>3. NeverMixesVersions'
  <2>1. \A q \in All : bin'[q] \in {bin[q], Absent, Torn}
    BY <1>1 DEF TypeInv, TypeOK, OnDisk
  <2> QED
    BY <2>1, MixesKept DEF OutputInv
<1> QED
  BY <1>2, <1>3 DEF OutputInv

\* Every step keeps the invariant.
THEOREM NextOutputInv ==
  TypeInv /\ BuildInv /\ OutputInv /\ [Next]_vars => OutputInv'
<1> SUFFICES ASSUME TypeInv, BuildInv, OutputInv, [Next]_vars
             PROVE  OutputInv'
  OBVIOUS
<1>1. CASE Driver
  BY <1>1, ReusePackageOutput, BeginRebuildOutput, AnalyzeOutput, InferOutput,
     CodegenOutput, RecordFingerprintOutput, CollectDepBinsOutput
  DEF Driver
<1>2. CASE Environment
  BY <1>2, StartBuildOutput, CrashOutput, EditOutput, RemoveFileOutput
  DEF Environment, All
<1>3. CASE UNCHANGED vars
  <2>1. UNCHANGED <<meta, mir, bin, out, phase, cur, graph, svhs, emit, tainted,
                    quiet, outcome>>
    BY <1>3 DEF vars, diskVars, driverVars
  <2>2. FilesInv' <=> FilesInv
    BY <2>1 DEF FilesInv, Whole, Svh, Built
  <2>3. LoadedInv' <=> LoadedInv
    BY <2>1 DEF LoadedInv, Needed, Nodes, AllPackages, Svh,
                ConsumesDependencyMir, Wasm
  <2>4. CollectInv'
    BY <2>1, CollectKept DEF OutputInv, AfterCollect, Finished
  <2>5. NeverMixesVersions'
    BY <2>1, MixesKept DEF OutputInv
  <2> QED
    BY <2>2, <2>3, <2>4, <2>5 DEF OutputInv
<1> QED
  BY <1>1, <1>2, <1>3 DEF Next

\* The inductive invariants, all together, hold in every state.
THEOREM OutputInvariance == Spec => [](TypeInv /\ BuildInv /\ OutputInv)
<1>1. Init => OutputInv
  BY InitOutputInv
<1>2. TypeInv /\ BuildInv /\ OutputInv /\ [Next]_vars => OutputInv'
  BY NextOutputInv
<1> QED
  BY <1>1, <1>2, Invariance, PTL DEF Spec

-----------------------------------------------------------------------------
(* What follows. *)

\* For every graph and every history, a wasm output joins the body of a
\* dependency only with the interface that body was compiled for.
THEOREM VersionsNeverMixed == Spec => []NeverMixesVersions
<1>1. OutputInv => NeverMixesVersions
  BY DEF OutputInv
<1> QED
  BY <1>1, OutputInvariance, PTL

\* A package whose dependencies are sound finds all their files: the reading
\* of them is no reason for its build to fail.
THEOREM DependenciesLoadable == Spec => []DepsAreLoadable
<1>1. ASSUME TypeInv, BuildInv, OutputInv, NEW p \in All, Eligible(p),
             Needed(p) \cap tainted = {}
      PROVE  Loadable(p)
  <2>1. Needed(p) \subseteq Built /\ phase # "idle"
    BY <1>1, NeededAreBuilt DEF TypeInv, BuildInv, Eligible
  <2>2. \A q \in Needed(p) : Whole(q)
    BY <1>1, <2>1 DEF OutputInv, FilesInv
  <2> QED
    BY <2>2 DEF Whole, Loadable
<1>2. TypeInv /\ BuildInv /\ OutputInv => DepsAreLoadable
  BY <1>1 DEF DepsAreLoadable
<1> QED
  BY <1>2, OutputInvariance, PTL

\* The outputs beside the root's are those of the packages of the graph, from
\* the copying on until something is edited after the build.
THEOREM OutputsOfGraph == Spec => []OutputsMatchGraph
<1>1. OutputInv => OutputsMatchGraph
  BY DEF OutputInv, CollectInv, AfterCollect, Collected, OutputsMatchGraph
<1> QED
  BY <1>1, OutputInvariance, PTL

-----------------------------------------------------------------------------

(***************************************************************************)
(* The inductive invariant.  It speaks of builds during which the user     *)
(* changes nothing and which go on to the output.                          *)
(***************************************************************************)

\* What the compilation of `cur` has read is what the user last wrote.
ReadInv ==
  quiet =>
    /\ phase \in Compiling => /\ work.sources = src[cur]
                              /\ work.manifest = manifest[cur]
    /\ phase \in {"infer", "codegen", "record"} => work.loaded = src[cur]

\* What the dependencies of p recorded about themselves.
Told(p) == [q \in Package |-> IF q \in Needed(p) THEN fp[q].own ELSE Absent]

\* p needs no further work; after `--rebuild`, whatever was there before.
Good(p) ==
  /\ IsFresh(p, Told(p))
  /\ Untainted(p) => UpToDate(p)
  /\ force => p \notin tainted

\* Nothing was edited since the build began, and it is not for `--emit mir`.
Calm == quiet /\ ~emit

\* The packages that the running build is done with.
DoneInv ==
  phase # "idle" /\ Calm =>
    \A q \in Built : svhs[q] = fp[q].own /\ Good(q)

\* All packages, once it has succeeded.
SuccessInv == Finished /\ Calm => \A q \in Nodes \union {Root} : Good(q)

CleanInv == ReadInv /\ DoneInv /\ SuccessInv

-----------------------------------------------------------------------------
(* A package that is done stays done. *)

\* With a built package, all it needs is built.
LEMMA BuiltNeeds ==
  ASSUME TypeOK, OrderInv, phase # "idle", NEW q \in Built
  PROVE  q \in All /\ q # Root /\ Needed(q) \subseteq Built
<1>1. q \in Package /\ q # Root /\ Built \in SUBSET Package
  BY EnvironmentAssumption DEF Built
<1>2. graph[q] \subseteq Built /\ Closed(graph, Built)
  BY DEF OrderInv, Closed
<1>3. TransitiveDeps(graph, q) \subseteq Built
  BY <1>1, <1>2, TransitiveDepsLeast
<1> QED
  BY <1>1, <1>3 DEF Needed, All

\* What a package needs is in the graph.
LEMMA NodesNeedNodes ==
  ASSUME TypeOK, NEW q \in Nodes
  PROVE  Needed(q) \subseteq Nodes
<1>1. /\ Root \in All /\ graph \in [All -> SUBSET Package]
      /\ Nodes = TransitiveDeps(graph, Root) /\ Nodes \in SUBSET Package
  BY TransitiveDepsArePackages DEF TypeOK, Nodes, AllPackages, All
<1>2. Closed(graph, Nodes)
  BY <1>1, TransitiveDepsClosed
<1>3. graph[q] \subseteq Nodes
  BY <1>2 DEF Closed
<1>4. TransitiveDeps(graph, q) \subseteq Nodes
  BY <1>1, <1>2, <1>3, TransitiveDepsLeast
<1> QED
  BY <1>1, <1>4, EnvironmentAssumption DEF Needed

\* The judgement of p looks at nothing but p and what it needs.
LEMMA GoodKept ==
  ASSUME NEW p \in All, Good(p), NEW S \in SUBSET All,
         p \in S, Needed(p) \subseteq S,
         \A q \in S : /\ meta'[q] = meta[q] /\ mir'[q] = mir[q]
                      /\ bin'[q] = bin[q] /\ fp'[q] = fp[q]
                      /\ q \in tainted' <=> q \in tainted,
         UNCHANGED <<src, manifest, compiler, graph, force>>
  PROVE  Good(p)' /\ Told(p)' = Told(p)
<1>1. Needed(p)' = Needed(p)
  BY DEF Needed, Nodes, AllPackages
<1>2. Told(p)' = Told(p)
  BY <1>1 DEF Told
<1>3. DepFiles(p)' = DepFiles(p)
  BY <1>1 DEF DepFiles, Svh
<1>4. IsFresh(p, Told(p))'
  BY <1>2 DEF Good, IsFresh, ProducesBinary, LibraryProducesBinary, Wasm,
              SameDeps, ConsumesDependencyMir, Readable
<1>5. Untainted(p)' => Untainted(p)
  BY <1>1 DEF Untainted
<1>6. UpToDate(p) => UpToDate(p)'
  BY <1>3 DEF UpToDate, MetaOf, MirOf, BinOf, SvhsIn, MirsIn, ExternalTypes,
              ProducesBinary, LibraryProducesBinary, Wasm, ConsumesDependencyMir
<1> QED
  BY <1>2, <1>4, <1>5, <1>6 DEF Good

\* A step that touches neither the built packages nor the list of them.
LEMMA DoneKept ==
  ASSUME TypeOK, OrderInv, DoneInv, Calm' => Calm,
         phase' # "idle" => phase # "idle" /\ UNCHANGED svhs,
         Calm' /\ phase' # "idle" => UNCHANGED <<src, manifest, compiler, force>>,
         UNCHANGED graph,
         NEW p \in All, p \notin Built,
         \A q \in All \ {p} : /\ meta'[q] = meta[q] /\ mir'[q] = mir[q]
                              /\ bin'[q] = bin[q] /\ fp'[q] = fp[q]
                              /\ q \in tainted' <=> q \in tainted
  PROVE  DoneInv'
<1> SUFFICES ASSUME phase' # "idle", Calm', NEW q \in Built'
             PROVE  svhs'[q] = fp'[q].own /\ Good(q)'
  BY DEF DoneInv
<1>1. /\ phase # "idle" /\ Calm /\ UNCHANGED <<src, manifest, compiler, force, svhs>>
      /\ Built' = Built
  BY DEF Built
<1>2. q \in All /\ Needed(q) \subseteq Built /\ Built \subseteq All \ {p}
  BY <1>1, BuiltNeeds
<1>3. svhs[q] = fp[q].own /\ Good(q)
  BY <1>1 DEF DoneInv
<1>4. Good(q)'
  <2>1. Built \in SUBSET All
    BY <1>2
  <2> QED
    BY <1>1, <1>2, <1>3, <2>1, GoodKept
<1> QED
  BY <1>1, <1>2, <1>3, <1>4

\* p joins the packages that are done, or is the last of them.
LEMMA FinishClean ==
  ASSUME TypeOK, OrderInv, DoneInv, NEW p \in All, NEW h \in PackageHashes,
         Eligible(p) \/ (phase \in Compiling /\ p = cur),
         Finish(p, h), Calm,
         UNCHANGED <<src, manifest, compiler, graph, force, cur>>,
         \A q \in All \ {p} : /\ meta'[q] = meta[q] /\ mir'[q] = mir[q]
                              /\ bin'[q] = bin[q] /\ fp'[q] = fp[q]
                              /\ q \in tainted' <=> q \in tainted,
         h = fp'[p].own, Good(p)'
  PROVE  DoneInv' /\ SuccessInv'
<1>1. phase # "idle" /\ p \notin Built /\ Built \in SUBSET All
  BY NeededAreBuilt DEF Eligible, Compiling, Built, All
<1>2. ASSUME NEW q \in Built
      PROVE  svhs[q] = fp'[q].own /\ Good(q)' /\ q \in Package
  <2>1. q \in All /\ Needed(q) \subseteq Built /\ svhs[q] = fp[q].own /\ Good(q)
    BY <1>1, BuiltNeeds DEF DoneInv
  <2>2. Good(q)'
    BY <1>1, <2>1, GoodKept
  <2> QED
    BY <1>1, <2>1, <2>2 DEF Built
<1>3. DoneInv'
  <2> SUFFICES ASSUME phase' # "idle", NEW q \in Built'
               PROVE  svhs'[q] = fp'[q].own /\ Good(q)'
    BY DEF DoneInv
  <2>1. Built' = Built \union {p} /\ svhs' = [svhs EXCEPT ![p] = h]
    BY FinishOrder
  <2>2. q \in Package /\ svhs \in [Package -> OrAbsent(PackageHashes)]
    BY DEF Built, TypeOK, HashTable
  <2> QED
    BY <1>1, <1>2, <2>1, <2>2
<1>4. SuccessInv'
  <2>1. CASE p = Root
    <3>1. Nodes \subseteq Built
      BY <2>1, EnvironmentAssumption
      DEF OrderInv, Eligible, TypeOK, Compiling
    <3>2. Nodes' = Nodes
      BY DEF Nodes, AllPackages
    <3> QED
      BY <1>2, <2>1, <3>1, <3>2 DEF SuccessInv
  <2>2. CASE p # Root
    BY <2>2 DEF Finish, SuccessInv, Finished
  <2> QED
    BY <2>1, <2>2
<1> QED
  BY <1>3, <1>4

\* What the built packages recorded is what the build holds in memory.
LEMMA ToldIsHeld ==
  ASSUME TypeOK, OrderInv, DoneInv, Calm, NEW p \in All,
         Eligible(p) \/ (phase \in Compiling /\ p = cur)
  PROVE  DepHashes(p) = Told(p)
<1>1. Needed(p) \subseteq Built /\ phase # "idle"
  BY NeededAreBuilt DEF Eligible, Compiling
<1> QED
  BY <1>1 DEF DoneInv, DepHashes, Told

-----------------------------------------------------------------------------
(* Every step keeps the invariant. *)

LEMMA InitCleanInv == Init => CleanInv
<1> SUFFICES ASSUME Init PROVE CleanInv
  OBVIOUS
<1>1. phase = "idle" /\ quiet = FALSE
  BY DEF Init
<1> QED
  BY <1>1 DEF CleanInv, ReadInv, DoneInv, SuccessInv, Calm

LEMMA StartBuildClean ==
  ASSUME CleanInv, NEW f \in BOOLEAN, NEW e \in BOOLEAN, StartBuild(f, e)
  PROVE  CleanInv'
<1>1. /\ Built' = {} /\ phase' \in {"idle", "deps", "collect"}
      /\ outcome' \in {"failed", "running"}
  BY DEF StartBuild, Built
<1> QED
  BY <1>1 DEF CleanInv, ReadInv, DoneInv, SuccessInv, Finished, Compiling

LEMMA ReusePackageClean ==
  ASSUME TypeInv, BuildInv, CleanInv, NEW p \in All, ReusePackage(p)
  PROVE  CleanInv'
<1>1. /\ Eligible(p) /\ IsFresh(p, DepHashes(p)) /\ Finish(p, fp[p].own) /\ ~force
      /\ UNCHANGED <<src, manifest, compiler, meta, mir, bin, fp, cur, force,
                     emit, graph, quiet, tainted>>
  BY DEF ReusePackage, envVars, diskVars
<1>2. fp[p].own \in PackageHashes
  BY <1>1 DEF IsFresh, Readable, TypeInv, TypeOK, OnDisk, Fingerprint
<1>3. phase' \in {"idle", "deps", "collect"}
  BY <1>1, <1>2, FinishType DEF TypeInv
<1>4. CASE Calm
  <2>1. Good(p)
    BY <1>1, <1>4, ToldIsHeld, FreshIsUpToDate
    DEF Good, TypeInv, BuildInv, CleanInv
  <2>2. Good(p)'
    <3>1. {p} \union Needed(p) \in SUBSET All
      BY NeededArePackages
    <3> QED
      BY <1>1, <2>1, <3>1, GoodKept
  <2> QED
    BY <1>1, <1>2, <1>3, <1>4, <2>2, FinishClean
    DEF TypeInv, BuildInv, CleanInv, ReadInv, Compiling
<1>5. CASE ~Calm
  BY <1>1, <1>3, <1>5
  DEF CleanInv, ReadInv, DoneInv, SuccessInv, Calm, Compiling
<1> QED
  BY <1>4, <1>5

LEMMA BeginRebuildClean ==
  ASSUME TypeInv, BuildInv, CleanInv, NEW p \in All, BeginRebuild(p)
  PROVE  CleanInv'
<1>1. /\ Eligible(p) /\ cur' = p
      /\ UNCHANGED <<src, manifest, compiler, meta, mir, bin, fp, force,
                     emit, graph, quiet, tainted>>
      /\ work'.sources = src[p] /\ work'.manifest = manifest[p]
      /\ \/ phase' = "analyze" /\ svhs' = svhs
         \/ phase' = "idle" /\ outcome' = "failed"
  BY DEF BeginRebuild, envVars, diskVars, Fail
<1>2. phase # "idle" /\ p \notin Built
  BY <1>1, NeededAreBuilt DEF Eligible, TypeInv, BuildInv
<1>3. ReadInv'
  BY <1>1 DEF ReadInv, Compiling
<1>4. DoneInv'
  BY <1>1, <1>2, DoneKept DEF TypeInv, BuildInv, CleanInv, Calm
<1>5. SuccessInv'
  BY <1>1 DEF SuccessInv, Finished
<1> QED
  BY <1>3, <1>4, <1>5 DEF CleanInv

\* The passes before the fingerprint touch only the package they compile.
LEMMA PassClean ==
  ASSUME TypeInv, BuildInv, CleanInv, phase \in Compiling,
         UNCHANGED <<src, manifest, compiler, force, emit, quiet, graph>>,
         \A q \in All \ {cur} : /\ meta'[q] = meta[q] /\ mir'[q] = mir[q]
                                /\ bin'[q] = bin[q] /\ fp'[q] = fp[q]
                                /\ q \in tainted' <=> q \in tainted,
         ~emit => \/ phase' \in Compiling /\ UNCHANGED svhs
                  \/ phase' = "idle" /\ outcome' = "failed"
  PROVE  DoneInv' /\ SuccessInv'
<1>1. cur \in All /\ cur \notin Built /\ phase # "idle"
  BY NeededAreBuilt DEF TypeInv, TypeOK, BuildInv, Compiling
<1>2. CASE emit
  BY <1>2 DEF DoneInv, SuccessInv, Calm
<1>3. CASE ~emit
  <2>1. DoneInv'
    BY <1>1, <1>3, DoneKept DEF TypeInv, BuildInv, CleanInv, Calm
  <2>2. SuccessInv'
    BY <1>3 DEF SuccessInv, Finished, Compiling
  <2> QED
    BY <2>1, <2>2
<1> QED
  BY <1>2, <1>3

LEMMA AnalyzeClean ==
  ASSUME TypeInv, BuildInv, CleanInv, Analyze
  PROVE  CleanInv'
<1>1. /\ phase = "analyze" /\ phase \in Compiling /\ cur \in All
      /\ UNCHANGED <<src, manifest, compiler, mir, bin, fp, cur, force, emit,
                     graph, quiet>>
      /\ work' = [work EXCEPT !.loaded = src[cur]]
      /\ \/ phase' = "infer" /\ UNCHANGED svhs
         \/ phase' = "idle" /\ outcome' = "failed"
  BY DEF Analyze, Fail, Compiling, TypeInv, TypeOK, envVars
<1>2. \A q \in All \ {cur} : meta'[q] = meta[q] /\ (q \in tainted' <=> q \in tainted)
  BY <1>1 DEF Analyze, TypeInv, TypeOK, OnDisk
<1>3. ReadInv'
  <2>1. /\ work'.loaded = src[cur] /\ work'.sources = work.sources
        /\ work'.manifest = work.manifest
    BY <1>1 DEF TypeInv, TypeOK
  <2> QED
    BY <1>1, <2>1 DEF CleanInv, ReadInv, Compiling
<1>4. DoneInv' /\ SuccessInv'
  BY <1>1, <1>2, PassClean DEF Compiling
<1> QED
  BY <1>3, <1>4 DEF CleanInv

LEMMA InferClean ==
  ASSUME TypeInv, BuildInv, CleanInv, Infer
  PROVE  CleanInv'
<1> DEFINE m == MirOf(work.loaded, DepFiles(cur), compiler)
           h == [svh |-> Svh(meta[cur]), mir |-> m]
<1>1. /\ phase = "infer" /\ phase \in Compiling /\ cur \in All
      /\ UNCHANGED <<src, manifest, compiler, meta, bin, fp, cur, force, emit,
                     graph, work, quiet, tainted>>
      /\ mir' \in {mir, [mir EXCEPT ![cur] = m]}
      /\ \/ phase' = "codegen" /\ UNCHANGED svhs
         \/ phase' = "idle" /\ outcome' = "failed"
         \/ emit /\ Finish(cur, h)
  BY DEF Infer, Fail, Compiling, TypeInv, TypeOK, envVars
<1>2. h \in PackageHashes
  <2>1. /\ work.loaded \in Source /\ meta[cur] \in MetaFile
        /\ compiler \in Compilers
    BY <1>1 DEF TypeInv, WorkOK, TypeOK
  <2> QED
    BY <1>1, <2>1, DepFilesType, MirOfType, SvhType DEF PackageHashes
<1> HIDE DEF m, h
<1>3. \A q \in All \ {cur} : mir'[q] = mir[q]
  BY <1>1 DEF TypeInv, TypeOK, OnDisk
<1>4. phase' \in {"codegen", "idle", "deps", "collect"}
  BY <1>1, <1>2, FinishType DEF TypeInv
<1>5. ReadInv'
  BY <1>1, <1>4 DEF CleanInv, ReadInv, Compiling
<1>6. DoneInv' /\ SuccessInv'
  BY <1>1, <1>3, PassClean DEF Compiling
<1> QED
  BY <1>5, <1>6 DEF CleanInv

LEMMA CodegenClean ==
  ASSUME TypeInv, BuildInv, CleanInv, Codegen
  PROVE  CleanInv'
<1> DEFINE o == BinOf(work.loaded, work.manifest, DepFiles(cur), compiler)
<1>1. /\ phase = "codegen" /\ phase \in Compiling /\ cur \in All
      /\ UNCHANGED <<src, manifest, compiler, meta, mir, fp, cur, force, emit,
                     graph, work, quiet, tainted>>
      /\ bin' \in {bin, [bin EXCEPT ![cur] = o]}
      /\ \/ phase' = "record" /\ UNCHANGED svhs
         \/ phase' = "idle" /\ outcome' = "failed"
  BY DEF Codegen, Fail, Compiling, TypeInv, TypeOK, envVars
<1> HIDE DEF o
<1>2. \A q \in All \ {cur} : bin'[q] = bin[q]
  BY <1>1 DEF TypeInv, TypeOK, OnDisk
<1>3. ReadInv'
  BY <1>1 DEF CleanInv, ReadInv, Compiling
<1>4. DoneInv' /\ SuccessInv'
  BY <1>1, <1>2, PassClean DEF Compiling
<1> QED
  BY <1>3, <1>4 DEF CleanInv

\* What the step that writes a fingerprint does.
Recorded(p) ==
  [compiler |-> compiler, manifest |-> work.manifest, own |-> OwnHashes(p),
   deps |-> DepHashes(p), sources |-> work.sources]

LEMMA RecordStep ==
  ASSUME TypeInv, RecordFingerprint, NEW p \in All, p = cur
  PROVE  /\ phase = "record" /\ phase \in Compiling
         /\ Finish(p, OwnHashes(p)) /\ OwnHashes(p) \in PackageHashes
         /\ fp'[p] = Recorded(p) /\ \A q \in All \ {p} : fp'[q] = fp[q]
         /\ UNCHANGED <<src, manifest, compiler, meta, mir, bin, cur, force,
                        emit, graph, work, quiet>>
         /\ tainted' = IF work.sources = work.loaded /\ Needed(p) \cap tainted = {}
                       THEN tainted \ {p} ELSE tainted
<1>1. /\ phase = "record" /\ Finish(p, OwnHashes(p))
      /\ fp' = [fp EXCEPT ![p] = Recorded(p)]
      /\ UNCHANGED <<src, manifest, compiler, meta, mir, bin, cur, force,
                     emit, graph, work, quiet>>
      /\ tainted' = IF work.sources = work.loaded /\ Needed(p) \cap tainted = {}
                    THEN tainted \ {p} ELSE tainted
  BY DEF RecordFingerprint, Recorded, envVars
<1>2. OwnHashes(p) \in PackageHashes
  BY <1>1, SvhType DEF OwnHashes, PackageHashes, TypeInv, WorkOK
<1> QED
  BY <1>1, <1>2 DEF Compiling, TypeInv, TypeOK, OnDisk

\* The package whose fingerprint is written is done.
LEMMA RecordedIsGood ==
  ASSUME TypeInv, BuildInv, CleanInv, RecordFingerprint, Calm,
         NEW p \in All, p = cur
  PROVE  Good(p)'
<1>1. /\ phase = "record" /\ phase \in Compiling
      /\ OwnHashes(p) \in PackageHashes
      /\ fp'[p] = Recorded(p) /\ \A q \in All \ {p} : fp'[q] = fp[q]
      /\ UNCHANGED <<src, manifest, compiler, meta, mir, bin, cur, force, graph>>
      /\ tainted' = IF work.sources = work.loaded /\ Needed(p) \cap tainted = {}
                    THEN tainted \ {p} ELSE tainted
  BY RecordStep
<1>2. /\ work.sources = src[p] /\ work.loaded = src[p]
      /\ work.manifest = manifest[p]
  BY <1>1 DEF CleanInv, ReadInv, Calm
<1>3. /\ Needed(p) \subseteq Built /\ p \notin Needed(p)
      /\ DepHashes(p) = Told(p)
  BY <1>1, NeededAreBuilt, ToldIsHeld DEF TypeInv, BuildInv, CleanInv
<1>4. /\ meta[p] = MetaOf(src[p], DepFiles(p), DepHashes(p), compiler)
      /\ mir[p] = MirOf(src[p], DepFiles(p), compiler)
      /\ ProducesBinary(src[p]) =>
           bin[p] = BinOf(src[p], manifest[p], DepFiles(p), compiler)
      /\ meta[p] \in MetaFile /\ mir[p] \in MirFile
  BY <1>1, <1>2 DEF BuildInv, CompileInv, TypeInv, WorkOK
<1>5. Needed(p)' = Needed(p) /\ DepFiles(p)' = DepFiles(p)
  BY <1>1 DEF Needed, Nodes, AllPackages, DepFiles, Svh
<1>6. Told(p)' = Told(p)
  BY <1>1, <1>3, <1>5, NeededArePackages DEF Told
<1>7. IsFresh(p, Told(p))'
  <2>1. ProducesBinary(src[p]) => bin[p] \in BinFile
    <3>1. /\ src[p] \in Source /\ manifest[p] \in SUBSET Package
          /\ compiler \in Compilers
      BY DEF TypeInv, TypeOK
    <3> QED
      BY <1>1, <1>4, <3>1, DepFilesType, BinOfType
  <2>2. Recorded(p) \in Fingerprint
    BY <1>1, <1>2, DepHashesType DEF Recorded, TypeInv, TypeOK, Fingerprint
  <2>3. /\ Recorded(p).compiler = compiler
        /\ Recorded(p).manifest = manifest[p]
        /\ Recorded(p).sources = src[p]
        /\ Recorded(p).deps = Told(p)
    BY <1>2, <1>3 DEF Recorded
  <2> QED
    BY <1>1, <1>4, <1>6, <2>1, <2>2, <2>3, MarkerAssumption
    DEF IsFresh, Readable, SameDeps, ProducesBinary, LibraryProducesBinary,
        Wasm
<1>8. Untainted(p)' => UpToDate(p)'
  <2> SUFFICES ASSUME Untainted(p)' PROVE UpToDate(p)'
    OBVIOUS
  <2>1. Needed(p) \cap tainted = {}
    BY <1>1, <1>3, <1>5 DEF Untainted
  <2>2. DepHashes(p) = DepFiles(p)
    BY <1>1, <2>1, HashesAreThoseOnDisk
  <2>3. UpToDate(p)
    BY <1>4, <2>2 DEF UpToDate
  <2> QED
    BY <1>1, <1>5, <2>3
    DEF UpToDate, MetaOf, MirOf, BinOf, SvhsIn, MirsIn, ExternalTypes,
        ProducesBinary, LibraryProducesBinary, Wasm, ConsumesDependencyMir
<1>9. force' => p \notin tainted'
  <2>1. ASSUME NEW q \in Needed(p) PROVE Good(q)
    BY <1>1, <1>3 DEF CleanInv, DoneInv
  <2>2. ASSUME force PROVE tainted' = tainted \ {p}
    <3>1. Needed(p) \cap tainted = {}
      BY <2>1, <2>2 DEF Good
    <3> QED
      BY <1>1, <1>2, <3>1
  <2> QED
    BY <1>1, <2>2
<1> QED
  BY <1>7, <1>8, <1>9 DEF Good

LEMMA RecordFingerprintClean ==
  ASSUME TypeInv, BuildInv, CleanInv, RecordFingerprint
  PROVE  CleanInv'
<1>1. PICK p \in All : p = cur
  BY DEF TypeInv, TypeOK
<1>2. /\ phase = "record" /\ phase \in Compiling
      /\ Finish(p, OwnHashes(p)) /\ OwnHashes(p) \in PackageHashes
      /\ fp'[p] = Recorded(p) /\ \A q \in All \ {p} : fp'[q] = fp[q]
      /\ UNCHANGED <<src, manifest, compiler, meta, mir, bin, cur, force,
                     emit, graph, work, quiet>>
      /\ \A q \in All \ {p} : q \in tainted' <=> q \in tainted
  BY <1>1, RecordStep
<1>3. phase' \in {"idle", "deps", "collect"}
  BY <1>2, FinishType DEF TypeInv
<1>4. ReadInv'
  BY <1>3 DEF ReadInv, Compiling
<1>5. CASE Calm
  <2>1. Good(p)' /\ OwnHashes(p) = fp'[p].own
    BY <1>1, <1>2, <1>5, RecordedIsGood DEF Recorded
  <2>2. DoneInv' /\ SuccessInv'
    BY <1>1, <1>2, <1>5, <2>1, FinishClean DEF TypeInv, BuildInv, CleanInv
  <2> QED
    BY <1>4, <2>2 DEF CleanInv
<1>6. CASE ~Calm
  BY <1>2, <1>4, <1>6 DEF CleanInv, DoneInv, SuccessInv, Calm
<1> QED
  BY <1>5, <1>6

LEMMA CollectDepBinsClean ==
  ASSUME TypeInv, BuildInv, CleanInv, CollectDepBins
  PROVE  CleanInv'
<1>1. /\ phase = "collect" /\ phase' \in {"idle", "root"}
      /\ UNCHANGED <<src, manifest, compiler, meta, mir, bin, fp, force, emit,
                     graph, svhs, quiet, tainted>>
      /\ phase' = "idle" => outcome' = "failed"
  BY DEF CollectDepBins, Fail, envVars
<1>2. Root \in All /\ Root \notin Built
  BY EnvironmentAssumption DEF All, Built
<1>3. ReadInv'
  BY <1>1 DEF ReadInv, Compiling
<1>4. DoneInv'
  BY <1>1, <1>2, DoneKept DEF TypeInv, BuildInv, CleanInv, Calm
<1>5. SuccessInv'
  BY <1>1 DEF SuccessInv, Finished
<1> QED
  BY <1>3, <1>4, <1>5 DEF CleanInv

\* A killed build has not succeeded; a user's step ends the calm.
LEMMA DisturbedClean ==
  ASSUME \/ Crash \/ TornWrite \/ CrashInCollect
         \/ UserStep
  PROVE  CleanInv'
<1>1. CASE Crash \/ TornWrite \/ CrashInCollect
  <2>1. phase' = "idle" /\ outcome' = "crashed"
    BY <1>1 DEF Crash, TornWrite, CrashInCollect, Halt
  <2> QED
    BY <2>1 DEF CleanInv, ReadInv, DoneInv, SuccessInv, Finished, Compiling
<1>2. CASE UserStep
  <2>1. quiet' = FALSE
    BY <1>2 DEF UserStep
  <2> QED
    BY <2>1 DEF CleanInv, ReadInv, DoneInv, SuccessInv, Calm
<1> QED
  BY <1>1, <1>2

\* Every step keeps the invariant.
THEOREM NextCleanInv == TypeInv /\ BuildInv /\ CleanInv /\ [Next]_vars => CleanInv'
<1> SUFFICES ASSUME TypeInv, BuildInv, CleanInv, [Next]_vars
             PROVE  CleanInv'
  OBVIOUS
<1>1. CASE Driver
  BY <1>1, ReusePackageClean, BeginRebuildClean, AnalyzeClean, InferClean,
     CodegenClean, RecordFingerprintClean, CollectDepBinsClean
  DEF Driver
<1>2. CASE Environment
  <2>1. ASSUME NEW p \in All,
               \/ \E s \in SourcesOf[p] : EditSource(p, s)
               \/ \E d \in ManifestsOf[p] : EditManifest(p, d)
               \/ RemoveFile(p)
        PROVE  UserStep
    BY <2>1 DEF EditSource, EditManifest, RemoveFile
  <2>2. (\E c \in Compilers : UpgradeCompiler(c)) => UserStep
    BY DEF UpgradeCompiler
  <2> QED
    BY <1>2, <2>1, <2>2, StartBuildClean, DisturbedClean DEF Environment
<1>3. CASE UNCHANGED vars
  <2>1. UNCHANGED <<src, manifest, compiler, meta, mir, bin, fp, phase, cur,
                    force, emit, graph, svhs, work, outcome, quiet, tainted>>
    BY <1>3 DEF vars, envVars, diskVars, driverVars
  <2>2. Root \in All /\ Root \notin Built
    BY EnvironmentAssumption DEF All, Built
  <2>3. ReadInv'
    BY <2>1 DEF CleanInv, ReadInv
  <2>4. DoneInv'
    BY <2>1, <2>2, DoneKept DEF TypeInv, BuildInv, CleanInv, Calm
  <2>5. SuccessInv'
    <3>1. ASSUME NEW q \in Nodes \union {Root}, Good(q) PROVE Good(q)'
      <4>1. q \in All /\ Needed(q) \subseteq All /\ All \in SUBSET All
        BY NeededArePackages, TransitiveDepsArePackages DEF Nodes, AllPackages, All
      <4> QED
        BY <2>1, <3>1, <4>1, GoodKept
    <3>2. Nodes' = Nodes /\ (Finished /\ Calm)' = (Finished /\ Calm)
      BY <2>1 DEF Nodes, AllPackages, Finished, Calm
    <3> QED
      BY <3>1, <3>2 DEF CleanInv, SuccessInv
  <2> QED
    BY <2>3, <2>4, <2>5 DEF CleanInv
<1> QED
  BY <1>1, <1>2, <1>3 DEF Next

\* The inductive invariants hold in every state.
THEOREM CleanInvariance == Spec => [](TypeInv /\ BuildInv /\ CleanInv)
<1>1. Init => CleanInv
  BY InitCleanInv
<1>2. TypeInv /\ BuildInv /\ CleanInv /\ [Next]_vars => CleanInv'
  BY NextCleanInv
<1> QED
  BY <1>1, <1>2, Invariance, PTL DEF Spec

-----------------------------------------------------------------------------
(* What follows. *)

\* Incremental is as good as from scratch: for every graph and every history,
\* a build that succeeds undisturbed leaves every package as compiling it
\* again would, if no earlier build was cut short in what it reused.
THEOREM SuccessClean == Spec => []SuccessIsClean
<1>1. ASSUME TypeInv, SuccessInv, Finished, quiet, ~emit, Untainted(Root),
             NEW p \in Nodes \union {Root}
      PROVE  UpToDate(p)
  <2>1. Good(p)
    BY <1>1 DEF SuccessInv, Calm
  <2>2. (Nodes \union {Root}) \cap tainted = {}
    BY <1>1 DEF Untainted, Needed
  <2>3. Needed(p) \subseteq Nodes
    BY <1>1, NodesNeedNodes DEF TypeInv, Needed
  <2>4. Untainted(p)
    BY <2>2, <2>3 DEF Untainted
  <2> QED
    BY <2>1, <2>4 DEF Good
<1>2. TypeInv /\ CleanInv => SuccessIsClean
  BY <1>1 DEF CleanInv, SuccessIsClean
<1> QED
  BY <1>2, CleanInvariance, PTL

\* `--rebuild` needs no exception: nothing it leaves depends on what the
\* build directories held before.
THEOREM ForcedClean == Spec => []ForcedBuildIsClean
<1>1. ASSUME TypeInv, SuccessInv, Finished, quiet, ~emit, force,
             NEW p \in Nodes \union {Root}
      PROVE  UpToDate(p)
  <2>1. ASSUME NEW q \in Nodes \union {Root}
        PROVE  Good(q)
    BY <1>1 DEF SuccessInv, Calm
  <2>2. \A q \in Nodes \union {Root} : q \notin tainted
    BY <1>1, <2>1 DEF Good
  <2>3. Needed(p) \subseteq Nodes
    BY <1>1, NodesNeedNodes DEF TypeInv, Needed
  <2>4. Untainted(p)
    BY <2>2, <2>3 DEF Untainted
  <2> QED
    BY <2>1, <2>4 DEF Good
<1>2. TypeInv /\ CleanInv => ForcedBuildIsClean
  BY <1>1 DEF CleanInv, ForcedBuildIsClean
<1> QED
  BY <1>2, CleanInvariance, PTL

\* Building twice compiles once: after a build that succeeds, every package
\* of the graph is fresh for the next one.
THEOREM NullBuild == Spec => []NullBuildIsFresh
<1>1. CleanInv => NullBuildIsFresh
  BY DEF CleanInv, SuccessInv, Calm, Good, Told, NullBuildIsFresh
<1> QED
  BY <1>1, CleanInvariance, PTL
=============================================================================
