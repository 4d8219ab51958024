# A verification of biwac in TLA+

biwac compiles Biwa, a typed language for visual novels (`.biwa` code and
`.biwano` scenario files), to TypeScript or to WebAssembly. It is a
batch program: `biwac` reads the root package and the packages it depends on,
rebuilds what is stale, writes files under `.biwa_build/`, and exits. This
directory holds TLA+ models of the parts of it that carry state from one step
or one run to the next, the TLC configurations that check them, and TLAPS
proofs about them.

Paths in this file are relative to `src/` of the repository, which is the
directory `PROJECT.json` calls `src/src/`: `biwac_driver/src/lib.rs` is there
`src/src/biwac_driver/src/lib.rs`. `PROJECT.json` has for every definition the
lines it models, for every run its properties, and for every property a mutant,
a plausible bug under which the run fails.

Contents: 1 the system; 2 the modules; 3 the runs; 4 the proofs;
5 what the runs found; 6 what is abstracted; 7 what is not modelled; 8 the plan.

---

## 1. The system

### 1.1 Its parts

| Part (crate) | State it keeps | Operations | Talks to |
|---|---|---|---|
| `biwac_cli` | none | parse options, load the root manifest, call the driver | driver |
| `biwac_driver`: build (`lib.rs`) | for one run: `HashMapOfPackages`, the batch, what was read for the current package; on disk, for ever: `.biwameta`, `.biwamir`, `.ts`/`.wasm`, `.biwafp` of each package and the copied outputs | `compile`, `build_or_reuse_package`, `check_freshness`, `analyze_and_persist`, `persist_*`, `collect_dep_bins` | all passes, the file system |
| `biwac_driver`: graph (`dep_graph.rs`) | queue, visited names, `DepGraph`, in-degrees | `discover`, `topo_batches`, `transitive_deps` | fetcher, metadata loader |
| `biwac_fingerprint` | the `.biwafp` file | `of_build`, `freshness`, encode, decode | driver |
| `biwac_dependency_fetcher` | the directory `deps/<name>` | ask the hub, choose a version, `git init`/`fetch`/`checkout` | hub, git |
| `biwac_dependency_metadata` | the `.biwameta` file | encode and decode an interface, `compute_svh` | driver, resolver, inferrer |
| `biwac_metadata_loader` | none | read `biwa-package.json` | driver |
| `biwac_package_loader`, `biwac_lexer`, `biwac_parser`, `biwac_novel_parser` | positions in a text | text to syntax tree | driver |
| `biwac_name_resolver` | name tree, scopes of modules, traits, impls and functions, table of definitions | collect definitions, imports, lower to HIR, expand aliases | metadata of dependencies |
| `biwac_type_inferrer`, `biwac_trait_solver` | type variables and their bindings, pending obligations | unify, solve, report | HIR |
| `biwac_mir_build` | the body under construction: blocks, locals, scopes | lower a typed body to MIR | inferrer's tables |
| `biwac_mir` | a body | validate, encode, decode | builder, passes, back end |
| `biwac_mir_transform` | a body; for `monomorphize`, a worklist of instances | `simplify_cfg`, `run_passes`, `monomorphize` | driver |
| `biwac_generator` (wasm) | the control-flow graph of a body and its dominators | structure, lay out, print | MIR |
| `biwac_generator` (TypeScript) | statements hoisted out of the expression being printed | HIR to TypeScript | HIR |
| `biwac_base`, `biwac_span`, `biwac_ast`, `biwac_hir`, `biwac_attribute`, `biwac_lang_item`, `biwac_scene` | tables filled once | look-ups and stateless checks | all |

### 1.2 How a run goes

```
 biwac ─ manifest of root ─ discover (fetch what is missing) ─ topo_batches
        for every package of every batch, leaves first, then the root:
           hash sources ─ check_freshness ── fresh ─▶ hand on recorded hashes
                              │ stale
              read .biwameta (and .biwamir) of all transitive dependencies
              load sources ─ resolve ─▶ write .biwameta
              infer types ─ build MIR, validate, simplify ─▶ write .biwamir
              generate ─▶ write .ts or .wasm ─▶ write .biwafp
        before the root: copy the outputs of dependencies beside its own
```

One process, no threads. What makes it hard is not a schedule but what
survives: four files per package that are written one after the other and
read, by later runs and by other packages, as if they were one.

### 1.3 What is hard about it, and what makes each part correct

- **The build.** The files of a package are replaced one by one; a type error, a
  kill or `--emit mir` stops between them. Sources are read twice, once to be
  hashed and once to be compiled. The decision to reuse a package is made from
  hashes in memory, some of which come from fingerprints of earlier runs.
  *Correct*: a package that is reused has the files that compiling it would
  write; a successful build leaves what a build from nothing would; building
  again does nothing; a wasm output never mixes two versions of a dependency; a
  build ends.
- **The dependency graph.** Names are queued several times, manifests repeat
  names, graphs have cycles, and what is there may be half fetched. *Correct*:
  the graph found is the one that the manifests describe, the batches are its
  levels, a cycle is refused and nothing else is, ids do not collide.
- **The way of a body through MIR.** Blocks are opened before their
  contents are known, code after a `return` is lowered into blocks that vanish,
  a pass edits blocks by counts it took before the edits, `br` depths are
  counted by three functions that call each other. *Correct*: on every input
  the calls are made in the order of the source and the result is the same,
  after every single step.
- **Printing TypeScript.** TypeScript has no `match` and no block with a value, so
  statements are hoisted out of the expression that needs them, into lists that
  nested constructs swap. *Correct*: the script does what the source does.
- **Types.** Variables are open when calls are recorded, when bounds are
  demanded and when operators are looked at, and are decided later, sometimes
  by another statement. *Correct*: what is accepted satisfies the typing rule of
  every construct, and what monomorphisation makes of it is complete and typed.
- **Monomorphisation.** Two work lists that feed each other, bodies of many
  packages with ids of their own. *Correct*: the instances are the closure of the
  calls, or the limit is reported.
- **Names.** Eight passes over a package share cells that may be written once;
  imports lead to imports; aliases are followed before types are known.
  *Correct*: a path means what the declarations say, no matter in which order it
  was resolved; a program is rejected, not the process ended.
- **Parsers, tables, formatting**: no state that outlives a call; unit tests
  reach them.

`PROJECT.json` lists every hazard with its line and with the properties that
would catch it.

---

## 2. The modules

```
 DependencyOrder ◀── IncrementalBuild ◀── IncrementalBuildProofs
        ▲  ▲                                   │          ▲
        │  └── DependencyOrderProofs ◀─────────┘          └── MCIncrementalBuild
        │                ▲
        └── DepGraph ◀───┴── DepGraphProofs ──▶ Induction
                ▲
                └── MCDepGraph

 Mir ◀── MirRun ◀── SimplifyCfg ◀── SimplifyCfgProofs ──▶ Induction
  ▲        ▲              ▲                  ▲
  │        │         Dominators ◀── DominatorsProofs
  │        │              ▲
  │        │              ├── Structure ◀───┐
  │    MirMeaning ◀───────┘                 │
  │        ▲─── MirBuild ◀──────────────────┼── MirPipeline ◀── MCMirPipeline
  │        └─── TypeScriptBody ◀────────────┘

 Types ◀── Unification ◀─┐
   ▲────── Hir ◀─────────┴─ TraitSolver ◀── TypeInference ◀── TypeRules ◀── Monomorphize ◀── TypePipeline ◀── MCTypePipeline
   │                              Closure ◀── INSTANCE ... WITH ── Collector ◀──┘
   │                                                                   ▲
   │                                                                   └── CollectorProofs ──▶ Induction
   └── Names ◀── NameContexts ◀── NamePasses ◀── NameLowering ◀── NameMeaning ◀─┐
                                         LocalNamesProofs ──▶ LocalNames ◀──────┴── NamePipeline ◀── MCNames
                                                 └──▶ Induction
```

(`A ◀── B`: B extends A.)

### 2.1 `DependencyOrder` — what a dependency graph means

The abstract specification of the graph, by definition and not by algorithm:
`TransitiveDeps(g, p)` is the least closed set, `Cyclic(g)` the existence of a set
of packages that wait for each other, `Ready(g, done)` the next batch.
`IncrementalBuild` uses these definitions to walk a graph; `DepGraph` has the
loops of the code, and is checked and proved against them. That is how the two
compose: `BatchesInOrder` (section 4) is what allows `IncrementalBuild` to take
`Ready` for the next batch.

### 2.2 `DepGraph` — `dep_graph.rs` with the fetcher

| Variable | Code |
|---|---|
| `dir`, `rootDeps` | `.biwa_build/deps/<name>/biwa-package.json`, the root's manifest; `Partial` is a directory without a manifest |
| `hub` | what the Biwa Package Hub answers (external) |
| `queue`, `visited`, `adjacency`, `pkgIds` | the locals of `discover` and the fields of `DepGraph` |
| `cur`, `picked`, `next` | the entry popped, the version chosen, the index in its dependency list |
| `inDegree`, `ready`, `batches` | the locals of `topo_batches` |
| `cut` | history: directories left by a fetch that did not end |

Actions: `Start`, `Skip` (the `continue` on a visited name), `Take` (pop, and
either the directory is there, or fetch, or fail), `Fetched`, `GitFails`,
`Read` (manifest, id, collision), `Push` and `EndPush` (one dependency at a
time), `BeginOrder`, `Batch`, `EndOrder`. Environment: `Kill` at any step, and
between runs `EditDir`, `EditRoot`, `Publish`.

### 2.3 `IncrementalBuild` — `lib.rs` with the freshness rule

A hash is modelled by what it hashes: `SvhValue` has the signatures and not
the trait bounds, because `compute_svh` hashes those and not these. So two
contents have one hash exactly if the code could not tell them apart (collisions of the
hash function aside). A file is a record of what it was made from: `BinOf` names
the source, the manifest, the interfaces and, for wasm, the bodies it was
compiled with. "Up to date" then is equality with what compiling now would
write (`UpToDate`).

| Variable | Code |
|---|---|
| `src`, `manifest`, `compiler` | what the user controls |
| `meta`, `mir`, `bin`, `fp` | the four files of a package; `Absent`, or `Torn` by a kill inside `fs::write` |
| `out` | outputs of dependencies copied beside the root's |
| `phase`, `cur`, `batch`, `graph` | where `compile` is |
| `svhs` | `HashMapOfPackages` |
| `work` | the sources hashed, the manifest, and the sources loaded afterwards |
| `tainted`, `quiet` | history, see below |

Actions of the driver, in the code's order: `StartBuild` (discover and order),
`ReusePackage`, `BeginRebuild` (hash, judge, read the dependencies), `Analyze`
(load again, resolve, write `.biwameta`), `Infer` (types, MIR, write
`.biwamir`; the end for `--emit mir`), `Codegen`, `RecordFingerprint`,
`CollectDepBins`. Each may fail where the code returns an error; a source has
the pass that rejects it. Environment: `Crash` between any two steps, `TornWrite`
inside any write, `CrashInCollect`, `EditSource`, `EditManifest`, `RemoveFile`,
`UpgradeCompiler`.

`tainted` holds the packages whose files a rebuild began to replace without
recording a fingerprint for exactly those files. It is not in the code, and no
guard reads it. It says for which packages the rule of freshness can be trusted;
for the others it cannot, which is the first finding.

### 2.4 `Mir` to `MirPipeline` - function bodies

- `Mir`: bodies as tables of blocks, terminators, reachability,
  `validate_body` as `IsValid`.
- `MirRun`: what a body does. `Step` runs one block, `RunFor(body, input, n)` as
  many as n; `Run(body, input)` gives the calls made, in order and with
  arguments, and how the function ends.
- `MirMeaning`: the reference. `Meaning(source, input)` says the same of the typed
  tree of a function. This is the language, not code of the repository, so it
  and its parts are marked external in the map.
- `MirBuild`: `Builder` of `biwac_mir_build`, one operator per method, with the
  numbering of locals and blocks as in the code: `LowerIf` opens `then`, `else`
  and the join before it lowers their contents.
- `SimplifyCfg`: the four steps of a round, each a function on the blocks, and the
  rounds as a machine of its own for any body: `Begin(b)` takes a body from the
  lowering and validates it; `DoThreadGotos`, `DoCollapse`, `DoMerge`, `DoRemove`
  are the calls in the loop of `SimplifyCfg::run`, the last of which ends a
  round, and validates the body when no other comes.

  | Variable | Code |
  |---|---|
  | `given` | history: the body as it came |
  | `body` | `body` |
  | `stage` | the call that comes next, `"simplified"`, or `"broken"` when `validate` has found errors |
  | `round`, `changed` | the loop's count and its `changed` |
- `Dominators`: what the structuring knows of the graph. The depth-first walk is
  a function over its steps (`visited`, `stack` and `post` are the code's; `next` holds
  what the code keeps on the stack beside each block), the rounds of the iteration
  one over the rounds and the places in the order.
- `Structure`: merge points, reducibility, the tree of `Block`, `Loop`, `If`, `Br`;
  and `RunTree`, which runs a tree as WebAssembly runs what is printed for it.
- `TypeScriptBody`: the printing of a function body for the other target. `c` is
  `FnAstBuildCtx`: the statements so far and the number of temporaries. A script
  is made of the nodes that TypeScript has too, so that `Meaning` runs it as well.
  `HoistsInPlace` says of a source that what is hoisted passes over nothing
  that could tell: no call, no variable it assigns to, no branch.
- `MirPipeline`: `Build` lowers the source and hands the body to the machine of
  `SimplifyCfg`; when that is through, `DoStructure` makes the tree for WebAssembly
  or `PrintScript` the TypeScript, and `made` says which. Because every step of
  a round is an action, `MeaningKept` speaks about the body in between.

`Meaning`, the lowering, the structuring and the printing are recursive over trees;
these modules are for TLC only. `Mir`, `MirRun`, `SimplifyCfg` and `Dominators` use
functions and sets instead, and are proved about.

### 2.5 `Types` to `TypePipeline` - inference, traits and monomorphisation

- `Types`, `Hir`: types with substitution and matching; the nodes of a typed body.
- `Unification`: `ty_unify`, `call_unify`, `defined_ty_unify` and `resolve_ty` on
  the record `c` of the inference, the occurs check with its gap included.
- `TraitSolver`: `TyCtx`, direct methods, methods of traits in scope, bounds.
- `TypeInference`: `infer_expr` and its kin, a node at a time, with what they
  record at every call, and `InferFnBody`, which settles obligations at the end.
  `open` in its record is history: the operators that were let through because the
  type of their operands was still a variable.
- `TypeRules`: the reference. A rule for every construct, said of the types found
  and not of how they were found; `WellTyped` is their conjunction. The rule for
  a literal looks up its kind, the rule for a call compares arguments, none calls
  the unifier. Two rules are as weak as the code is: an operator in `open` may be on
  any type, and a bound is met by the head of a type. `BoundsFit` says the latter as
  a program needs it, for the type itself and the arguments of the trait.
- `Collector`: the machine. `InferFn(f)` infers a body of the package, in any
  order; then come the turns of the two loops of `Collector::run`: `SkipSeen`,
  `TooManyInstances` (the limit), `MissBody` and `MakeInstance` for a function,
  `MissTyDef` and `MakeType` for a type, and `Finish`. MIR is to it a list of
  types, string constants and calls, gone through one by one (`Walk`, `Visit`).
  What the inference makes of a body, what substitution makes of a type and which
  function a call comes to are constants, so that the proofs hold whatever they are.
- `Monomorphize`: those constants for MIR: what `ItemOf` keeps of a function and
  `ContentOf` of the definition of a type, and `CalleeOf`, with the choice of the
  implementation for a call through a trait.
- `TypePipeline`: those for the inference, with what the dependencies bring; and the
  properties that are about types. `Types.cfg` gives `Collector` its constants.

| Variable | Code |
|---|---|
| `prog` | what is written in the package, and the order of the hash tables of this process |
| `phase` | where `compile` is between inference and the end |
| `tabs` | `FnDef`'s tables after inference: `var_tys`, `expr_tys`, generic types of calls |
| `m` | `Collector` |

`Closure` is the abstract specification of a work list (nodes are found, finished,
and finishing one finds what it leads to). `Collector` maps itself to it
(`Worklist == INSTANCE Closure WITH ...`, a node being an instance of the program,
finished when it is made or known to have no body); the run checks
`IsWorklist == Worklist!Spec` and `CollectorIsWorklist` proves it.

### 2.6 `Names` to `NamePipeline` - name resolution

- `Names`: packages, paths, the cells of their segments, `resolve_path`. A cell
  that is set twice ends the process, as in the code; so does reading one that
  was never set. `stop` holds why.
- `NameContexts`: what generic types, `Self` and `T::item` mean inside an item; and
  that `Self::f` ends the process in an impl block of a type without a definition.
- `NamePasses`: `collect_defs`, targets of aliases, the two passes over impl
  blocks with their checks for duplicates, imports with the loop they detect,
  traits in scope.
- `NameLowering`: alias expansion and the comparison of an impl with its trait.
- `LocalNames`: the scopes of a function body, `FnResolveCtx`, and the body as it is
  written while it is resolved (`WriteOpen`, `WriteLet`, `WriteUse`, ...). `BodySpec` is
  that machine alone: one body after the other, of any length, with any names known
  outside of it. `log` has what was written, in its order; the property is about it.
- `NameMeaning`: the reference. The meanings of imports, aliases, impls and paths
  as the least solution of what the declarations say of each other; no order and
  no cells. `KnownStop` lists the shapes of a package that end the process.
- `NamePipeline`: the machine: a pass after the other, one global at a time, in
  any order where the code iterates a hash table; and in it the body of one
  function. `OpenInBody`, `LetInBody` and so on are the actions of `LocalNames` with
  what is known outside, so that TLC writes every body of `MaxEvents` events. On
  `fnctx` every step of it is one of `BodyNext` or none.

---

## 3. The runs

All with the CONSTANTS in the `.cfg` of that name. "States" are distinct states.

### 3.1 Runs that pass

**`typescript_build`** (`TypeScriptBuild.cfg`, 1.7 million states). Root, `a`,
`b`; root uses `a`, and `a` uses `b` or no longer does; two compilers; three
builds, two steps of the user, kills anywhere. Sources: `b` plain, with another
signature, ill-typed; `a` one that does not expose types of `b`, or one TypeScript
generation rejects. Two edits are needed for "change and undo", three builds
for "build, spoil, build again"; a chain of two is the shortest in which an
interface can change behind an unchanged package.
- `ReuseIsSound`: a package found fresh has the files that compiling it now
  would write, unless it or a dependency is tainted.
- `SuccessIsClean`: after a successful build with no edit meanwhile, every
  package of the graph is up to date with the files of its dependencies.
- `ForcedBuildIsClean`: the same for `--rebuild` with no exception at all: torn
  and stale files included.
- `NullBuildIsFresh`: after a successful build, building again compiles nothing.
- `DepHashesComplete`: the `filter_map` over hashes in memory drops none.
- `OutputsMatchGraph`: the root's output directory has the outputs of exactly
  the packages in the graph.

**`wasm_build`** (`WasmBuild.cfg`, 1.6 million states). The target that takes
bodies of dependencies into its output; files saved while the build runs,
`--emit mir`, kills, errors in monomorphisation. `SuccessIsClean` and `ReuseIsSound`
are proved for any target and checked in the other run; here are those about bodies:
- `DepsAreLoadable`: a package with untainted dependencies never fails to read
  their files;
- `NeverMixesVersions`: no output has the body of a dependency with another
  version's interface, whatever is torn or stale;
- `BuildInv`: the inductive invariant of the proofs.

**`build_terminates`** (`LiveBuild.cfg`, 90 thousand states), under weak fairness
of `Driver`. `BuildTerminates`: a build that starts ends, also when manifests
form a cycle between builds or change during one.

**`dependency_graph`** (`DependencyGraph.cfg`). In a single run, three packages
whose lists come from a fixed set that has chains, diamonds, cycles, a package that
depends on itself, a name listed twice and a directory with a package of another
name; and, with two runs, a few versions to fetch, failing and killed fetches, one change in
between, and one colliding id. `GraphIsClosure`, `BatchesAreLevels`,
`CyclesAreRefused`, `ClosureIsReachability`, `IdsAreDistinct`,
`KeepsWhatIsThere` (a run never replaces a directory that has a manifest), and
`RunEnds` under weak fairness of `Driver`.

**`mir_pipeline`** (`MirPipeline.cfg`, 7.5 thousand states, 597
functions). Statements nested two deep and in pairs, the second with an empty branch (`if`, `while`, `match`
with binding, testing and catch-all arms, `return` anywhere), and every kind of
expression in every place an expression can be. Each is run on twelve inputs:
two numbers, three values of an enum, two sequences of results of calls. Nesting
of two is where joins meet joins and where a `return` leaves an inner branch.
- `NeverBroken`: validation never refuses what the lowering or the passes make,
  and the structuring never meets an irreducible graph.
- `MeaningKept`: lowering and every step of every round keep calls, order, result.
- `SimplifyInv`: a valid body is valid again after each round, its blocks and locals
  in range after each step; rounds that end before the limit leave nothing to do.
- `RunKept`: every step keeps the run of the body, to the last local, and lets it
  take no more blocks.
- `FullySimplified`: sixteen rounds suffice, and no block that only jumps is left.
- `DominatorsFound`: the iteration gives the immediate dominators, and
  `Dominates` answers rightly for any two blocks; what is right is said by what can
  be reached without a block, with no walk, rank or round in it.
- `EachBlockOnce`: the tree has every block exactly once.
- `TreeMeaningKept`: the tree does what the source does, with a loop counted as
  one construct, as the code that builds the tree counts it.
- `ScriptMeaningKept`: the script does what the source does, for the sources with
  `HoistsInPlace`. 391 of the functions can be printed (a `while`, a block as a
  statement and an `if` with a value and statements are `todo!()` in the code);
  of these 311 hoist in place, 258 of them into temporaries. The other 80 are
  those that section 5 is about.

**`types`** (`Types.cfg`, 55 thousand states). A library with a generic container
`Box`, an enum `Opt`, three traits, bounded and generic functions, and a package whose
scene has up to three of thirteen statements in every order, the types of earlier
variables being decided by later ones; and up to two of these and five more, which
reach the edges: polymorphic recursion, a body that is missing, bounds that only the
head of a type meets or that nothing meets, an operator on a type that is open. Both
orders of the hash tables; at most nine instances, so that the recursion reaches the
limit. Three statements are "open a variable, use it while it is open, decide it".
`Box` implements its traits for every argument; `Opt` implements `Show` for `Int`
only, and `Conv` with another argument than the bound of `keep` asks for.
- `AcceptedIsWellTyped`: what inference accepts satisfies `TypeRules`. Excluded are
  the operators in `open`, which nothing looks at again. The run accepts one that
  turns out to be on a Bool: without the exclusion TLC finds it (section 5).
- `InstancesAreWellTyped`: every call of the finished program has its instance,
  with the argument and result types the call has; if `HeadsDecide`, that is, if
  every bound that the head of a type meets fits the type itself. Without it
  `keep(Opt::Some(i))` makes a call of `Opt.conv`, which is for a Bool, with an Int.
- `BoundsSuffice`: with the same hypothesis, no call through a trait is left without
  an implementation, through instances of instances too: what no head meets is
  rejected, and what fits is found. Without the hypothesis TLC finds `twice(o)` for an `o` of `Opt::Some(true)` (section 5).
- `TypesAreComplete`: every concrete type mentioned is defined, once.
- `StringsKept`: constants keep their text when pools are merged.
- `IsWorklist`: the refinement of `Closure`.
- `TypeOK`: what is made was seen, once, and strings are where the map says.

A native function of the library returns a type whose definition is nowhere, so
that `MissTyDef` is taken too.

**`names`** (`Names.cfg`, 135 thousand states from 7.6 thousand packages). Families
of packages with two modules and a dependency: imports of and through each other,
chains and circles of aliases, impl blocks in pairs, traits and their impls,
generic names that shadow globals, `Self` everywhere; and every body of six
events. About 1.4 thousand packages are accepted, 4.8 thousand rejected, and in 1.75
thousand ends the process is stopped.
- `ResolvedAsDeclared`: in an accepted package every path, at any depth of a type,
  has the meaning of `NameMeaning`, whatever the order.
- `StopsAreKnown`: the process ends itself for the shapes of `KnownStop` only,
  and no package that has one is accepted.
- `OneItemPerName`: the checks for duplicates leave no ambiguous item.
- `TraitImplsConform`: an accepted impl has the items of its trait, at the types
  the trait declares.
- `VariablesAreLexical`: a use gets the latest declaration in an open scope.

### 3.2 Runs that are expected to fail

`rejected_build`, `bound_change`, `version_ranges`, `unfinished_fetch`,
`wasm_loops`: each states what a comment of the repository says, and TLC finds a
behaviour of the code that differs. See section 5.

### 3.3 Fairness

Only the two liveness runs have any: `WF_vars(Driver)`. biwac is one sequential
process that never waits for another (the hub and git answer or fail; a git
that hangs for ever is not modelled), so while it is not killed it takes its next
step. Nothing is assumed of the user, the hub or kills.

### 3.4 Deadlock and bounds

`CHECK_DEADLOCK FALSE` in all: the system is idle when the bounds are used up, a
body is done when it is structured or printed, and a package when it is resolved
or monomorphic. Bounds: `MaxEdits`, `MaxBuilds`
(IncrementalBuild), `MaxChanges`, `MaxRuns` (DepGraph), `MaxRounds` (16, the
code's own limit), and `Fuel`, thirty blocks for one execution in `Run`; none takes more
than sixteen, as the sequences of call results end the loops;
`Depth` (statements of a scene) and `InstanceLimit` (the code's limit, smaller);
`MaxEvents` (declarations, uses and block ends of a body).

### 3.5 Mutants

An operator whose comment begins with "Mutant:" is a plausible bug. No
specification uses it; `PROJECT.json` names the definition it would replace and
the property that then fails.

---

## 4. The proofs

TLAPS checks these for every value of the constants, that is, for any number
of packages, any sources, any graph, and any number of edits, builds and kills;
for the collector, whatever inference, substitution and the choice of
implementations compute; for variables, any body of any length.

| Theorem | Module | Says |
|---|---|---|
| `TypesHold` | IncrementalBuildProofs | `Spec => []TypeOK` |
| `Invariance` | IncrementalBuildProofs | `Spec => [](TypeInv /\ BuildInv)` |
| `DependenciesComplete` | IncrementalBuildProofs | `Spec => []DepHashesComplete` |
| `ReuseSound` | IncrementalBuildProofs | `Spec => []ReuseIsSound` |
| `VersionsNeverMixed` | IncrementalBuildProofs | `Spec => []NeverMixesVersions` |
| `DependenciesLoadable` | IncrementalBuildProofs | `Spec => []DepsAreLoadable` |
| `OutputsOfGraph` | IncrementalBuildProofs | `Spec => []OutputsMatchGraph` |
| `SuccessClean` | IncrementalBuildProofs | `Spec => []SuccessIsClean` |
| `ForcedClean` | IncrementalBuildProofs | `Spec => []ForcedBuildIsClean` |
| `NullBuild` | IncrementalBuildProofs | `Spec => []NullBuildIsFresh` |
| `WalkInvariance` | DepGraphProofs | `Spec => []IInv` |
| `WalkTypes` | DepGraphProofs | `Spec => []TypeOK` |
| `WalkFindsAll` | DepGraphProofs | `Spec => []GraphIsClosure` |
| `BatchesInOrder` | DepGraphProofs | `Spec => []BatchesAreLevels` |
| `CycleDetection` | DepGraphProofs | `Spec => []CyclesAreRefused` |
| `DistinctIds` | DepGraphProofs | `Spec => []IdsAreDistinct` |
| `KeepsDirectories` | DepGraphProofs | `Spec => KeepsWhatIsThere` |
| `ClosureComplete` | DepGraphProofs | `Spec => []ClosureIsReachability` |
| `StaysValid` | SimplifyCfgProofs | `SimplifySpec => []SimplifyInv` |
| `BehaviourKept` | SimplifyCfgProofs | `SimplifySpec => []SameBehaviour`: same runs, both ways, for every input and length |
| `EndsKept` | SimplifyCfgProofs | `SimplifySpec => []RunKept` |
| `DominatorsAreFound` | DominatorsProofs | `SimplifySpec => []DominatorsFound`: for every body that leaves simplify_cfg |
| `CollectorTypeOK` | CollectorProofs | `Spec => []TypeOK` |
| `TextsAreTheSame` | CollectorProofs | `Spec => []StringsKept` |
| `LinksAreComplete` | CollectorProofs | `Spec => []CallsAreLinked`: no call without its instance |
| `DefinitionsAreComplete` | CollectorProofs | `Spec => []TypesAreDefined`: no written type without its definition |
| `CollectorIsWorklist` | CollectorProofs | `Spec => IsWorklist` |
| `NothingIsLost`, `NothingIsExtra` | CollectorProofs | what the worklist promises, from `Worklist!Spec` alone |
| `InstancesAreClosure` | CollectorProofs | so the collector keeps it, and ends with the least closed set |
| `ProgramIsWhatMainNeeds` | CollectorProofs | the finished program has exactly the instances that scene main leads to |
| `Lexicality` | LocalNamesProofs | `BodySpec => []VariablesAreLexical` |

**Assumptions.** `SourceAssumption` and `EnvironmentAssumption` type the
constants; `MarkerAssumption` says that "no file" and "torn file" are not
contents of files; `GraphAssumption` types the constants of DepGraph and says that
there are finitely many packages. `BodiesAssumption` says of what the lowering hands
to simplify_cfg that it is made of the records of `Mir` and that no edge leads to
bb0; TLC evaluates it on every body that the lowering makes of the sources of
`mir_pipeline`. It is needed: the merge may take in bb0, for it asks only whether
the block has one edge to it, and then the function would begin at an empty block.
`ListAssumption` says that the MIR of a function is a list of types, string constants
and calls, that of an own function if its body was accepted, and that what is written
in a definition is a list of types; `LimitAssumption` that the limit is a number.
`ParamsAssumption` says that a function that is entered has parameters of different
names, as `FnResolveCtx::new` gives up on others. TLC evaluates all assumptions in
its runs, `ListAssumption` on every program of `types`.

**`BuildInv`** has four parts. `ReuseIsSound` alone is not inductive: that a
package may be reused now depends on what earlier builds recorded.
`RecordInv`: the fingerprint of an untainted package describes its files, each of
which is as recorded or missing. To keep it, the step that writes a
fingerprint must know what the steps before have written (`CompileInv`), that the
hashes it records are those of the files the compilation has read (`HashInv`),
and that these are the hashes of all of its dependencies, none being built later
(`OrderInv`). `OrderInv` in turn rests on lemmas of DependencyOrderProofs:
dependencies are closed, and a graph with nothing ready and something left is
cyclic (`NothingLeft`). From `RecordInv`, `ReuseSound` follows: equal hashes
of dependencies are equal interfaces and bodies (`SameDepsSameFiles`), so what
the fingerprint describes is what would be written now.

**`TypeInv`** strengthens `TypeOK` by what a compilation has read: its
dependencies' files are there and whole, else `MetaOf` would be built from a
missing file.

**`IInv`** of DepGraph. `WalkInv`: what is in the graph is what was visited, apart
from the package in hand; every dependency of it is visited or queued;
nothing is visited or queued that the root does not reach. `OrderInv`: the counter
of a package is the number of places in its list whose package is in no batch -
places, not names, which is why repeated names do no harm - and no set of packages
that wait for each other has a member in a batch, from which the exactness
of the cycle check follows.

**`OutputInv`** (IncrementalBuildProofs) adds to these what a build loads and collects.
`FilesInv`: a built package without taint has its files, and its body names its
interface - by `RecordInv` when it is reused, by `CompileInv` when it is compiled;
`DependenciesLoadable` is that fact for what a package needs, all of which is built.
`LoadedInv`: what `load_dep_mirs` has checked when the compilation began still holds
when the output is written, as a compilation writes only files of its own package.
`CollectInv`: after the copying, only the root's own output changes.

**`CleanInv`** (IncrementalBuildProofs) is about what the running build is done with,
while nothing is edited. `ReadInv`: what the compilation has hashed and loaded is
what the user last wrote. `DoneInv`: a built package is fresh against what its
dependencies recorded, up to date unless it or a dependency is tainted, and in a
forced build not tainted. A package that is done stays so because all it needs is
built before it, and later steps write no file of a built package. The last step of
a build carries this to the root: `SuccessClean` and `NullBuild` are its
conclusions, and `ForcedClean` follows as a forced build removes every taint.

**`ClosureIsReachability`** (DepGraphProofs). What `transitive_deps` has collected
after n levels of its queue is what chains of at most n dependencies lead to, and
after as many levels as there are packages nothing is missing. The inductions are
over an interval of numbers as a set (`Induction`): a set that has 0 and with every
number the next has all. The theorems of the library take the predicate as an
operator, which the provers cannot instantiate; a set they can.

**simplify_cfg** (SimplifyCfgProofs). Two bodies have the same runs
(`SameRuns`) if, from every state at their entries, a run that ends in the one
ends in the other, in the same state, and the second needs no more blocks for it.
`SimulationGivesRuns` says that a relation between places in the two is enough for it:
what runs from related places do is the same up to the next related places, and
the first may need some blocks more to get there.
Each step then gives its relation:
- *threading*: the same block, its targets moved along empty jumps (`ResolveChain`),
  the jumps being what is left out;
- *collapsing*: a switch with one target goes there whatever it tests;
- *merging*: block a of the new body does what a and then the taken block b do in
  the old. That no one else ever comes to b is the invariant of the loop
  (`MergedSoFar`): a block with one edge to it keeps at most that edge while
  others are merged, though the counts are those from before, and the empty
  block that is left of b has no edge to it;
- *removing*: the same block with its new number. `Reachable` is the least closed
  set with bb0 (`ReachableClosed`, `ReachableLeast`), and the numbers of what is
  kept are those from 1 without a gap, bb0 keeping its own (`PlacesAre`).

`SameRuns` goes through compositions, so `IInv` keeps it between `given` and `body`
over any number of rounds. `BehaviourKept` reads it off in both directions; `EndsKept`
is the part that the run checks. The other conjuncts of `IInv` are `SimplifyInv`:
validity needs that removing leaves only blocks that are reachable by their new
numbers; and that a step that changes nothing finds nothing to do
(`FixedIsSettled`) needs that a merge always changes the blocks.

**Dominators** (DominatorsProofs). `StaysValid` gives that every block of a body
that leaves simplify_cfg can be reached, and `BodiesAssumption` that no edge leads to
bb0; nothing else is assumed, in particular not that the graph is reducible: the code looks for that
afterwards, with these dominators. The proof has four parts.

*The walk.* A block is visited once and is on the stack or finished; one that is
finished has only visited successors. Each step looks at one more successor or
finishes a block, so a number grows that is at most three for each block
(`WalkEnds`). Thus the stack is empty at the end, and in the order that is left bb0 is
first and every other block comes after one that leads to it (`OrderFound`).

*Meeting.* `Up` of a block is the block and its dominators so far, up to bb0. As
ranks fall on the way up, each way has at most one block of a rank, and
`Intersect` ends at the highest block that is on both ways (`IntersectMeets`); over
the predecessors that have one already, `MeetOf` ends at the highest that is on all of
their ways (`MeetFound`).

*The rounds.* What `WaysAreDominators` needs at the end is that ways hold the strict
dominators, all and only. `RoundInv` has four parts beside the tree itself:
- `Sound`: no dominator is passed over. A block that can be avoided up to the
  dominator of b can be avoided up to b.
- `Narrow`: what is on the ways of all predecessors is on the way of b. This is what
  lets dominators only move up, and it is not inductive alone: when one between moves
  up, the predecessors of a block behind it may come to have more in common.
- `Follows` closes that. Each block has a fixed parent of lower rank that leads to it
  (`IsParent`), and what is on the way of a block is on that of its parent. In the
  middle of a round this holds of the blocks whose turn was, and of the others for
  what is not before the block whose turn it is.
- `Ready`: a block has a dominator when its turn is over, and its parent before it.

*The end.* A round that changes something gives a first dominator or moves one up, and
moves none down. `HowFar`, the pairs of a block and a rank from that of its dominator
on, becomes larger (`RoundGains`), so within as many rounds as blocks times blocks
there is one that changes nothing (`RoundsEnd`); the `CHOOSE` in `DominatorRounds` has something to
choose. Then what is on the way of b is on the ways of all predecessors or b itself,
so the blocks which do not have a on their way are closed under edges that leave
others than a, and `Reachable` is in that set, being the least: a is a dominator.
The other inclusion is `Sound`. `DominatesIs` follows the way up once more for
`Dominates`.

**The collector** (CollectorProofs). `Walk` is a recursive function over the parts of
a body. `WalkSteps` says that such a function exists, and `WalkWalks`, by induction
over an interval, what a walk does to the collector: the stack gets exactly the
instances that the calls are of, the seen types exactly the concrete types written,
the pool only grows. From there on no proof looks into a body again; `StepDoes`
gives what each action does in these terms. The invariant `Inv` is needed in six
parts, of which these say what a test would hardly show:
- `MadeInv`: unless there were too many instances, all that was seen is made or
  known to have no body. The one that comes at the limit is seen and never made;
  nothing is taken from the stack after it.
- `LinkInv`: while there is no error, the calls of what is made lead to what was
  seen or is on the stack. A call that leads nowhere is an error, and errors stay.
- `TypesInv`: a type is on the stack once, and off it when it is made or known to
  have no definition; what is written in what is made was seen.
- `TextsInv`: an instance holds an index into a pool that may grow after it.
`DoneInv` adds that a finished program has empty stacks and no error, from which
the theorems about finished programs follow. In the refinement the nodes carry the
program, for the calls of a function of the package are those of that program. The
step at the limit is a stutter, unless its function is one of which it is already
known that it has no body: then it is a step of the worklist.

**Variables** (LocalNamesProofs). The resolver has a stack and forgets; the property
is about a log and finds what is open at a place by counting beginnings and ends
of blocks between. `StacksMatch` is the link: there are the places at which the blocks
on the stack begin, in this order, and the k-th from the top still waits for k ends
(`BlocksMatch`); those of them with a scope, and the function itself, are the scopes
(`ScopesMatch`); and each scope has what was declared while it was the innermost one
(`VarsMatch`). What the log says of a place depends on what is before the place only
(`OpenSame`, `ScopesSame`, `SeenSame`), so an event is judged once, when it is written.
Then: the innermost scope with a name has the *latest* declaration of it, for what
was declared while an inner scope was open is not in an outer one (`LookupIsLatest`);
an end closes exactly the block on the top (`CloseStacks`); and the numbers are below
`next`, which no end of a block gives back (`NumbersInv`; `CloseBlockReusing` is the
mutant that does).

**Only model-checked**:
- liveness, which needs ENABLED;
- `FullySimplified`: its last conjunct, that no block which only jumps is left, is
  false of some valid bodies. A circle of such blocks with two entries whose
  length divides the number of blocks is left alone by `Resolve`. No lowering
  makes one. `Settled`, what remains without it, is proved;
- the lowering, the tree that the structuring builds, scripts, the inference of
  types, the choice of implementations and names: their passes are recursive over
  trees, and tlapm has no use for recursive operators. `NeverBroken`, `MeaningKept`,
  `EachBlockOnce`, `TreeMeaningKept` and `ScriptMeaningKept` begin or end at such a
  tree; what lies between, simplify_cfg and the dominators, is proved. `AcceptedIsWellTyped`, `InstancesAreWellTyped`,
  `BoundsSuffice` and `TypesAreComplete` (types inside of types) are about those, as
  are the properties of paths, items and impls of `names`.

---

## 5. What the runs found

1. **`rejected_build`**. `.biwameta` is replaced (lib.rs:600) before types are
   inferred, and the old `.biwafp` stays. If inference then fails, and the
   old source is restored, `check_freshness` says Fresh to a `.biwameta` of other
   sources. A kill there, and `--emit mir`, have the same effect.
   `--rebuild` repairs it (`ForcedBuildIsClean`).
2. **`bound_change`**. `svh_genargs` leaves out trait bounds, which the
   inferrer of a dependent enforces. Adding a bound leaves the SVH as it is, and
   dependents are reused that no longer type-check.
3. **`version_ranges`**. A name visited once, or a directory that exists, settles
   the version; ranges of further requirers are never looked at.
4. **`unfinished_fetch`**. `fetch_commit` makes the directory first and leaves it
   when git fails. The next run takes it for the package.
5. **`wasm_loops`**. `do_tree` returns `Loop(Block(..))` with only one entry in
   the context; emit prints two constructs. Each `br` out of the inside of a
   loop is one short, and the `br` to the head leaves the loop instead.

**Hoisting (TypeScript).** What a `match` or a block with statements needs is put
in front of the whole statement. Operands on its left are then evaluated after it:
for `f(1) + match e { .. => g(x) }` the script calls `g` before `f`, the MIR `f`
before `g`. Out of the branch of an `if`, and out of the arm of a `match`
statement, it goes in front of the `if`, where it runs always and cannot see
what the arm binds; `block_expr_into` puts what the earlier statements of an arm
hoist after all of them. `ScriptMeaningKept` is stated for sources without these
(`HoistsInPlace`); for the call above the two traces differ in the model too.

**Types**, as the modules have them. Two of these contradict a comment; the
properties of `types` state them as exclusions, and the scenes of the run reach both:
- An operator on a variable that is still open is accepted (inferrer.rs:787, 815,
  836, 857) and not looked at again: with `let o = Opt::None`,
  `match o { Some(v) => -v, None => true }` negates a Bool. The comments beside it
  (780, 800, 825, 846) say which types an operator is applicable to.
- A bound is met when the trait has an implementation for the head of the type
  (inferrer.rs:393-397). With `impl Opt[Int]: Show`, `twice(Opt::Some(true))` passes
  the inference, and monomorphization, which does compare the arguments of the type,
  ends in `UnresolvedTraitCall`; monomorphize.rs:77-80 says that the inference has let
  the bounds pass, and that what comes there was missed when impls were collected or
  by the monomorphization. Neither of the two compares the arguments of the
  trait, so an implementation that gives it others is called with values of
  other types.

Beside these, `occurs` does not look into defined types
(inferrer.rs:2006), so a cyclic binding is possible and `resolve_ty` would not end.
`defined_ty_unify` (646) binds a variable of the program to the generic type of the
definition. A type that nothing determines stays a variable, and the back ends
panic on it.

**Names**, as `KnownStop` lists them: imports in a circle; an alias or impl
circular through an argument (overflow of the stack); an alias whose right is its
own generic type (a cell is written twice); a path of more than one segment
through the package's own name, and `Self::f()` in an impl (a cell is read before
it is written); `Self::f()` in an impl block for a type without a definition, such as
Int (a `todo!()`, impl_level.rs:57-62); `Self` in a struct, an enum or an alias; an impl with items on a
type of a dependency. Beside them: a bound that is not a trait is dropped
silently; impl blocks that name their type by an alias escape the checks for
duplicates and for foreign types, which look before aliases are expanded.

Also met: `validate.rs` and `structure.rs:24` speak of a validation that refuses
irreducible graphs; `validate_body` has none, and `check_reducible` of
the structuring is what reports them. No body of `mir_pipeline` is irreducible.

---

## 6. What is abstracted

- **Sources** are records of what the passes tell apart: signature, bounds,
  body, whether signatures mention dependencies, which bounds calls satisfy,
  whether there is a `main.biwa`, which pass rejects it.
- **Hashes** are what they hash. `IdOf` alone may collide, for it is a hash
  folded to 32 bits and the code checks for it.
- **A version on the hub** is the version in the manifest of its commit.
- **Directories under `deps/`** are edited between runs only.
- **`transitive_deps`** is modelled by levels of its queue, `topo_batches` by rounds.
- **A run that compiles** holds one package at a time; the two reads of sources
  are two steps.
- **MIR**: types, names, string constants and native functions are left out; a
  value is a tag with fields; a call returns what the input says and may be asked
  for what it was given. A struct value is copied: two variables that share
  one are not modelled. Blocks not reachable are removed at the end of the
  lowering, so `Structure` sees reachable ones only, as the validation checks.
- **Operands** that are variables are read late (builder.rs:519): an operand that a
  later operand of the same operation assigns to would read the new value.
  The repository does not say which is meant; no source of the run has one.
- **Monomorphisation** between simplification and structuring changes types
  and callees, not blocks, so `MirPipeline` goes on with the same body.
- **Scripts** have no types and no scenes (`yield`), and names are the source's; a
  variable is visible from its declaration on, which is enough as every variable
  has a name of its own.
- **Types**: spans and names are left out; declarations of dependencies are in
  `TyCtx` as they are in their sources, as if metadata lost nothing; integer and
  float literals differ, their values do not matter.
- **Names**: novel scenes, lang items, native items and generic types on segments
  of a path are left out; a function body is its blocks, declarations and uses.

---

## 7. What is not modelled

- A second biwac process on the same directory. The code takes no lock.
- The hub's HTTP, git, JSON, the file system below "a write is whole or torn".
- Lexers and parsers: sequential, and their unit tests reach what a model would.
- `biwac_attribute`, `biwac_lang_item`: stateless checks and tables.
- Mangling, layout of wasm memory, native templates: formatting.
- The symbol table of `.biwameta` and the codec of `.biwamir`: what they hold is
  modelled (`MetaOf`, `MirOf`), how it is laid out is not.
- Scenes and novel statements in any pass.

---

## 8. The plan

Done, in this order, the most important behaviour first: `DependencyOrder`,
`IncrementalBuild`, `DepGraph`, their proofs, the MIR pipeline with the proofs of
simplify_cfg, types and monomorphisation with the proofs of the collector, names with
the proof for variables, the TypeScript bodies, and the proof for the dominators.

| Next | Models | Abstract side, properties | Run | Proof |
|---|---|---|---|---|
| `Metadata` | the symbol table of `.biwameta`, decode and encode | decoding gives what was encoded; ids of dependencies stay right | small interfaces, read by `TyCtx` of `types` | - |
| `Scenes` | novel statements and scenes, from the scanner to `yield*` | a syscall leaves through every scene that called | scenes that call each other | - |
| `NovelScan` | scan.rs of biwac_novel_parser | every line has one meaning | bounded texts | - |

Proofs to add: that a reducible graph has every block in the tree once, which needs
`DoTree` written as a function over ranks; for DepGraph, that its outcome refines the
choice of `StartBuild`.

A second driver process on one directory is worth a run of its own once
`IncrementalBuild` is parameterised by drivers.
