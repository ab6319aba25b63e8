# Paddle-Lite in TLA+

A TLA+ development of the core of Paddle-Lite: the graph a model is turned into, the passes that
optimise it, the plan by which its variables share memory, the program that runs it and the
predictors that own it; and, of the two older runtimes in the repository, the memory plan of
`mobile` and the concurrent runner of `metal`.  Each module is a translation of the source; TLC
checks small instances, and TLAPS proves theorems about ten of the modules.

    tlc -config SSAGraphAll.cfg MCSSAGraph.tla
    tlapm SSAGraph_proofs.tla

`PROJECT.json` lists the components, the runs, the definitions with the lines they translate,
the hazards, the findings and the theorems.

## 1. The system

A model is a list of operators that read and write variables by name.  A `Predictor` loads it,
`Optimizer::Run` builds an `SSAGraph` from it and sends the graph through a list of passes, and
the last pass makes a list of instructions, which `Predictor::Run` executes on each call.

    Program --Build--> SSAGraph --passes--> SSAGraph --generate--> RuntimeProgram --Run--> outputs
     names              nodes                nodes                  names

The arrow that matters is that names become nodes and nodes become names again.  While the graph
exists two versions of a variable are two nodes; before and after, they are one tensor of one
scope.  Every pass works on nodes and has to leave operators behind that are right by name.

### Components

| component | state | operations | what makes it correct | here |
|---|---|---|---|---|
| SSA graph (`mir/ssa_graph.*`, `mir/node.h`) | nodes with links in and out; newest node of each name | `Build`, adjacency list, `RemoveNode`, `CloneFrom` | an input is linked to the version its last writer made; no cycle | `SSAGraph` |
| topological order (`mir/ssa_graph.cc`) | visited set, recursion, result | `StmtTopologicalOrder`, `SortHelper` | every statement once, after what it reads, for any node addresses | `StmtOrder`, `DataflowOrder` |
| kernel pick, type inference, casts (`mir/*_pick_pass`, `variable_place_inference_pass.h`, `type_*_cast_pass`) | kernel of a statement, type of an argument, links | pick, infer, insert `io_copy`, `calib`, `layout` | every input has the type its kernel declares; casts change neither what is read nor each other's variables | `TypeCast` |
| memory optimize pass (`mir/memory_optimize_pass.cc`) | lifetimes by device, clusters, operator descriptions | collect, plan, perform | variables in one memory are never needed together | `ReusePlan`, `MemoryReuse`, `MemoryOptimize` |
| program generation (`mir/generate_program_pass.cc`) | list of instructions | `Apply` | the order is one the graph allows | `MemoryOptimize` |
| runtime program (`core/program.cc`, `core/kernel.h`) | instructions, `has_run_`, tensors and buffers | `Run` | an instruction reads what its producer computed in this run | `RuntimeProgram` |
| optimizer, pass manager (`core/optimizer.h`, `mir/pass_manager.h`) | pass objects, shared by all predictors of a process | `Run`, `RunPasses` | the passes run in an order each can rely on; predictors do not mix | order in `TypeCast` and `MemoryOptimize`, sharing in `Predictor` |
| predictors (`api/*`) | scope, program, lazy generation | `Build`, `GetInput`, `Run`, `GetOutput`, `SaveModel` | the instructions are the predictor's own; outputs belong to the last run; a saved model loads and means what the loaded one meant | `Predictor`, `RuntimeProgram` |
| scope, variables, tensors, buffers, workspace (`core/scope.*`, `tensor.*`, `memory.h`, `workspace.h`) | names to tensors, tensors to buffers, sizes, targets | `ShareDataWith`, `mutable_data`, `ResetLazy`, `Alloc` | two variables hold one buffer only where that is meant | sharing, in `RuntimeProgram` |
| subgraph passes (`mir/subgraph/*`) | number of each statement, inputs and outputs of a subgraph | classify, fuse, replace | fusing makes no cycle and loses no output | `Subgraph` |
| fusion, elimination (`mir/fusion/*`, `mir/elimination/*`, `mir/pattern_matcher.*`) | matches of a pattern; filters and biases, changed in place | match, drop overlaps, rewrite, delete | what is fetched means what it meant; no match deletes what another one needs | `Fusion` |
| quantization and the shuffle, softmax and interpolate fusers (`mir/fusion/*`) | attributes and data of weights | match, rewrite | as above | not modelled |
| operators, registries (`core/op_*`, `utils/factory.h`) | registered kernels, in order | `CreateKernels`, slots | a name and a place identify a kernel | as inputs of `TypeCast` and `Predictor` |
| model parser, naive buffer (`model_parser/*`) | encoded descriptions | load, save | reading back what was written | not modelled |
| legacy runtime (`mobile/*`) | operators in program order; counters and lists of the memory pass | `InitMemory`, `MemoryOptPass` | variables in one list are never needed together | `MobileReuse` |
| Metal runtime (`metal/*`) | the runner's executor and program, a semaphore and one result buffer per executor, command buffers on the GPU | `load`, `predict`, `clear` from any thread; completion handlers | each prediction is answered once, with its own result | `MetalRunner`, `MobileReuse` |
| web runtime, kernels, math, contexts, profiler, bindings | | | | not modelled |

### What is hard about it

- **Order.** The loops over nodes follow sets of pointers and maps keyed by hash.  The order of
  the instructions, the clusters of the reuse plan and the type of an `any` variable all depend
  on it and may differ from process to process.  A test sees one of these orders.
- **Names and nodes.** The memory pass asks questions about nodes and enters the answers by name.
- **Shared memory.** Feed, fetch and an inplace reshape make two variables hold one buffer without
  the graph knowing.
- **State across runs.** `*_once` operators run in the first run only.  What they wrote has to
  outlive everything the memory pass does.
- **Lists that change under the loop.** A cast pass rewrites the links and the names of the
  statement it is looking at, and appends statements to the graph it is passing over.

- **Objects of the process.** Passes are registered once and keep state: the place a kernel is picked
  for, the places a copy may use, the instructions.  Every predictor runs through the same ones.
- **Threads and the GPU.** The Metal runner is called from any thread, while its GPU works on an earlier
  prediction and Metal calls the handler of another one.

In the optimiser there is one thread of control: the nondeterminism of its models is that of
addresses, hash orders and equally good kernels, of the program to be optimised, and of the
caller.  `Predictor` interleaves the calls of several predictors, and `MetalRunner` interleaves
calls, completion handlers and the GPU, step by step.

## 2. Modules

`Maps` has three operators for maps that grow: `NoEntries`, `Assign(f, k, v)`, `Lookup(f, k, default)`.

### `SSAGraph`: `SSAGraph::Build`

A statement node is the position of its operator, an argument node is `<<name, version>>`.  C++
keeps `arg_update_node_map_`, name to newest node; here `latest` maps a name to its newest
version.  One `BuildOp` is one round of the loop over `program.ops()`: first the inputs are linked
to the newest nodes, with a new node for a name nobody wrote, then every output gets a new node.
`AdjList` is `BuildOperationAdjList`.  `Producers` and `Consumers` read `DirectedLink` from both
sides.  `RemoveNode` is `Remaining` in `Fusion` and
`Subgraph`; `CloneFrom` is not modelled.

### `StmtOrder`: `StmtTopologicalOrder`, `SortHelper`

The recursion is the sequence `calls`.  Both loops of the code follow containers of `Node*`.  The
search skips what is visited and compares nothing else, so a free choice among the unvisited
statements gives exactly the searches that assignments of addresses give.  As in the code, a
producer that was entered and has not returned is skipped as if it were finished; that is right
only in a graph without a cycle.

`DataflowOrder` is the abstract specification: a scheduler that runs any statement whose producers
have run.  The search implements it with `done <- ret`.

### `ReusePlan`: `MakeReusePlan`

One step is one iteration of a loop: `OpenCluster` when the outer loop finds a node without a
cluster, `JoinCluster` or `PassOver` in the inner loop, `SkipNode`, `CloseCluster`.  `mem_nodes`
is the order in which the `unordered_map` of lifetimes is walked, any order.  A node has a cluster
index if and only if it is a key of `node2cluster`, which maps a name to the name of the cluster's
first node; the index is left out.

`MemoryReuse` is the abstract specification: a variable takes memory of its own, or that of a
variable that has its own and whose tenants are all alive at other times.  It does not say in
which order or how greedily.  The loops implement it with `plan <- node2cluster`.

### `MemoryOptimize`: from operators to instructions

Composes the three: `SSAGraph` is extended, `StmtOrder` and `ReusePlan` are instances over this
module's variables, and `phase` says who is at work.

| phase | code | action |
|---|---|---|
| `build` | `SSAGraph::Build` | `BuildGraph` |
| `sort` | `StmtTopologicalOrder` | `BeginSort`, `StepSort`, `EndSort` |
| `collect` | `CollectLifeCycleByDevice` | `CollectStmt`, `EndCollect` |
| `apply`, `plan` | loop over the devices, `MakeReusePlan` | `BeginPlan`, `StepPlan` |
| `perform` | `PerformReusePlan` | `BeginPerform`, `PerformStmt`, `EndPerform` |
| `generated` | `GenerateProgramPass::Apply` | `Generate` |

`uses[s][n]` is the variable the operator description of `s` names for the node `n`.  The pass
renames; it neither adds nor removes links, so the order of one `StmtTopologicalOrder` serves the
calls that follow.  `EndSort` lets the pass be skipped, as it is when ARM is not a valid place.
The target of an argument is that of its producer's kernel; how it comes about is `TypeCast`'s
matter, and the two modules are not composed yet.

### `RuntimeProgram`: `RuntimeProgram::Run`

Extends the pipeline with the tensors.  `buffer[x]` is the buffer the tensor of the variable `x`
holds; `contents[b]` are the argument nodes whose value *of this run* the buffer `b` holds.  That
is the only data: a kernel is correct if what it reads is there.  A kernel other than feed, fetch
and the inplace reshape replaces the contents of its output buffers; `RunFeed` and
`RunReshapeInplace` make two variables share one; `RunFetch` shares a buffer with the fetch list.
`StartRun(fill)` is the caller, who has to fill the inputs before the first run and may leave them
alone before the next.  A run of a program without operators ends where it starts.  At its start everything computed in the last run is stale, except weights
and what run-once operators wrote.

### `TypeCast`: kernel pick to the last inference

`Passes` is the sequence of `Optimizer::Run` between fusion and memory optimization.  A type is
target, precision and layout.  The three cast passes are one set of actions over the field they
compare (`Pass`): `BeginCast` takes the list of statements, `NextStmt` and `todo` are the loops,
`KeepInput`, `CastInput`, `NoCast` are the outcomes for one input, and `AddCast` does all of
`AddIoCopyInst`, `AddCastInst`, `AddLayoutInst`: new argument, new statement, relinking, renaming
by `UpdateInputTo`.  `failed` is a `CHECK` that ends the process.

What differs between the passes is kept: `type_layout_cast_pass` gives the new statement what its
kernel was moved out of (`Handed`), `variable_place_inference_pass` leaves `io_copy` statements out,
and `SetWeightType` has a branch for `LITE_WITH_FPGA` (`OnFpga`).  What is abstracted: the score of
a kernel is not computed, a program comes with its candidates, the kernels of the highest score,
and ties are a choice; device numbers are left out.  `static_kernel_pick` and a whole inference
pass are one step each, because nothing can happen inside of them that another step could see.

### `Fusion`: the fusion passes

The head of `Optimizer::Run`.  A pattern is a record: a predicate for each role, the edges in the
order the code adds them, and the variables the new statement is linked to; `Fusers` is the sequence
of fusers the passes construct, with the one the light-weight build adds.  One fuser is

| stage | code | action |
|---|---|---|
| `match` | `PerformPatternMatcher`: `DetectPatterns`, `UniquePatterns`, `RemoveOverlappedMatch`, `ValidateByNodeRole` | `PerformPatternMatcher` |
| `insert` | `InsertNewNode` for each match | `InsertNewNode`; `UpdateOutput` for the elimination of scales |
| `insert`, all done | `DeleteInterNodes`, `GraphSafeRemoveNodes` | `DeleteInterNodes` |

The matches come out of `unordered_set`s of pointers, so `RemoveOverlappedMatch` sees them in any
order.  As in the code, descriptions (`desc`) and links are changed apart from each other, and an
intermediate node is deleted after all matches are rewritten, a scale at once.  `ConvBNFuser` changes
tensors in place: `folded[w]` lists the batch norms whose alpha the filter `w` was multiplied with,
`shifted[b]` those whose beta was added to the bias `b`.  Mean, variance and the unread outputs of a
batch norm go with its scale, and `depthwise_conv2d` and `conv2d_transpose` are `conv2d` by another
name; both are left out.  An operator has one output.  `DescAssumption` says what a description of a
program is: its links are its names, it was not fused before (`IsUnfused`: no operator the fusers
make, no activation, the slots of `Slots`).  What else the fusers ask of a program is written out as
`Matchable` and `Fusable` (section 3).

`KeepsMeaning` compares `Meanings` before and now: a meaning is a set of terms, an input or the
product of a weight with a meaning, each with the batch norms it was scaled by in `by`; `Terms` and
`Result` say what an operator makes of what it reads, `Given` what an input or a weight stands for.

### `Subgraph`: the NPU pass, from numbers to subgraphs

Extends `SSAGraph`, whose links it changes, and is what `Optimizer::GenRuntimeProgram` does when
NPU is a valid place.

| stage | code | action |
|---|---|---|
| `build` | `SSAGraph::Build`, `InitSubgraphID` | `BuildGraph`, `InitSubgraphID` |
| `number` | `FuseSubgraphID`, `ChangeAllOutConnectedID` | `SkipStmt`, `OpenSubgraph`, `VisitVar`, `EndNumbering` |
| `convert` | `GenNPUSubgraph` for each number | `BeginSubgraph`, `ConvertOp`, `ReplaceSubgraph` |
| `generated` | end of `Apply`, or the exception and `generate_program_pass` | `Generate`, `BuildFails` |

`ChangeAllOutConnectedID` recurses; here `todo` is the set of variables it has still to look at.
An id only goes from zero to the number in hand, and the test it makes (`subgraph_id < 0`) never
changes, so the order of the visits has no influence and the set is enough.  The numbers are
converted in the order of an `unordered_map`, any order.  `converted` is `converted_vars`, a map by
*name*; `sub_id` keeps the number of a statement after it is removed, for the properties only.
`graph_op` of number `k` is the statement `built + k`.  `BuildFails` may happen at each number: what
was replaced before it stays replaced.  `InferOnce` is left out, as it changes tensors and no links.

### `Predictor`: `lite::Predictor`, `LightPredictor`, the shared passes

Every predictor has a thread of its own; `Cxx` predictors optimise, `Light` ones load what one of
those saved.  `place_`, `valid_places_` and `insts_` are members of the three passes and so belong
to the process.

| call | steps |
|---|---|
| `Build` | `Build` sets the preferred place of the kernel pick, `BuildGraph` hands the valid places to the target casts, `Pick` chooses kernels, `Cast` inserts the copies |
| `Run`, `SaveModel` | `CallRun`, `CallSave`; if there is no program yet `Apply` moves the kernels into the pass and `GenProgram` moves the instructions out; then `Run`, `SaveModel` |
| `LightPredictor::Build` | `BuildLight`: variables by name, kernels by place and alias |
| `GetInput` | `GetInput` grows the list when it must, which moves its storage; `Fill` is the caller, writing through a pointer into the present list |

`MayOverlap` lists the pairs of kinds of calls (`build`, `generate`, `other`) that may run at the
same time.  A model is a chain of statements and a kernel is a place and an alias, since `Predictor`
is about whose statements and kernels an instruction has, and `TypeCast` about which.  A kernel that
was moved from is `null`.  `aborted` is a `CHECK` that fails or a null pointer that is followed.

### `MobileReuse`: the memory plan of `mobile` and of Metal

`MemoryOptPass` of `mobile` and `MemoryOptimize` of Metal are one algorithm in two languages, with
a walk in opposite directions.  Each slot of an operator mentions its variables, outputs twice in
`mobile` and inputs twice on Metal; `nodes` is that walk, and one step is one iteration of its loop:
`JoinList`, `OpenList`, `Revisit`.  What differs (`Slots`, `Excluded`, `Walk`) depends on
`program.runtime`.  The lists implement `MemoryReuse` for the lifetimes between the first and last
mention, although the code has no lifetimes: the same abstract plan covers the algorithms of all
three runtimes.

### `MetalRunner`: `Runner` and `Executor`

Every call of `predict`, `load` and `clear` is an actor with a `stage`; an executor is named by the
load that made it, and has its semaphore, its `isValid`, its scope (`input`, `output`) and its one
`resultBuffer`.  `held[c]` is a call's strong reference; the completion handler has a weak one
(`Alive`).  `gpu` is the command queue.  A step is the code between two points where another thread
can see or change something: `Wait`, the guards `Reject` and `Accept`, `SetInput`, `Feed`, `Commit`;
`Execute` on the GPU; `HandlerDead`, `HandlerInvalid`, `HandlerGuard`, `HandlerRead`, `Signal` in
the handler; the steps of `unSafeLoad` and `clear` under their two locks.  `Throw` is an operator
that fails while it is encoded, `LoadFails` any step of a load that does; `trapped` is a nil that is
unwrapped.  A result is named by the prediction whose input it was computed from.

## 3. Runs that pass

| run | what it enumerates | states | why this is enough |
|---|---|---|---|
| `reuse_plan` | every table of up to 4 lifetimes over 3 positions, every order | 463,969 | a wrong join needs a cluster with two members and a third variable that overlaps only the second; a fourth one makes a second cluster. Three positions tell before, touching, inside and after apart |
| `ssa_graph` | every program of 4 operators over 2 names | 327,680 | two writers and two readers of a name, with another name between them; operators that read and write one name |
| `stmt_order` | every acyclic graph of 5 statements, every order | 106,102 | diamonds, chains, forests and shared producers; a root in the middle of a graph whose producer was reached from another root |
| `runtime_sound` | 7 named programs, all single-assignment programs of four operators that read one or two variables, with and without a `concat`; all plans and orders; 2 runs | 446,862 | clusters of three, both sides of the `invalid_op` list, two devices, weights with run-once copies, an overwritten variable; the second run is the first that sees stale data, and a third is like the second |
| `type_cast` | 1,921 programs of 5 operators, and FPGA programs of one and two; all ties, all input orders | 187,131 | an input may need a target and a precision cast, a variable be read by two operators that want different casts, one name stand in two slots, a weight be cast, an operator overwrite its input; on FPGA an input passes all three casts in a row |
| `fusion_sound` | 25,889 programs of four operators between feed and fetch: `conv2d`, `batch_norm`, `mul`, `elementwise_add` of a weight or of two variables either way round, `relu`, `leaky_relu`, `scale`, each reading one of the last two variables; every order of the matches | 757,854 | the longest chain the fusers make of one convolution is conv, batch norm, add, activation; four operators also make two matches of one fuser that share an operator, and a reader beside the pattern |
| `subgraph_sound` | four operators, each on the NPU or not and reading any one earlier variable, the first two with two outputs; and four that read any one or two, when `Layered` and `OneHead` hold (section 3); all orders, failure at any number | 569,559 | two subgraphs, with and without a CPU operator between; a variable with readers inside and outside; a weight read in two subgraphs; diamonds; unread outputs |
| `mobile_reuse` | a feed, one to three operators that read one or two variables and write one or two, over up to 6 names, one or two fetches; both runtimes, both levels | 292,770 | a list of two that a third variable wants; an operator with two outputs, one that overwrites what it reads, a variable fetched from the middle |
| `metal_predict` | three predictions, two loads of which any step may fail, one clear; predictions overlap each other and the clear | 660,062 | one prediction on the GPU, one in its handler and one at the semaphore; a clear between any two steps; predictions of a replaced executor |
| `predictor` | two predictors and a light one, a model of four statements, three targets, two inputs | 573,739 | a build between the two halves of a generation of the other; a save before and after the first run; a copy to the device and one back; a list that grows under a pointer |

What they show:

- **`ssa_graph`** `BoundToLastWriter`: an input is linked to the version of the nearest earlier
  writer, for operators that overwrite what they read as well.  `DependsOnEarlier`: no cycle.
- **`stmt_order`** `ProducersFirst`, `SortEnds`, and `IsSchedule`, the refinement.
- **`reuse_plan`** `NoOverlapInCluster`; `HeadKeepsItsName`, which is what makes one substitution
  of names enough; `PlanEnds`; `KeepsPromise`, the refinement.
- **`runtime_sound`** `ReadsItsProducer` is the property of the whole pipeline: whatever the order,
  the plan and the run, an instruction reads the value its producer in the *source program*
  computed in *this* run.  `OutputsIntact` and `InputsIntact` say the same of what the caller finds
  between two runs.  `SameDeviceOnly` is a promise the pass makes in a comment; `RunsEnd` is liveness.
- **`type_cast`** `InputsCompatible`: after the passes each input has target, precision and layout
  its kernel declares, so a later pass undoes nothing of an earlier one.  `CastsConvert`: the
  kernel of a cast does the conversion the types announce.  `SourcesKept`: behind its casts an
  operator reads the versions it was linked to.  `OnceFromWeights`: along a chain of casts the
  run-once mark reaches every cast of a weight and no other.  `CastNamesUnique`,
  `NeverDequantizes` (no calib undoes a quantisation), `PassesEnd`.
- **`fusion_sound`** `KeepsMeaning`: what is fetched, written out as a formula over inputs and
  weights, is the formula it was, through every rewriting, folding and elimination.
  `SharesNoInner`: what one match deletes is no part of another.
- **`subgraph_sound`** `EachStatementOnce`, `ReadersSupplied`: in the program the pass
  leaves, finished or interrupted, each operator is run once and each variable read is computed by
  what computed it before.  `StaysAcyclic`: the next search can order the graph.
  `ConvertsWhatItReads`: the model is wired as the statements were.

- **`mobile_reuse`** `OperatorsKeptApart`: counting mentions, without lifetimes, never gives one
  memory to two variables of which an operator uses one while the other's value is still needed.
  `OutputsSurvive`: what is fetched is written after all else that used its memory.  `KeepsPromise`:
  the refinement of `MemoryReuse`.
- **`metal_predict`** `OwnResult`: a completion that reports success hands over the result of its own
  input, though all predictions of an executor share one buffer.  `AnsweredOnce`; `PredictAnswered`,
  liveness: every call of `predict` is answered, unless an operator of the same executor threw
  (which keeps the semaphore, `Executor.swift:98`) or the process trapped (a clear while the feed
  operator is encoded takes away the input it unwraps, `FeedOp.swift:22`).
- **`predictor`** `OwnInstructions`: the instructions are the statements of the predictor's own model,
  with kernels of its own places.  `SavedModelLoads`: a light predictor has the instructions that
  were saved.  `InputsReachTheRun`: a run reads what the caller filled in last.  `NeverAborts`: no order of calls
  fails a `CHECK` or meets a kernel that was moved away.  Deadlock is checked.

Each of these properties has a mutant in `PROJECT.json`: a plausible mistake in one definition,
kept beside it under its name and a suffix, with which TLC finds the property violated.

### Conditions on the programs

The pipeline is right for these programs, not for all.  `SoundPrograms` leaves out

1. a variable that one operator reads and *another* overwrites.  The graph keeps only the edges
   from writer to reader, so the order may put the writer first.  An operator that overwrites what
   it alone reads is in (`Inplace`);
2. a reshape that shares its input's buffer, a fed variable that is overwritten, a name with
   versions on two devices.  With the first, the output holds its input's buffer, but the input's
   lifetime ends at the reshape; its buffer is lent to a third variable, and writing that one
   destroys the output before it is read.  A variable that is overwritten in place and
   touches an invalid operator in one version only: the test is made for a node and the lifetime kept
   for a name.  So the output of feed becomes part of a plan when an operator overwrites it, and the
   memory of an overwritten variable that is fetched is lent out as soon as its first version is dead
   (`InplaceFetched`).  A name with versions on two devices is in the table of each
   (`memory_optimize_pass.cc:90`), and each plan renames both versions;
3. a model that was optimised before.  `is_persist` is not saved: loaded and optimised again, the
   model still has its run-once conversion, whose output the memory pass takes for a temporary and
   lends to a later variable, and the second run reads what that one left.

With `Programs` set to `SharedPrograms`, `ReloadedPrograms` or `OverwrittenPrograms` TLC finds
`ReadsItsProducer` violated.  `Sound` in `RuntimeProgram` writes the conditions out: `OneDevice`, a
name is written on one device; `OverwrittenByReader`; `WritesLasting`, weights are never written and
what run-once operators derive from them is marked and written once; `ReadsWritten`, an operator
reads a weight or what was written before it, and no reshape shares its buffer.  TLC evaluates
`Sound` on the programs of the run (`SoundAssumption`), and the theorems of section 6 assume it.

In `TypeCast` every output is read (`outlinks.front()` of an output nobody reads is undefined,
`static_kernel_pick_pass.cc:80`), no operator writes a weight, and all input slots of a kernel
declare one type (the passes ask only for the first slot a name stands in, `op_lite.h:194`), and a precision: the output of a kernel for any precision fits every reader
(`type_system.h:201`), so that an int8 operator behind a reshape is given what the reshape was given.
`ReadsWeights` is the condition on weights; `Int8Apart` says that an operator outside of the int8
model declares int8 for weights only, and that one inside takes int8 for all other inputs and reads
what an earlier operator writes (what the caller feeds is float).  TLC evaluates both on the programs of the run
(`WeightAssumption`); two of the theorems of section 6 assume them.
`CastPrograms` has no reader for which no cast exists, other than the one program
with an FPGA operator that is there to reach `NoCast`.

In `Fusion` a program is `Matchable` when a name is written once, before it is read, and no weight is
written (`WritesOnce`), when a weight belongs to one slot of one operator (`OwnWeights`), and when no
`scale` is behind a `scale` (`OneScale`).  It is `Fusable` when moreover `NoBiasBefore`, `OneReader`
and `OneActivation` hold.  `SoundPrograms` are the `Fusable` ones of four operators, and the theorems
of section 6 assume one of the two of all programs.  The last four conditions leave out programs with

1. a bias that is added between a convolution and a batch norm.  The addend becomes the Bias of the
   convolution, and `ConvBNFuser` scales the filter and not that bias: batch_norm(conv + b) is computed
   as alpha conv + b + beta (`BiasPrograms`);
2. a convolution that a batch norm and another operator read: its filter is scaled for both;
3. a `leaky_relu` behind a `relu`: the fuser for `leaky_relu` takes a convolution that already has an
   activation, and the new `act_type` replaces the old;
4. a `scale` behind a `scale`.  Only intermediate nodes are tested for an overlap, so with the second
   scale matched first both matches stay, and the first deletes the output of the second, against
   `SharesNoInner` (`pattern_matcher.h:302-304`).

In the order of this list: `NoBiasBefore`, `OneReader`, `OneActivation`, `OneScale`.  TLC finds `KeepsMeaning`, or in the last case `SharesNoInner`, violated when any of the four is let in.

In `Subgraph` a name is written once (`converted_vars` keeps the entry of the first version of an
overwritten name, and the next operator of the model would be given that one): `WritesOnce`.  No
operator writes a weight (`KeepsWeights`): a weight is no output of a subgraph.  A variable *leads* on the NPU
when the operator that writes it and all of its readers are supported (`Leads`).  Two more conditions
are about what is linked by such variables.

- `Layered`: no path leaves what is linked and comes back, stated as a layer for each operator that a
  leading variable keeps and any other variable raises.  Nothing in the code keeps a path from leaving a
  subgraph through a CPU operator: the rule that a variable leads on only when *all* its readers are
  supported does not exclude it, since the path may leave through another variable.  Without
  this TLC finds `StaysAcyclic` violated.
- `OneHead`: what is linked descends from one operator.  Otherwise an output is lost when it has readers in the
  subgraph that computes it and in another one: it is not taken for an output, and `GetNode2rm`
  removes it.  With `Programs` set to `JoinPrograms`, which are layered, TLC finds
  `ReadersSupplied` violated.

Programs whose operators read one variable besides weights have all of this (`TreeAssumption`, which TLC
evaluates), and so have many that join variables.

In `MobileReuse` an operator reads what is written before it, and the fetches of a CPU program come
last, as the executor expects them.  On Metal every output of an operator with several has a later
reader: the mentions of an output nobody reads are over when it is met, so the next output of the
same operator joins its list (`MemoryOptimze.swift:118`), against `OperatorsKeptApart`.  `Plannable`
writes this out, as `ReadsWritten` and `FetchesLast` on a CPU and `OutputsRead` on Metal; the run has
the programs that fulfil it, and the theorems about these two properties assume it.  Programs
have one block (`created_nodes_` is kept from block to block, `memory_optimize.cpp:39`).

In `MetalRunner` predictions and clears overlap each other as `MayOverlap` says, and a load runs with no call
but predictions that have left the stack of their thread.  A load publishes the executor
before its textures are made (`Runner.swift:127`), and a prediction in between would use
operators whose memory is not there yet.

In `Predictor` two builds never run at once, and neither do two generations, the first `Run` or
`SaveModel` of two predictors: the passes are objects of the process and have no lock, so the caller
needs one.  `OverlapAssumption` states it, and a build beside a generation or a run is fine.  Each
predictor has one thread, is built once and has a root scope of its own; `GenRuntimeProgram` is not
called by hand.  The caller asks for all inputs before `Run` and writes through pointers into the
present list only.  A test of the repository does not
(`lite/api/ocr_attention_test.cc:48` reads the dims of the first tensor through the pointer it had
before `GetInput(2)`, three lines up, made the list longer).  Every operator has a kernel at a valid place.

## 4. Runs that find a violation

Each checks one sentence of the repository and ends in a counterexample.

| run | sentence | what happens |
|---|---|---|
| `type_cast_fpga` | "we pick the kernel" (`type_layout_cast_pass.cc:121`) | `std::move(kernels)` where `selected_kernels` is meant: the layout statement holds the kernel of the opposite conversion, or none |
| `metal_load` | "公共方法，保证线程安全", a public method that is guaranteed to be thread-safe (`Runner.swift:63`) | Two threads load one runner and one load fails.  It gives `loadLock` back and then clears the runner, while the other is between making its program and unwrapping it: nil is unwrapped |

## 5. Fairness

All of this code is sequential: a loop that can go on goes on.  `FairSortSpec` of `StmtOrder`,
`FairSpec` of `ReusePlan` and `CastSpec` have weak fairness of the whole next-state relation, the weakest that
says the process is not stopped.  No single choice is treated fairly, so `SortEnds`, `PlanEnds` and
`PassesEnd` hold for every resolution of the orders.  `RuntimeProgram` has weak fairness of
`Progress`, which leaves `StartRun` out: the caller need not run the program, and a run that was
begun ends.  `Fusion` and `Subgraph` have
safety properties only and state no fairness, and so do `MobileReuse` and `Predictor`.
`MetalRunner` has weak fairness of the steps of each prediction that was called, of each handler and
of the GPU: threads are scheduled, the queue works its command buffers off in order, and Metal calls
the handlers.  Nothing says that a call is made, nor that a load or clear goes on.  `CHECK_DEADLOCK FALSE` because each of these
computations stops when it is done; `predictor`, which can always be called again, is checked for deadlock.

## 6. Theorems

TLAPS proves the following for all values of the constants.

**`SSAGraph_proofs`**, for every set of programs that satisfies `ProgramsAssumption` (operators
form a sequence, weights are names).  `BuildInv` adds to the type invariant what
`arg_update_node_map_` stands for: its node of a name is made by the last writer of that name so
far, and a name it does not hold has no writer (`LatestInv`).  `BoundToLastWriter` is not inductive
without it, since a step links new inputs through the map.  The step also has to show that a new
version is one the graph does not hold, or an older link would gain a second producer; that is the
bound on versions in `GraphTypeOK`.

- `GraphTypeCorrect`: `GraphSpec => []GraphTypeOK`
- `ReadsLastWriter`: `GraphSpec => []BoundToLastWriter`
- `GraphIsAcyclic`: `GraphSpec => []DependsOnEarlier`

**`OrderAndPlan_proofs`**, about `StmtOrder`, for every set of finite graphs without a cycle (`GraphsAssumption`; a graph
has no cycle when its statements can be ranked so that edges lead to lower ranks, which
`DependsOnEarlier` provides).  The invariant is `CallsDescend`: for every ranking, the pending calls
descend.  It is what makes it safe to skip a producer that is visited: a pending one would have a
higher rank than the statement that reads it (`TopIsReady`), so it is emitted.

- `SortTypeCorrect`, `OrderRespectsReads`, `OrderIsComplete`: `SortTypeOK`, `ProducersFirst`, `Complete`
- `SearchIsSchedule`: `SortSpec => IsSchedule`, the refinement of `DataflowOrder`

The same module, about `ReusePlan`, for every set of finite tables whose lifetimes begin before they end
(`LifecyclesAssumption`).  The invariant is `OpenClusterInv`: while the inner loop runs, the head is
placed, and `cluster_adj` contains the neighbours of *every* member.  The test of one set is then a
test against all members, which is `NoOverlap`'s step.

- `TypeCorrect`, `NoOverlap`, `HeadsKeepTheirNames`
- `PlanIsAsPromised`: `Spec => KeepsPromise`, the refinement of `MemoryReuse`

**`RuntimeProgram_proofs`**, for every set of programs over finitely many names (`NamesAssumption`)
that satisfies `ProgramsAssumption`, every order, every plan and any number of runs.  Its last
theorems assume `Sound` of the programs, `SharesWithinDevice` only `OneDevice`.  `FeedItemsAssumption`
says that an item of the feed list is no variable.  The module uses the proofs about the graph, the
search and the plan: what they prove of one search or one table is carried to the phase of the
pipeline that performs it (`Loops` is `OrderAndPlan_proofs` for the graphs and tables programs give
rise to).  The argument, one invariant on top of the other:

| invariant | says |
|---|---|
| `NodesInv` | a statement is linked to one node for each name it reads or writes; a node has one producer, and without one it is the only version of a name nobody has written |
| `OrderInv` | `ret` lists every statement once, behind those it reads from |
| `TablesInv`, `CoversInv` | the table of a device has a lifetime for a name only if a node of it is there, and it covers every statement that names such a node |
| `UsesInv` | a description names the cluster of each node's name in the plans performed so far (`HalfPerformed`: of this device up to this statement) |
| `HistoryInv`, `BufferInv` | the run performed a prefix of the order; who shares a buffer with whom |
| `FeedInv`, `FetchInv`, `LiveInv` | fed inputs are in their buffers; fetched values are in the list; a value between its producer and its last reader is in the buffer its readers name |

`ReadsItsProducer` is `LiveInv` at the statement that comes next, and inductive only with all of the
others.  The step that needs the conditions is `NoClobber`: a statement that names the variable of a
live value means another node of the same cluster, whose lifetime is apart, or another version of the same name,
which `OverwrittenByReader` and the order keep apart.

- `PipelineTypeCorrect`: `PipelineSpec => []PipelineTypeOK`
- `SharesWithinDevice`: for `SameDeviceOnly`
- `ReadsAreRight`, `OutputsAreRight`, `InputsAreRight`: for `ReadsItsProducer`, `OutputsIntact`, `InputsIntact`

**`LegacyRuntimes_proofs`**, about `MobileReuse`, for every set of finite programs.  `ReuseInv` says that the counters are
the mentions the walk has still to come to, that a variable that was visited has one place in one
list, and that whoever was followed in a list has no mention left (`HandedOver`).  So the last mention of a member is
before the first of the next, which is what the plan promises.  `OrderedInv` says this of any two
members of a list, and that only the last member may be fetched.  The mentions of the walk are in the order of
the operators, but the walk is one sequence that `FlattenSeq` makes of theirs: that a place in it lies with one
operator, and places of a later operator behind those of an earlier one (`PlacesAreMentions`), is
proved by a minimal counterexample, since `FlattenSeq` is a recursive function and the induction
theorems of the library cannot be instantiated.

- `TypeCorrect`: `Spec => []TypeOK`; `ListsAreAPlan`: `Spec => KeepsPromise`
- `KeptApart`, `FetchedSurvives`: for programs that are `Plannable`, `OperatorsKeptApart` and `OutputsSurvive`

The same module, about `MetalRunner`, for any calls and any `MayOverlap`, so that the results do not rest on the
pairs the run chooses.  `RunnerInv` says that while a prediction is between its wait and its signal the semaphore
of its executor is 0 and no other prediction is there (`OneInFlight`; a throw leaves it at 0 with nobody there), that what such a prediction
encoded is its own input, and that the result buffer of an executor belongs to the one prediction
that is past the GPU.  `OwnResult` alone says nothing before the handler reads.

- `RunnerTypeCorrect`, `OneInFlight`; `ResultsAreOwn`: `Spec => []OwnResult`; `OneAnswer`: `Spec => []AnsweredOnce`

**`Predictor_proofs`**, for any number of predictors, any registry, targets and columns, and any
`MayOverlap` that keeps builds apart and generations apart (`OverlapAssumption`).  `PredictorInv` says whose the
passes are at each stage: the preferred place belongs to the predictor between `Build` and `Pick`,
the valid places to the one before `Cast`, and `insts_` is empty unless one predictor is between
`Apply` and `GenProgram`.  `InputInv` is about the lists of feeds by themselves.

- `PredictorTypeCorrect`
- `InstructionsAreOwn`, `LoadsWhatWasSaved`, `ChecksHold`, `InputsArrive`: the four invariants of the run

**`Subgraph_proofs`**, for every set of programs, order and numbering, and a failure anywhere.  The
invariant follows a subgraph through its conversion: what is converted is a prefix of a topological
order of its members, what was replaced is gone from the graph and in one model, what has a larger
number is untouched.

- `SubgraphTypeCorrect`, `StatementsRunOnce`: `TypeOK`, `EachStatementOnce`
- `ModelsAreWired`: `Spec => [](WritesOnce(program) => ConvertsWhatItReads)`.  `WritesOnce`, that no
  name is written twice and none after it was read, is what the code needs to connect a model by
  names, and the one condition on programs it needs for this.
- `NoCycleIsMade`: `Spec => [](WritesOnce(program) /\ KeepsWeights(program) /\ Layered(program) =>
  StaysAcyclic)`
- `ReadersAreSupplied`: `Spec => [](Sound => ReadersSupplied)`, where `Sound` adds `OneHead(program)`

Both rest on `WiredInv`, which follows the numbering.  `PassedOn`: where a variable of a numbered
statement leads, either it is still to be visited, or its readers have the number or a lower one.
`OneLayer`: a number stays in one layer.  `FromHead`: a statement gets its number from its head, because
the loop comes to what leads to a statement before the statement (`Searched`) and would have given it a
number.  `EdgeInv` says what links are left, from parts of one statement to parts of another.  Then a link leads
to a higher layer, or to a number that is no higher in the same layer, or to a later statement with the
same number (`LinksDescend`), so that no set of statements is a cycle.  And the readers of a variable are all in
the number of its writer, or none is (`ReadersTogether`): what `GetNode2rm` takes along is read by
nobody outside.

**`TypeCast_proofs`**, for every program, library and order.  `CastInv` says that the links of a
statement are the names of its description, each under a name of its own (`LinksFit`), which
`UpdateInputTo` and the relinking keep up only together; that names carry the number of a cast that
was made (`NumbersUsed`), and that casts are numbered upwards.  `PlainNames`, assumed, says that no variable of the
program is named like a cast.  `FitInv`, on top of it, says what a pass is done with: after its pass
a field agrees everywhere, during it the statements before the present one, the casts it made and
the inputs it has looked at.  Two parts are needed to keep this up.  A cast changes one field, so
the kernel the next pass finds in front of an input undoes nothing; and inputs with one name in two slots stay
together when they are renamed, as the new name is fresh, so that the first slot speaks for both.
`KernelAssumption` is what this takes of the constants, and TLC evaluates it on the runs: a kernel
declares a type for each slot, inputs and outputs, the same for all input slots with one name; a program has no casts of its
own; the kernel of a cast keeps the other fields or leaves them open.

What is behind the casts takes an order of the casts.  `ChainInv` gives each cast the level of its
pass and says that what it reads comes from a statement of the program or from a cast of a lower
level, and `OnceInv` says the same of every input the present pass has still to look at.  The hard
step is a cast that is inserted while its pass runs: no cast is put before a cast of the same pass, since its
input fits already (`InputsFit` needs the same), and a cast of an earlier pass that is relinked stays
below the new one.  So three looks back end at a variable of the graph.  `PersistInv` carries
the run-once mark along such a chain.  `Int8Inv` says of an operator that is given int8 by no weight
that all its slots for this variable take int8, from the first inference on: a writer in the
int8 model looked at each of its readers, and the inference comes to the writer before them, so that the variable
has the type its writer declares (`WriterFirst`).

- `CastTypeCorrect`: `PlainNames => (CastSpec => []CastTypeOK)`; `CastNamesDiffer`: the same for `CastNamesUnique`
- `InputsFit`: the same for `InputsCompatible`; `CastsDoConvert`: for `CastsConvert`;
  `SourcesAreKept`: for `SourcesKept`
- `RunsOnceFromWeights`: `PlainNames => (CastSpec => [](ReadsWeights(program) => OnceFromWeights))`;
  `NoDequantization`: the same of `Int8Apart` and `NeverDequantizes`

**`Fusion_proofs`**, for every program, of any length, and every order of the matches.  `FuseInv` has a
case for each stage, and says of each fuser what its matches are:

| part | says |
|---|---|
| `WellMade` | the descriptions are as the fusers expect them: slots, names written once and in an order that can be ranked, weights read in one slot |
| `Building`, `Ready` | the graph is the one the program, or the present descriptions, give rise to (`GraphOf`) |
| `Fits` | a match is the operators and variables its fuser takes it for: the second operator alone reads what the first one writes, the names stand in the slots the new description is made from |
| `Separate` | what one match deletes is in no other.  `RemoveOverlappedMatch` compares a match with *earlier* ones only; that later ones are apart as well follows from `Fits`: two matches that share a node that one of them deletes share the operators, and with these everything |
| `Inserting` | while `n` of the matches are handled, graph and descriptions are those before the fuser with `n` statements added (or `n` scales dropped) |

A fuser is then one function of the descriptions, `Merged` or `Dropped`, and `DeleteInterNodes` makes
the graph the one that belongs to it.

That the meaning is kept takes two more parts.  `Phase` is what a fuser may rely on, by its position in
`Fusers`: the conditions of `Fusable` at the start, that a convolution has no activation before the first
`ConvActivation`, and no bias if a batch norm reads it; a fuser leaves to the next one what that one
relies on.  `MeaningInv` says that some assignment `v` of meanings to names agrees with every operator
(`Values`), and gives what is fetched the meaning it had.  Meanings are built by a recursive
function; instead of an induction over it, `MeaningsAre` shows that two assignments that agree with
every operator are the same, since the operator of least rank on which they differ reads names on which
they do not.  So one assignment has to stay right through a step.  The same one does, but for two names
of each batch norm that is folded: the output of its convolution is scaled now, and its bias stands for
the mean as well (`NormedValue`).  `Scaling` says which filters and biases took over what, for the first `n` matches of `ConvBN`.

- `FusionInvariant`, `FusionTypeOK`, `FusionSharesNoInner`: if all programs are `Matchable`,
  `Spec => []FuseInv`, `[]TypeOK`, `[]SharesNoInner`
- `FusionKeepsMeaning`: if all programs are `Fusable`, `Spec => []KeepsMeaning`

Only model-checked: all liveness (`SortEnds`, `PlanEnds`, `RunsEnd`, `PassesEnd`, `PredictAnswered`;
fairness and `ENABLED` are outside of the prover's reach).

## 7. Not modelled

Numerical code: kernels, math libraries, quantization arithmetic.  It is most of the lines of the
repository and has no state between calls; the models take a kernel as the function of its inputs.
Device contexts, profiler, arena, code generation, the JNI wrapper and demos have no state the rest
depends on.  The web runtime is a sequential interpreter in JavaScript.

Inside the modelled parts:

- `InferShape`, and sizes, targets and offsets of tensors.  A buffer grows lazily when its tensor is
  written, whatever variable it belongs to, and the memory pass never mixes targets
  (`SameDeviceOnly`), so a size decides nothing a property is about.  `WorkSpace::Alloc` has no caller
  among the kernels, and no kernel shares the data of a slice.
- the scope tree: each predictor has a scope of its own, in which a name is one variable;
- sub-blocks of `while` and `conditional_block`, which no pass looks into;
- encoding and decoding of models: `Predictor` takes a saved model for what it lists, and weights,
  which are saved from the scope as they are, are left out;
- the XPU branch of `Optimizer::GenRuntimeProgram`, and the instructions the NPU pass generates;
- the loader of Metal and its textures; the FPGA driver of `mobile`.

## 8. Plan

Done: `SSAGraph`, `StmtOrder`, `ReusePlan` and their proofs, then their composition
`MemoryOptimize` and `RuntimeProgram`, then `TypeCast`, `Subgraph` and `Fusion`, then `MobileReuse`,
`MetalRunner` and `Predictor`, with proofs about all of them: each safety property the runs check is a
theorem, under the conditions of section 3.  What would come next:

1. **`Subgraph` further.** The XPU pass; the abstract specification, which is the contraction of a
   convex set of statements.
2. **`Fusion` further.** The shuffle, softmax, interpolate and quantization fusers; filters shared by
   two convolutions; a model that was fused before; composition with `TypeCast`, which runs next.
3. **`TypeCast` further.** Slots with different types, the precision of a weight's data, scores;
   composition with `MemoryOptimize`, whose node targets it computes.
4. **Proofs.** That no variable of an invalid operator enters a plan, for programs
   that write a name once.
