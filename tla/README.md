# Verification of the PDG passes

TLA+ models of the LLVM passes of this repository, which build a program
dependence graph (PDG) of a module and export it for a constraint solver, with
model-checking runs (TLC) and proofs (TLAPS).

## The system

The passes run one after the other in one thread, over one `llvm::Module`, in
the order that the command line and LLVM's pass manager settle. There is no
concurrency, no I/O before the export and nothing to recover after a crash.
What is hard is the order of things: the parts share one graph, a singleton,
and each reads what others left there. Edges are added by one part and read by
another, tags are set in one function's turn and read in another's, trees are
copied from trees whose size was counted elsewhere, and trees hang from maps
that the node set does not know of.

| Component | State it keeps | Operations | Correct when |
|---|---|---|---|
| `Node`, `Edge` (PDGNode, PDGEdge, PDGEnums) | in and out edges, annotation, debug type; static identifier counters | `addNeighbor` | there is at most one edge of a type between two nodes |
| `ProgramGraph` (Graph) | node set, value-to-node map, function and call wrappers | `build`, `addFormalTreeNodesToGraph`, `buildGlobalAnnotationNodes`, `bindDITypeToNodes`, `canReach` | edges stay inside the node set; labels and scopes are those of the source; debug types are true to the IR; searches answer right |
| `Tree`, `TreeNode` | root, size, children, address variables, access tags | `build`, `expandNode`, copying | the four trees of a parameter have one shape and agreeing variables, also for recursive types |
| `FunctionWrapper`, `CallWrapper` | instructions by kind; trees of arguments and return value | `addInst`, building formal and actual trees | all loops over arguments stop at the same place |
| `DataDependencyGraph` | none: adds edges | def-use, read-after-write, alias and callee edges | aliases are real ones, and whatever is read back from where it was stored is one |
| `ControlDependencyGraph` | none: adds edges | entry and branch edges | branches are linked to the blocks that depend on them |
| `ProgramDependencyGraph` | initializer map | global uses; intra- and interprocedural edges of each function | data flows into a callee and what it writes flows back, whatever the order of functions |
| pass pipeline (the registrations, `ProgramGraph::getInstance`) | the one graph and its `_is_build` flag | scheduling, running each pass | an export is complete whatever ran before |
| `MiniZincPrinter` (zincPrinter) | groups, ranges, identifiers | grouping, numbering, collating, writing the files | what is written reads back as the graph |
| `PDGCallGraph` | nodes and edges of its own | call edges, reachability, paths | a path is found exactly when there is one |
| validator (Rust) | indexed sets of nodes and edges of the exported graph and of the module | intersections, differences, counts | every element is counted in one class |

## The modules

| Module | Models | Code |
|---|---|---|
| `LLVMProgram` | the input: a module with its debug information, a record that never changes | what the passes ask of the LLVM API |
| `PDGNodes` | which nodes there can be, and which trees functions and calls are given | FunctionWrapper, CallWrapper, Graph |
| `ProgramDependencyGraph` | the construction, an action per loop iteration | `ProgramGraph::build` to `ProgramDependencyGraph::runOnModule` |
| `DependenceContract` | what a client may expect of the graph: the abstract specification | ProgramDependencyGraph.cpp as a whole |
| `ParamTree` | growing the four trees of one parameter | Tree.cpp, DebugInfoUtils.cpp, the callers in the wrappers |
| `ControlDependency` | the pass on one function | ControlDependencyGraph.cpp |
| `DataDependency` | the pass on a module: four kinds of edges, instruction by instruction | DataDependencyGraph.cpp |
| `MiniZincPrinter` | the export of a finished graph | zincPrinter.cpp |
| `GraphBuild` | the nodes of globals, instructions and functions, their scopes and labels, the array of annotations | `ProgramGraph::build`, `buildGlobalAnnotationNodes`, the constructor of `Node` |
| `DITypes` | binding debug types to nodes along loads, fields and casts | `bindDITypeToNodes`, `computeNodeDIType`, their helpers in PDGUtils and DebugInfoUtils |
| `CallGraph` | building the call graph, guessing callees by type, the search for a path | PDGCallGraph.cpp |
| `PassPipeline` | which passes a command line runs, in which order, on the shared graph | the registrations, `getAnalysisUsage` and `runOnModule` of each pass |
| `GraphSearch` | depth- and breadth-first reachability | `GenericGraph::canReach`, `PDGCallGraph::canReach` |
| `ProgramDependencyGraph_proofs`, `GraphBuild_proofs`, `CallGraph_proofs`, `PassPipeline_proofs`, `MiniZincPrinter_proofs`, `ParamTree_proofs` | theorems about the module each is named after; the first has the refinement | |
| `DependencyPasses_proofs` | theorems about `ControlDependency` and `DataDependency` | |
| `ProgramGraph_proofs` | theorems about `GraphSearch` and `DITypes` | |
| `MC*` | the instances that TLC checks | |

How they fit.  `ProgramDependencyGraph` extends `PDGNodes` and `LLVMProgram`,
and takes three things as inputs that other modules derive: the shapes of the
parameter trees (`ParamTree`), the branch edges (`ControlDependency`) and the
data dependencies (`DataDependency`).  `MiniZincPrinter` starts from
any graph the construction can leave, stray edges included.  `GraphBuild` looks
closer at what `BuildGlobals`, `BuildFunction` and `BuildGlobalAnnotations` of
the construction take as one step each: there a global simply has a node or not,
here its kind, function and label are computed, and the run can fail.
`DITypes` follows it, on the graph as built.  `CallGraph` stands beside the
construction: both guess callees by the same test, each with a copy of its own.  Both
copies are modelled, as `IsFuncSignatureMatch` and `PdgIsFuncSignatureMatch`, so
that they can be compared.
`PassPipeline` is above them all: a pass is one step, what it adds is a
constant, and what matters is what it finds when it runs.

How state corresponds to code.  In `ProgramDependencyGraph`, `pc` and `cur`
say which loop has reached which function; `nodes` is `_node_set`; `edges` is
the union of all `_out_edge_set` (a set of triples, since `addNeighbor` refuses
a second edge of one type); `wrapped` is the call-wrapper map; `tagged` are the
formal-out nodes with `AccessTag::DATA_WRITE`; `dirty` are the trees whose
`_size` started from old memory.  An actual tree is named by its call and
argument position, and `TreeOf` is the map filed by value: an argument passed
twice keeps the first tree.  In `ParamTree` a node is the list of child numbers
that leads to it, and `size` is `_size`.  In `ControlDependency` a link to a
block stands for links to each of its instructions.  In `MiniZincPrinter`
sequences start at 1 where the code's start at 0, and the `+1` of the export is
written out.  In `DataDependency` a turn of the inner loop is four actions, one
for each `add...` call, told apart by `step`; what LLVM's memory dependence
analysis answers is any answer that `Dependencies` allows.  The analysis goes back through
the block and stops at the allocation of the address or at a load or store of the
same address, and not at what merely computed it; it may stop earlier, at
anything that may access the place, or answer nothing.
In `GraphBuild` `type` is `_val_node_map` together with `_node_type`, `None`
where a value has no node, and a null that the code dereferences leads to
`pc = "crashed"`; a name is what stands before its first dot, which is all the
code asks for.  In `DITypes` `ditype` is `_node_di_type`, and an IR type is a
name with what it points to.  In `CallGraph` the recursion of
`computePathsHelper` is the stack `frames`; the path and the visited functions,
passed by value, are what the frames hold.  In `PassPipeline` `edges` is a bag,
because the printer changes the types of edges in place and can make two alike.

## What the runs check

All passing runs finish within about two minutes; each property has a mutant of
the code that breaks it.

* **construction** (`MCConstruction.cfg`): two functions with two parameters
  each, whose trees are missing, a scalar or a pointer; both orders in the
  module; direct and mutual recursion; external calls; calls through pointers,
  with no function that fits and is used, or one; arguments that
  are variables, globals, constants, or one value passed twice; memory that may
  or may not hold old contents.  Further programs have three parameters with
  gaps between those that have trees, variadic callees, and calls with too many
  arguments.  `Lockstep`: edges between trees pair equal
  places of trees given the same value.  `OutFlowHasSource`: nothing flows out
  of a callee that it does not store.  `WriteFlowsBack`: what a callee writes
  reaches the call when the callee stands no later in the module.
  `OnlyKnownStrays`: edges leave the node set at three known places only: formal
  trees past the first argument with no tree, actual trees of return values, and
  the fields below the roots that a call through a pointer adds.
  `ImplementsContract`: every edge, of whatever type, is justified by the program,
  the graph only grows, and the finished graph is complete: control goes in and out
  of each direct call, variadic callees included; arguments flow in for every tree
  whose size started from zero; and each place of a formal-in tree feeds its
  variables and their aliases.
* **build** (`MCBuild.cfg`): two functions and two globals, with every owner,
  linkage and name, also names that the linker changed; up to two entries in the
  array of annotations and up to two annotated local variables.  `LabelsExact`:
  a finished graph has the nodes, labels and annotation edges of the program.
  `StaticsRecognised`: the guess by the variable's name and the one by its
  scope agree with the source and each other, where the linker left the names
  alone.  `CrashExact`: the construction fails for three known reasons and no
  other.
* **types** (`MCTypes.cfg`): every chain of up to four loads, accesses to fields
  and array elements, and casts, from a local variable of eleven types, and of two
  from a global or an argument; also with one block laid out after one that uses
  it.  The types include a typedef of a pointer and a constant of that.
  `BoundTypesTrue`: the debug type of a node describes its value or what the value
  points to, unless a cast, an array index or a load from a global of such a doubly
  named type came in between.
  `FieldsFound`: the address of a field gets the field's type.  `Settled`: one
  pass over the text is enough.
* **calls** (`MCCalls.cfg`): a call of fifteen signatures to a function of
  fifteen, with duplicates of structures that linking leaves, anonymous and
  literal structures; variadic, declared and unused functions; and every graph
  of direct calls of three functions, and of four with three or four calls.
  `CallsCovered`: a call is joined to its callee, and a call through a pointer to
  every function whose type in the source is the call's; the exceptions, variadic
  functions and duplicates of structures behind further pointers, are parts of the
  property (`Overlooked`), and both occur in the run.  `EdgesJustified`: no
  candidate differs from the call in more than the tag of a structure.
  `CalleesAgree`: the dependence graph's own guesses are among the call graph's,
  which has no others but functions that nothing uses and guesses for constants.  `PathRight`: one path without repetition when there is any, none
  otherwise.  `Termination`.
* **pipeline** (`MCPipeline.cfg`): every command line of one to five of `-ddg`,
  `-cdg`, `-pdg`, `-minizinc`.  `ExportComplete`: an export has every edge and
  no other.  `OnceEach`: a pass that runs again adds nothing, except at
  annotated variables after an export.  `OnlyCdgFirstFails`.
* **export** (`MCExport.cfg`): graphs of four nodes and two edges in every
  combination of eight node types and six edge types, with and without names.  `NothingLost`,
  `RangesExact`, `EndsDecode`, `ArraysAligned`, `RowsIdentify`, `AnnoEdges`: a
  reader of the files gets the graph back.  The range of `DataDepEdge` holds the
  dependences within a function, through a global or through a return value, from
  `DATA_DEF_USE` to `DATA_ALIAS`.  `FilesAgree`: the files, which are
  joined by the numbers of their rows, say the same of each number.
* **control** (`MCControl.cfg`): every control-flow graph of four blocks.
  `BranchDepsExact`: the pass's walk agrees with the definition of control
  dependence, except for the head of a loop; `WalkMeetsEnd`: it never falls off
  the root of the post-dominator tree.
* **trees** (`MCTrees.cfg`): a list node that points to itself, typedefs,
  pointers to pointers, void pointers, and every way in which four values load
  from or index into each other.  `WholeTrees`: trees
  hold all that types and depth allow.  `SizesAgree`: sizes count nodes.
  `AddrFollowsTypes`: no variable is lost on the way down a tree, none is made up,
  and fields share none.  `FormalTreesAgree`: both formal trees have the same.
  `Termination`.
* **data** (`MCData.cfg`): a local pointer and every three loads, stores, casts
  and calls over it, in one block or two, and a second function that calls the
  first.  `AliasUnderApproximates`: alias edges join values that a points-to
  analysis lets point to one object; `AliasFollowsRaw`: a pointer that a
  read-after-write edge says is read back from the address it was stored at is also
  linked as an alias of what was written.  Which store LLVM names is its affair, so
  nothing is claimed of the read-after-write edges alone.
* **search** (`MCSearch.cfg`): every small graph with cycles, two edge types and
  parallel edges.  `AnswerRight`, `Termination`.

### Where code and documentation disagree

These two runs end in a violation, which shows what the code does.

* **tree_size** (`MCTreeSize.cfg`): `Tree(Value&)` leaves `_size` uninitialized,
  so a formal-in tree can seem to differ from its copies and nothing flows into
  the callee (`Tree.hh:53`).  The trees of return values are made with `Tree()`,
  which `new Tree()` clears, and are not exposed.
* **local_labels** (`MCLocalLabels.cfg`): the label of `llvm.var.annotation` is
  followed only when an instruction points to it (`Graph.cpp:131`); clang passes
  a constant expression, so no local variable is labelled.  The export recorded
  in validator/test/websrv/pdg_instance.mzn:46017 has a taint on one.

Others were met while modelling and have no run of their own.  The models
contain each of them, and the properties are stated so that they hold around it.

* A caller that comes first in the module gets no edge for what its callee
  writes (`ProgramDependencyGraph.cpp:158`; PDG_Specification.md:341 says
  "2. formal_out_tree node to actual_out_tree node."): the tags are set when the
  callee is visited.  `WriteFlowsBack` has the order as a condition.
* A loop's branch is not linked to the head of its loop
  (`ControlDependencyGraph.cpp:63`; PDG_Specification.md:252 says "every
  INST_[TYPE] node of the control-dependent basic block(s)'s").  `BranchDepsExact`
  excepts it.
* A parameter whose type is a typedef of a structure pointer loses the variables
  of its fields (`Tree.cpp:86`; PDG_Specification.md:326).  `AddrFollowsTypes`
  follows the types as the code reads them.
* `DATA_ALIAS` edges run from a cast or load to what it aliases and not back
  (`DataDependencyGraph.cpp:103`; PDG_Specification.md:306 says "two DATA_ALIAS
  edges exist between them").
* `-cdg`, which README.md:39 lists as a pass of its own, dereferences a null
  wrapper when it is the first pass (`ControlDependencyGraph.cpp:30`).
  `OnlyCdgFirstFails` says that no other command line
  fails so.
* A second `-minizinc` after a control dependency pass exports edges of annotated
  nodes twice, because the first changed their types (`zincPrinter.cpp:117`).
* `getGEPAccessFieldOffset` takes the last index of any gep, also of one that
  only indexes an array (`PDGUtils.cpp:50`; the comment at line 18 says "get the
  accessed struct member offset"), so an array element may get the type of a
  field.  `BoundTypesTrue` excepts what is computed from one.
* A load from a global takes one typedef or qualifier off its type, and a load
  from anything else all of them (`Graph.cpp:275`, against line 269).  With two on
  top of each other, as in a `const` typedef of a pointer, the
  next load is given the pointer's type where it has that of what it points to.
  `BoundTypesTrue` excepts what is loaded from there on (`NamedTwice`).
* An annotated global of type `char` gets neither label nor edge
  (`Graph.cpp:381`): it is named without a cast, and its initial value is looked
  at in its place.  An annotated function that is only declared ends the run; an
  annotated global with no debug information reads an empty vector
  (`PDGNode.hh:100`).  Of several labels of one value the last is left.
* Static variables whose scope is a block inside a function belong to no
  function, and a function that the linker renamed loses its static variables.
* All annotations share one node, and PDG_Specification.md:154 says "exactly
  one function or global variable".
* Pointers to pointers to structures are compared by identity alone
  (`PDGCallGraph.cpp:87`), so linking may separate a call from its callee; two
  different anonymous structures pass for one.  Structures with no name at all stop
  a build with assertions (`PDGCallGraph.cpp:93`, where `getName` is asked of a
  literal structure); the model follows the build without, where the name is
  empty.  For a call through an alias or
  inline assembly the call graph guesses candidates and the dependence graph
  does not.
* `PDGCallGraph.hh:30` says "compute all pathes", and the code stops at the first
  (`PDGCallGraph.cpp:176` says so).  A search that fails tries every simple path.
* Edges between return-value trees end at nodes outside the node set
  (`OnlyKnownStrays` lists them), and the exporter writes index 1 for such an end
  (`zincPrinter.cpp:407`).
* Argument-passing edges stand after `Alias` in `MznEdgeType` and so belong to no
  collated type but `PDGEdge` (`zincPrinter.cpp:347`, PDG_Specification.md:412).
* `CONTROLDEP_ENTRY` links the entry to every block and not only to those
  executed for certain (PDG_Specification.md:241).
* The `oneway` column is always 0, because edge identifiers count down and node
  identifiers up and the map of the former is read with the latter.
* `node2lineNumber.txt` has a name and a file for each node, and neither a line
  number nor line ends (`zincPrinter.cpp:609`).

### Bounds, and why they are enough

The construction treats functions one at a time and calls one at a time, and an
edge joins at most two of them; two functions give both orders, recursion and a
call in each direction.  Two parameters suffice for one value in two positions,
three for a gap with a tree behind it.  Two levels of a tree show root and
field; deeper levels repeat the second.  Four blocks are the fewest with a loop
of two blocks that has two exits.  Four nodes in the export give a collated type
an empty leaf before, between and after its members.  Trees grow to the depth 5
of the code.  Three instructions after a local variable are enough for a store,
an overwriting store and a load, or a load through a cast.  Two functions and two
globals let one name be taken for the other's; a second entry for one value
shows which label stays.  Four operations reach the field of a structure inside
a structure behind two pointers, and put a block out of order with one before
and one after it.  Three functions are the fewest with a path, a cycle beside it
and a dead end; four add a path of three calls.  Five passes on a command line
are a pass before, between and after two exports.  The proofs have no bounds.

### Fairness

Each specification but that of the construction, whose properties are all about
safety, has `WF_vars(Next)` and no more: one thread runs each pass to its end, so a
step that can be taken is.  No action is favoured over another.
All but the construction
really stop, so their runs do not check for deadlock; the construction ends in an
explicit `Done` and does.

## What is proved

For every set of programs that satisfies `ProgramsAssumption` (well-typed
records; functions listed once; trees closed under `Parent`; direct calls of
non-variadic functions pass the right number of arguments; one value has one
shape):

* `TypeCorrect`: `Spec => []TypeOK`.  `TypeOK` is inductive once the program is
  known to stay one of `Programs` and wrapped calls are known to be direct
  (`TInv`): what `ConnectCall` adds is only a set of edges for a callee with a
  body.
* `LockstepHolds`: `LinkInv` says of every edge between trees that some joined
  pair of positions put it there, which `Lockstep` itself does not; the lemma
  `TreeOfIsEarlier` turns that into equal values.
* `OutFlowSourced`: `TagInv` connects a tag with the edge from the variable
  that was stored to, which was added in another function's turn.
* `WritesFlowBack`: `VisitInv` says that functions visited so far have their
  tags, so a callee that stands no later than its caller has them when the call
  is connected; `FlowInv` carries what was connected along.

* `StraysKnown`: an edge leads to a node that is in the set already when it is
  added, or by way of one of three places.  That needs `NodeInv`: the functions
  passed have all their nodes, a tree of a call is in the set as a whole or not
  at all (but for calls through pointers), and a node made from a value is that
  of a value that can have one.
* `ConstructionImplementsContract`: the construction implements
  `DependenceContract`.  `ContractInv` has a reason in the program for every
  edge, and says of every function visited and every call connected that its
  edges are there.  Every step maps to a step of the contract, which adds justified
  edges only, or changes nothing after the end; that the last step leaves a
  complete graph follows, since every function has been visited.  `FullInv` takes
  all the invariants together.

For every finite graph, set of excluded types and order of edges:

* `SearchTypeCorrect` and `SearchIsRight`.  Neither `AnswerRight` nor its halves
  are inductive; `SoundInv` (src reaches what is visited or waits) gives "yes",
  and `FrontierInv` (what visited nodes lead to is visited or waits) makes the
  visited nodes closed when nothing waits, which gives "no".  Reachability is
  stated as membership in every closed set, so no induction is needed.

For every set of modules to draw a call graph of, in which a linker tells
duplicates of a structure apart behind the second dot of its name
(`LinkerAssumption`; `stripVersionTag` rests on the same convention):

* `GraphCoversCalls`, `GuessesJustified`, `CopiesAgree`: `BuildInv` says that
  the edges are those of the calls passed so far, so the finished graph has
  those of all.  The rest is about types: the test of the code accepts every
  callee whose type agrees up to what linking changed, but for the exceptions that
  `CallsCovered` names, accepts no other, and the second copy of it, in the
  dependence graph, accepts the same.
* `SearchFindsPath`: the stack of the search is a path without repetition, which
  gives the one half.  For the other, `SearchInv` says that what was tried and
  failed is *sealed off*: from a neighbour the search is done with, the sink
  cannot be reached but through functions on the stack.  A search that ends has
  an empty stack, so the sink cannot be reached at all.

For every set of command lines (at least one pass each), all sets of edges that
the passes add, and annotated nodes, where only `-ddg` makes aliases
(`EdgesAssumption`):

* `CdgFirstFails`: `OrderInv` says that in the queue a pass that needs another
  has it before it, or it is available already.
* `ExportsComplete` and `EdgesOnce`: `GraphInv` says that until the first export
  the shared bag holds nothing foreign and what each pass that ran adds, each
  edge once; and from then on the whole graph, up to the types that an export
  changes at annotated nodes.

For every set of modules that are `WellFormed` (instructions numbered in textual
order and in one function each; function names unique; a name that the linker
made up is no name in the source):

* `LabelsAreExact`, `StaticsAreRecognised`, `CrashesExplained`.  `DoneInv`
  speaks of the globals, functions, instructions and entries that the loops have
  dealt with: a value has a node exactly when it is one of them, and its label is
  that of the last of them about it.  That a label's value has been met says
  that it stands earlier in the text, because what is done of a function is
  always a prefix of it (`InstOrder`); that is why a run that ends early has a
  late label, and one that got to the end has none.

For every set of graphs that are `WellFormed` (`GraphsAssumption`: nodes listed
once, in any order; each edge leaves one node; no two edges of one type between the
same ends; function entries are listed; instructions and parameters have a
function, and only they a place in it), where no node is `None`
(`NamesAssumption`), all seven properties of the exporter:

* `NothingIsLost`, `AnnotationsExact`: the part `Groups` of the invariant `IInv`
  says that the groups hold what the loops have passed, each once and under its
  type, and that an edge's type is changed exactly when its source was passed and
  one of its ends is an annotated variable.
* `RangesAreExact`: `Numbering` says of the tables, type by type in the order of
  the enumeration, that the groups' stretches stand behind each other without a
  gap.  A collated type runs from the first of its leaves that is there to the
  last, so its numbers are those of its leaves.
* `EndsAreRight`, `ArraysAreAligned`: an array over some kinds of nodes is made
  by going through all numbers, and is indexed from the start of a range.  That
  these agree rests on the range being one stretch (`KeptRange`); which is why
  `Kept` is written with the rank of each element and not by recursion.
* `RowsName`: `RowsMade` says that the pointer `glob` holds something only right
  behind the row of a global.  The row of a parameter does not set it, so it must
  not come there: the enumeration has `FUNC_ENTRY` between the variables and the
  parameters, and each parameter's function is in the graph (`NullAtParam`).
* `FilesDoAgree`: `FilesMade` says that each file, once written, is what its
  function makes of the tables, which no longer change.

For every set of control-flow graphs that are `WellFormed` (`CfgAssumption`: from
every block the virtual root is reached, as LLVM arranges it also for endless
loops; nothing jumps to the first block), where the root is no block
(`RootAssumption`):

* `WalksMeetTheirEnd`, `BranchEdgesExact`.  Post-dominance is stated by sets of
  blocks that can be left for one block only, so it can be reasoned about without
  paths.  It is shown to be an order in which the post-dominators of a block form
  a chain; hence the immediate ones form a tree, and `Up`, what stands above a
  block in that tree, is the set of its post-dominators.  `WalkOK` says that the
  walk is at a post-dominator of the successor, that its end is still ahead, and
  that what lies behind is linked; `Complete`, that the successors dealt with
  have all their links; `Sound`, that each link is one of the definition.

For every set of modules that are `WellFormedProgram` (`ProgramsAssumption`:
operands stand earlier, in the same function; addresses are pointers), any number
of instructions (`InstAssumption`), and every answer that `Dependencies` allows:

* `AliasesFollowStores`, `AliasesAreReal`.  `DataInv` has a
  reason for each read-after-write and alias edge, and says that instructions past
  their alias step have all of theirs; the store may stand in a block that the pass
  has not come to, which is why that part speaks of the program and not of edges.
  For the last, what pointers point to is computed in rounds: a pointer points to
  something after as many rounds as its number, since its operand has a smaller
  one, and two more rounds bring what is stored back to the load.

For every set of debug types, values and parameters that are `WellFormed`
(`InputsAssumption`: a type contains itself only by way of a structure; the
elements of a structure are members, and there are some; `NullAssumption`), every
depth (`DepthAssumption`) and every number left in memory (`GarbageAssumption`):

* `TreesAreWhole`, `SizesCountNodes`, `VariablesFollowTypes`,
  `FormalVariablesAgree`.  `IInv` says that the queue of `Tree::build` holds the
  nodes without children, those of the level being expanded before those of the
  next (`Waiting`); that all others have the children of their types; that each
  node's variables are what its parent gives it (`Tree`), which bounds them from
  below one node at a time and from above by way of the root; and that the size counts
  the nodes taken from the queue.  That a finished tree is the whole one follows
  level by level from the root, and so does the agreement of two trees.

For every set of types (`TypesAssumption`: derived types form no circle but through
a structure; a debug type describes the IR type that it is lowered to; the
elements of a structure are at different offsets, so there are no unions, bit
fields or empty fields) and of functions that are `WellTyped`
(`ProgramsAssumption`):

* `TypesAreTrue`, `FieldsAreFound`, `OnePassSettles`.  `AllTold` says that a type
  describes what its value points to or, with no name or qualifier left on it, the
  value: a load goes from a pointer to what it points to and a gep to the one
  member at the offset, and both keep that.  `AllSettled` says that the type of an
  instruction bound so far is what the type of its operand gives it, which stays
  true because instructions are bound in the order of the text (`InOrder`).  The
  walks along base types (`getLowestDIType`, `stripAttributes`) are recursive
  functions; where they end is shown by induction over the base type, which is
  well-founded because there are no circles.

With these, every invariant of the passing runs is proved for all values of
the constants.  Only model-checked are the three properties `Termination`: the
prover has no rule for fairness.  What is assumed of the constants describes what
clang and LLVM produce, which is outside the models; TLC evaluates it on every
instance.

## What is not modelled

* The composition of the data dependency pass with the construction: the latter
  takes any edges over a few instructions as its input.
* LLVM itself: post-dominators are an input described by their meaning; memory
  dependence is an oracle; the pass manager's scheduling is what its legacy
  version does with the passes' declarations.
* How a function wrapper finds the debug declaration and the allocation of an
  argument: a parameter has a tree or has none.
* File names, lines and columns of nodes, what values are called (an export's rows
  depend on whether they have a name), and `node2lineNumber.txt`, which has nothing
  else.
* Unions, bit fields and empty fields in debug types: several members stand at one
  offset there, and the first of them gives its type to all.
* The helpers for bit fields, function pointers and shared data, which no pass calls.
* The depth of a copied root is never set (`Tree.cpp:5`); only a dot label
  prints it, so it is left out.
* The dot writer (`-dot-pdg` changes no state), reports and scripts: pure output.
* The validator, a Rust program of its own: it reads the files and the module and
  counts differences of sets, a pure function of its input.

## Plan

1. Done: construction with its contract; exporter; control and data dependence;
   parameter trees; searches; the building of nodes and labels; debug types; the
   call graph; the pass pipeline; type correctness and flow theorems.
2. Done: theorems for every module, which cover all invariants and the refinement
   of the contract.
3. Left to TLC: the three properties `Termination`.
4. If room is found: `DataDependency` composed with the construction in place of
   the `dataDeps` input; unions in `DITypes`; the validator's indexed sets.
