-------------------------- MODULE ControlDependency --------------------------
(***************************************************************************)
(* The control dependency pass on one function                             *)
(* (ControlDependencyGraph.cpp).  It links the entry of the function to    *)
(* every block and, for each edge of the control-flow graph, the branch to *)
(* the blocks on the way from the successor up the post-dominator tree.    *)
(*                                                                         *)
(* A link to a block stands for the links to all its instructions.  The    *)
(* post-dominator tree is LLVM's: an input, described by what it means.    *)
(***************************************************************************)
EXTENDS Integers, FiniteSets, Sequences, SequencesExt

CONSTANTS
    Block,
    Root,     \* the virtual root of the post-dominator tree
    Cfgs      \* the functions to run on

ASSUME RootAssumption == Root \notin Block

Terminator == {"br", "jump", "switch", "exit"}

(***************************************************************************)
(* A function: its blocks in order, how each ends, and its successors; a   *)
(* branch may name the same one twice.  `ends' are the blocks from which   *)
(* LLVM lets the virtual root be reached: the exits, and one block of each *)
(* loop that has none.                                                     *)
(***************************************************************************)
CfgRecord ==
    [blocks : Seq(Block), term : [Block -> Terminator],
     succ : [Block -> Seq(Block)], ends : SUBSET Block]

Succs(g, b) == ToSet(g.succ[b]) \cup (IF b \in g.ends THEN {Root} ELSE {})

\* a post-dominates b: some blocks with b among them can be left only for a, so
\* no way from b to the root misses a.
PostDominates(g, a, b) ==
    \/ a = b
    \/ \E S \in SUBSET (Block \ {a}) : b \in S /\ \A x \in S : Succs(g, x) \subseteq S \cup {a}

StrictlyPostDominates(g, a, b) == a # b /\ PostDominates(g, a, b)

WellFormed(g) ==
    /\ g \in CfgRecord
    /\ g.blocks # <<>> /\ IsInjective(g.blocks) /\ ToSet(g.blocks) = Block
    /\ \A b \in Block : Len(g.succ[b]) = CASE g.term[b] = "br"   -> 2
                                            [] g.term[b] = "jump" -> 1
                                            [] g.term[b] = "exit" -> 0
                                            [] OTHER -> Len(g.succ[b])
    /\ \A b \in Block : g.term[b] = "exit" => b \in g.ends
    /\ \A S \in (SUBSET Block) \ {{}} : \E b \in S : ~(Succs(g, b) \subseteq S)
    /\ \A b \in Block : g.blocks[1] \notin ToSet(g.succ[b])

ASSUME CfgAssumption == \A g \in Cfgs : WellFormed(g)

\* The immediate post-dominators: the tree that getPostDomTree returns.
PostDomTree(g) ==
    [b \in Block |->
        LET above == {a \in Block : StrictlyPostDominates(g, a, b)}
        IN IF above = {} THEN Root
           ELSE CHOOSE a \in above : \A c \in above : PostDominates(g, c, a)]

-----------------------------------------------------------------------------
VARIABLES
    cfg, pdt,   \* the function and its post-dominator tree
    pc,
    bb, si,     \* the place of the block, and of its successor, the loops are at
    cur,        \* where the walk up the tree is
    entryDeps,  \* the blocks linked to the entry of the function
    brDeps      \* <<b, c>>: the branch that ends b is linked to block c

vars == <<cfg, pdt, pc, bb, si, cur, entryDeps, brDeps>>

Init ==
    /\ cfg \in Cfgs
    /\ pdt = PostDomTree(cfg)
    /\ pc = "entry"
    /\ bb = 1
    /\ si = 1
    /\ cur = Root
    /\ entryDeps = {}
    /\ brDeps = {}

BB   == cfg.blocks[bb]
Succ == cfg.succ[BB][si]

\* A block and what stands above it in the tree, without the root: the least
\* set with the block and the parent of each member.
Up(b) ==
    {c \in Block : \A S \in SUBSET Block :
        b \in S \cup {Root} /\ (\A x \in S : pdt[x] \in S \cup {Root}) => c \in S}

\* _PDT->dominates(a, b)
Dominates(a, b) == a \in Up(b)

\* _PDT->findNearestCommonDominator(a, b), the root when they have no other.
NearestCommonDominator(a, b) ==
    LET common == Up(a) \cap Up(b)
    IN IF common = {} THEN Root ELSE CHOOSE c \in common : common \subseteq Up(c)

\* addControlDepFromEntryNodeToInsts, one block.
AddEntryDeps ==
    /\ pc = "entry"
    /\ entryDeps' = entryDeps \cup {BB}
    /\ IF bb < Len(cfg.blocks) THEN bb' = bb + 1 /\ UNCHANGED pc
                               ELSE bb' = 1 /\ pc' = "blocks"
    /\ UNCHANGED <<cfg, pdt, si, cur, brDeps>>

\* Leave the loop over the successors of BB.
NextBlock ==
    /\ si' = 1
    /\ IF bb < Len(cfg.blocks) THEN bb' = bb + 1 /\ pc' = "blocks"
                               ELSE bb' = bb /\ pc' = "done"

\* A branch that is not conditional, another terminator or no successor: the
\* loop ends with nothing added.  (A switch goes through its successors to no
\* effect.)
SkipBlock ==
    /\ pc = "blocks"
    /\ \/ si > Len(cfg.succ[BB])
       \/ cfg.term[BB] # "br"
    /\ NextBlock
    /\ UNCHANGED <<cfg, pdt, cur, entryDeps, brDeps>>

\* Mutant: without the test for a block that is its own successor.
DependsOnlyTree == ~Dominates(Succ, BB)

Depends == BB = Succ \/ ~Dominates(Succ, BB)

SkipSuccessor ==
    /\ pc = "blocks"
    /\ si <= Len(cfg.succ[BB])
    /\ cfg.term[BB] = "br"
    /\ ~Depends
    /\ si' = si + 1
    /\ UNCHANGED <<cfg, pdt, pc, bb, cur, entryDeps, brDeps>>

\* Start the walk up from the successor.  A block that post-dominates its
\* successor gets its link to it here.
VisitSuccessor ==
    /\ pc = "blocks"
    /\ si <= Len(cfg.succ[BB])
    /\ cfg.term[BB] = "br"
    /\ Depends
    /\ brDeps' = IF NearestCommonDominator(BB, Succ) = BB
                 THEN brDeps \cup {<<BB, Succ>>} ELSE brDeps
    /\ cur' = Succ
    /\ pc' = "walk"
    /\ UNCHANGED <<cfg, pdt, bb, si, entryDeps>>

\* Mutant: the walk ends at the block of the branch.
WalkEndBranch == BB

WalkEnd == NearestCommonDominator(BB, Succ)

Walk ==
    /\ pc = "walk"
    /\ IF cur = WalkEnd
       THEN si' = si + 1 /\ pc' = "blocks" /\ UNCHANGED <<cur, brDeps>>
       ELSE brDeps' = brDeps \cup {<<BB, cur>>} /\ cur' = pdt[cur] /\ UNCHANGED <<si, pc>>
    /\ UNCHANGED <<cfg, pdt, bb, entryDeps>>

Next ==
    \/ AddEntryDeps
    \/ SkipBlock
    \/ SkipSuccessor
    \/ VisitSuccessor
    \/ Walk

Spec == Init /\ [][Next]_vars /\ WF_vars(Next)

-----------------------------------------------------------------------------
(* Properties. *)

\* The definition of control dependence: a way from x to the root goes through
\* y for certain once it has taken some edge of x, but not before.
ControlDependent(x, y) ==
    /\ \E s \in ToSet(cfg.succ[x]) : PostDominates(cfg, y, s)
    /\ ~StrictlyPostDominates(cfg, y, x)

Branches == {b \in Block : cfg.term[b] = "br"}

\* What the pass finds of it: all but that a loop decides about the block that
\* heads it, unless that block is the whole loop.
Found(x, y) == ControlDependent(x, y) /\ (x = y => x \in ToSet(cfg.succ[x]))

\* Branches are linked to blocks that depend on them and to no other, and at the
\* end to all of those: for loops, loops in loops and jumps out of them.
BranchDepsExact ==
    /\ \A d \in brDeps : d[1] \in Branches /\ Found(d[1], d[2])
    /\ pc = "done" => \A x \in Branches, y \in Block : Found(x, y) => <<x, y>> \in brDeps

\* The walk up the tree meets its end before it falls off the root: below the
\* root there is always a block to link and a parent to go to.
WalkMeetsEnd ==
    pc = "walk" => cur = WalkEnd \/ (cur # Root /\ (WalkEnd = Root \/ WalkEnd \in Up(cur)))

=============================================================================
