----------------------- MODULE DependencyPasses_proofs ------------------------
(***************************************************************************)
(* Proofs about the control and the data dependency pass.                  *)
(*                                                                         *)
(* The control dependency pass, for every set of well-formed functions:    *)
(* the walk up the tree always meets its end, and the branch edges are     *)
(* those of the definition.  The first part is about post-dominance alone: *)
(* that it is an order, in which what post-dominates one block is a chain, *)
(* so that there is a tree of immediate post-dominators and to walk up the *)
(* tree is to go through the post-dominators.                              *)
(*                                                                         *)
(* The data dependency pass, for every set of well-formed programs and any *)
(* answers of the memory dependence analysis: read-after-write edges agree *)
(* with alias edges, and alias edges are all that they should be.          *)
(***************************************************************************)
EXTENDS ControlDependency, DataDependency, FiniteSetTheorems, WellFoundedInduction, TLAPS

-----------------------------------------------------------------------------
(* Post-dominance. *)

\* The blocks of S can be left only for a.
SealedBy(g, a, S) ==
    S \in SUBSET (Block \ {a}) /\ \A x \in S : Succs(g, x) \subseteq S \cup {a}

LEMMA SealedFor ==
    ASSUME NEW g, NEW a, NEW b, PostDominates(g, a, b), a # b
    PROVE  \E S : b \in S /\ SealedBy(g, a, S)
BY DEF PostDominates, SealedBy

LEMMA SealedGives ==
    ASSUME NEW g, NEW a, NEW b, NEW S, b \in S, SealedBy(g, a, S)
    PROVE  PostDominates(g, a, b)
BY DEF PostDominates, SealedBy

LEMMA SuccsTyped ==
    ASSUME NEW g, WellFormed(g), NEW b \in Block
    PROVE  Succs(g, b) \subseteq Block \cup {Root}
<1>1. g.succ[b] \in Seq(Block)
  BY DEF WellFormed, CfgRecord
<1> QED
  BY <1>1 DEF Succs, ToSet

\* No blocks keep to themselves.
LEMMA NoTrap ==
    ASSUME NEW g, WellFormed(g), NEW S \in SUBSET Block, NEW b \in S
    PROVE  \E x \in S : ~(Succs(g, x) \subseteq S)
BY DEF WellFormed

LEMMA PostDominatesItself ==
    ASSUME NEW g, NEW b PROVE PostDominates(g, b, b)
BY DEF PostDominates

LEMMA PostDominatesOneWay ==
    ASSUME NEW g, WellFormed(g), NEW a \in Block, NEW b \in Block,
           PostDominates(g, a, b), PostDominates(g, b, a)
    PROVE  a = b
<1> SUFFICES ASSUME a # b PROVE FALSE
  OBVIOUS
<1>1. PICK S : b \in S /\ SealedBy(g, a, S)
  BY SealedFor
<1>2. PICK T : a \in T /\ SealedBy(g, b, T)
  BY SealedFor
<1>3. S \cup T \in SUBSET Block /\ \A x \in S \cup T : Succs(g, x) \subseteq S \cup T
  BY <1>1, <1>2 DEF SealedBy
<1> QED
  BY <1>1, <1>3, NoTrap

LEMMA PostDominatesOnwards ==
    ASSUME NEW g, WellFormed(g), NEW a \in Block, NEW b \in Block, NEW c \in Block,
           PostDominates(g, a, b), PostDominates(g, b, c)
    PROVE  PostDominates(g, a, c)
<1> SUFFICES ASSUME a # b, b # c PROVE PostDominates(g, a, c)
  OBVIOUS
<1>1. PICK S : b \in S /\ SealedBy(g, a, S)
  BY SealedFor
<1>2. PICK T : c \in T /\ SealedBy(g, b, T)
  BY SealedFor
<1>3. a \notin T
  BY <1>2, SealedGives, PostDominatesOneWay
<1>4. c \in S \cup T /\ SealedBy(g, a, S \cup T)
  BY <1>1, <1>2, <1>3 DEF SealedBy
<1> QED
  BY <1>4, SealedGives

\* What post-dominates a block is a chain: otherwise the way from it could be
\* kept from both.
LEMMA PostDominatorsChain ==
    ASSUME NEW g, WellFormed(g), NEW a \in Block, NEW b \in Block, NEW c \in Block,
           PostDominates(g, a, c), PostDominates(g, b, c)
    PROVE  PostDominates(g, a, b) \/ PostDominates(g, b, a)
<1> SUFFICES ASSUME a # b, a # c, b # c PROVE PostDominates(g, a, b) \/ PostDominates(g, b, a)
  BY PostDominatesItself
<1>1. PICK S : c \in S /\ SealedBy(g, a, S)
  BY SealedFor
<1>2. PICK T : c \in T /\ SealedBy(g, b, T)
  BY SealedFor
<1>3. CASE b \in S
  BY <1>1, <1>3, SealedGives
<1>4. CASE a \in T
  BY <1>2, <1>4, SealedGives
<1>5. CASE b \notin S /\ a \notin T
  <2>1. c \in S \cap T /\ S \cap T \in SUBSET Block
    BY <1>1, <1>2 DEF SealedBy
  <2>2. \A x \in S \cap T : Succs(g, x) \subseteq S \cap T
    BY <1>1, <1>2, <1>5 DEF SealedBy
  <2> QED
    BY <2>1, <2>2, NoTrap
<1> QED
  BY <1>3, <1>4, <1>5

LEMMA BlocksFinite ==
    ASSUME NEW g, WellFormed(g) PROVE IsFiniteSet(Block)
<1>1. g.blocks \in Seq(Block) /\ ToSet(g.blocks) = Block
  BY DEF WellFormed, CfgRecord
<1>2. PICK n \in Nat : g.blocks \in [1 .. n -> Block]
  BY <1>1
<1>3. \A b \in Block : \E i \in 1 .. n : g.blocks[i] = b
  BY <1>1, <1>2 DEF ToSet
<1>4. g.blocks \in Surjection(1 .. n, Block)
  BY <1>2, <1>3 DEF Surjection
<1>5. IsFiniteSet(1 .. n)
  BY <1>2, FS_Interval
<1> QED
  BY <1>4, <1>5, FS_Surjection

\* Among some blocks there is one that post-dominates no other, and one that no
\* other post-dominates.
LEMMA LowestBlock ==
    ASSUME NEW g, WellFormed(g), NEW S \in SUBSET Block, S # {}
    PROVE  \E a \in S : \A c \in S : PostDominates(g, a, c) => c = a
<1> DEFINE Below(a) == {c \in Block : PostDominates(g, a, c)}
           Less     == StrictSubsetOrdering(Block)
           Sets     == {Below(a) : a \in S}
<1>1. IsWellFoundedOn(Less, FiniteSubsetsOf(Block))
  BY FS_StrictSubsetOrderingWellFounded
<1>2. \A T \in SUBSET Block : T \in FiniteSubsetsOf(Block)
  BY BlocksFinite, FS_Subset DEF FiniteSubsetsOf
<1>3. Sets \subseteq FiniteSubsetsOf(Block) /\ Sets # {}
  BY <1>2
<1>4. \A T, U \in SUBSET Block : T \subseteq U /\ T # U => <<T, U>> \in Less
  BY DEF StrictSubsetOrdering
<1> HIDE DEF Less
<1>5. PICK L \in Sets : \A T \in Sets : <<T, L>> \notin Less
  BY <1>1, <1>3, WFMin
<1>6. PICK a \in S : L = Below(a)
  BY <1>5
<1>7. ASSUME NEW c \in S, PostDominates(g, a, c), c # a PROVE FALSE
  <2>1. Below(c) \subseteq Below(a)
    BY <1>7, PostDominatesOnwards
  <2>2. a \in Below(a) /\ a \notin Below(c)
    BY <1>7, PostDominatesItself, PostDominatesOneWay
  <2>3. <<Below(c), Below(a)>> \in Less
    BY <1>4, <2>1, <2>2
  <2> QED
    BY <1>5, <1>6, <2>3
<1> QED
  BY <1>7

LEMMA HighestBlock ==
    ASSUME NEW g, WellFormed(g), NEW S \in SUBSET Block, S # {}
    PROVE  \E a \in S : \A c \in S : PostDominates(g, c, a) => c = a
<1> DEFINE Above(a) == {c \in Block : PostDominates(g, c, a)}
           Less     == StrictSubsetOrdering(Block)
           Sets     == {Above(a) : a \in S}
<1>1. IsWellFoundedOn(Less, FiniteSubsetsOf(Block))
  BY FS_StrictSubsetOrderingWellFounded
<1>2. \A T \in SUBSET Block : T \in FiniteSubsetsOf(Block)
  BY BlocksFinite, FS_Subset DEF FiniteSubsetsOf
<1>3. Sets \subseteq FiniteSubsetsOf(Block) /\ Sets # {}
  BY <1>2
<1>4. \A T, U \in SUBSET Block : T \subseteq U /\ T # U => <<T, U>> \in Less
  BY DEF StrictSubsetOrdering
<1> HIDE DEF Less
<1>5. PICK L \in Sets : \A T \in Sets : <<T, L>> \notin Less
  BY <1>1, <1>3, WFMin
<1>6. PICK a \in S : L = Above(a)
  BY <1>5
<1>7. ASSUME NEW c \in S, PostDominates(g, c, a), c # a PROVE FALSE
  <2>1. Above(c) \subseteq Above(a)
    BY <1>7, PostDominatesOnwards
  <2>2. a \in Above(a) /\ a \notin Above(c)
    BY <1>7, PostDominatesItself, PostDominatesOneWay
  <2>3. <<Above(c), Above(a)>> \in Less
    BY <1>4, <2>1, <2>2
  <2> QED
    BY <1>5, <1>6, <2>3
<1> QED
  BY <1>7


-----------------------------------------------------------------------------
(* The tree. *)

\* The parent of a block is the least of what strictly post-dominates it, the
\* root when nothing does.
LEMMA ParentIs ==
    ASSUME NEW g, WellFormed(g), NEW b \in Block, NEW p, p = PostDomTree(g)[b]
    PROVE  \/ p = Root /\ \A c \in Block : ~StrictlyPostDominates(g, c, b)
           \/ /\ p \in Block /\ StrictlyPostDominates(g, p, b)
              /\ \A c \in Block : StrictlyPostDominates(g, c, b) => PostDominates(g, c, p)
<1> DEFINE above == {a \in Block : StrictlyPostDominates(g, a, b)}
<1>1. p = IF above = {} THEN Root
          ELSE CHOOSE a \in above : \A c \in above : PostDominates(g, c, a)
  BY DEF PostDomTree
<1>2. CASE above = {}
  BY <1>1, <1>2
<1>3. CASE above # {}
  <2>1. PICK a \in above : \A c \in above : PostDominates(g, a, c) => c = a
    BY <1>3, LowestBlock
  <2>2. \A c \in above : PostDominates(g, c, a)
    BY <2>1, PostDominatorsChain DEF StrictlyPostDominates
  <2>3. p \in above /\ \A c \in above : PostDominates(g, c, p)
    BY <1>1, <1>3, <2>1, <2>2
  <2> QED
    BY <2>3
<1> QED
  BY <1>2, <1>3

CfgOK == cfg \in Cfgs /\ pdt = PostDomTree(cfg)

LEMMA CfgWellFormed == ASSUME CfgOK PROVE WellFormed(cfg)
BY CfgAssumption DEF CfgOK

\* What stands above a block in the tree are its post-dominators.
LEMMA UpIs ==
    ASSUME CfgOK, NEW b \in Block
    PROVE  Up(b) = {c \in Block : PostDominates(cfg, c, b)}
<1>1. WellFormed(cfg)
  BY CfgWellFormed
<1>2. \A x \in Block :
         \/ pdt[x] = Root /\ \A c \in Block : ~StrictlyPostDominates(cfg, c, x)
         \/ /\ pdt[x] \in Block /\ StrictlyPostDominates(cfg, pdt[x], x)
            /\ \A c \in Block : StrictlyPostDominates(cfg, c, x) => PostDominates(cfg, c, pdt[x])
  BY <1>1, ParentIs DEF CfgOK
<1> DEFINE Closed(S) == b \in S \cup {Root} /\ \A x \in S : pdt[x] \in S \cup {Root}
           Doms == {c \in Block : PostDominates(cfg, c, b)}
<1>3. Doms \in SUBSET Block /\ Closed(Doms)
  <2>1. b \in Doms
    BY PostDominatesItself
  <2>2. ASSUME NEW x \in Doms PROVE pdt[x] \in Doms \cup {Root}
    BY <1>1, <1>2, <2>2, PostDominatesOnwards DEF StrictlyPostDominates
  <2> QED
    BY <2>1, <2>2
<1>4. ASSUME NEW S \in SUBSET Block, Closed(S), NEW c \in Doms PROVE c \in S
  <2> SUFFICES ASSUME c \notin S PROVE FALSE
    OBVIOUS
  <2> DEFINE T == {x \in S : PostDominates(cfg, c, x)}
  <2>1. b \in T
    BY <1>4, RootAssumption
  <2>2. PICK x \in T : \A y \in T : PostDominates(cfg, y, x) => y = x
    BY <1>1, <2>1, HighestBlock
  <2>3. x \in Block /\ StrictlyPostDominates(cfg, c, x)
    BY DEF StrictlyPostDominates
  <2>4. /\ pdt[x] \in Block /\ StrictlyPostDominates(cfg, pdt[x], x)
        /\ PostDominates(cfg, c, pdt[x])
    BY <1>2, <2>3
  <2>5. pdt[x] \in T
    BY <1>4, <2>4, RootAssumption
  <2> QED
    BY <2>2, <2>4, <2>5 DEF StrictlyPostDominates
<1>5. Up(b) = {c \in Block : \A S \in SUBSET Block : Closed(S) => c \in S}
  BY DEF Up
<1> HIDE DEF Closed
<1> QED
  BY <1>3, <1>4, <1>5

LEMMA UpRoot == Up(Root) = {}
<1>1. {} \in SUBSET Block /\ Root \in {} \cup {Root} /\ \A x \in {} : pdt[x] \in {} \cup {Root}
  OBVIOUS
<1>2. \A c \in Up(Root) : c \in {}
  BY <1>1 DEF Up
<1> QED
  BY <1>2

\* The walk from a block ends at the least of what post-dominates both blocks.
LEMMA NearestIs ==
    ASSUME CfgOK, NEW a \in Block, NEW b \in Block, NEW d, d = NearestCommonDominator(a, b)
    PROVE  \/ /\ d = Root
              /\ \A c \in Block : ~(PostDominates(cfg, c, a) /\ PostDominates(cfg, c, b))
           \/ /\ d \in Block /\ PostDominates(cfg, d, a) /\ PostDominates(cfg, d, b)
              /\ \A c \in Block : PostDominates(cfg, c, a) /\ PostDominates(cfg, c, b)
                                     => PostDominates(cfg, c, d)
<1> DEFINE common == {c \in Block : PostDominates(cfg, c, a) /\ PostDominates(cfg, c, b)}
<1>1. WellFormed(cfg)
  BY CfgWellFormed
<1>2. Up(a) \cap Up(b) = common
  BY UpIs
<1>3. d = IF common = {} THEN Root ELSE CHOOSE c \in common : common \subseteq Up(c)
  <2>1. d = LET u == Up(a) \cap Up(b)
            IN IF u = {} THEN Root ELSE CHOOSE c \in u : u \subseteq Up(c)
    BY DEF NearestCommonDominator
  <2> HIDE DEF common
  <2> QED
    BY <1>2, <2>1
<1>4. CASE common = {}
  BY <1>3, <1>4
<1>5. CASE common # {}
  <2>1. PICK c \in common : \A x \in common : PostDominates(cfg, c, x) => x = c
    BY <1>1, <1>5, LowestBlock
  <2>2. \A x \in common : PostDominates(cfg, x, c)
    BY <1>1, <2>1, PostDominatorsChain
  <2>3. common \subseteq Up(c)
    BY <2>2, UpIs
  <2>4. d \in common /\ common \subseteq Up(d)
    BY <1>3, <1>5, <2>3
  <2>5. \A x \in common : PostDominates(cfg, x, d)
    BY <2>4, UpIs
  <2> QED
    BY <2>4, <2>5
<1> QED
  BY <1>4, <1>5


-----------------------------------------------------------------------------
(* The inductive invariant. *)

Typed ==
    /\ CfgOK
    /\ pc \in {"entry", "blocks", "walk", "done"}
    /\ bb \in DOMAIN cfg.blocks
    /\ si \in Nat \ {0}
    /\ pc = "entry" => si = 1

\* The test of the pass, of the branch that ends x and its successor s.
Tested(x, s) == x = s \/ ~PostDominates(cfg, s, x)

\* A walk goes up the post-dominators of the successor, its end ahead of it and
\* links to all blocks behind it.
WalkOK ==
    pc = "walk" =>
        /\ BB \in Branches /\ si \in DOMAIN cfg.succ[BB] /\ Tested(BB, Succ)
        /\ cur = Root \/ (cur \in Block /\ PostDominates(cfg, cur, Succ))
        /\ WalkEnd = Root \/ (cur \in Block /\ PostDominates(cfg, WalkEnd, cur))
        /\ \A y \in Block :
              PostDominates(cfg, y, Succ) /\ (cur = Root \/ ~PostDominates(cfg, y, cur))
                  => <<BB, y>> \in brDeps
        /\ PostDominates(cfg, BB, Succ) => <<BB, Succ>> \in brDeps

Sound == \A d \in brDeps : d[1] \in Branches /\ Found(d[1], d[2])

\* The loops have dealt with successor j of block n.
Passed(n, j) ==
    pc = "done" \/ (pc \in {"blocks", "walk"} /\ (n < bb \/ (n = bb /\ j < si)))

AllLinked(x, s) ==
    Tested(x, s) =>
        /\ \A y \in Block : PostDominates(cfg, y, s) /\ ~PostDominates(cfg, y, x) => <<x, y>> \in brDeps
        /\ PostDominates(cfg, x, s) => <<x, s>> \in brDeps

Complete ==
    \A n \in DOMAIN cfg.blocks : \A j \in DOMAIN cfg.succ[cfg.blocks[n]] :
        cfg.blocks[n] \in Branches /\ Passed(n, j)
            => AllLinked(cfg.blocks[n], cfg.succ[cfg.blocks[n]][j])

IInv == Typed /\ WalkOK /\ Sound /\ Complete


LEMMA PlaceTyped ==
    ASSUME CfgOK, NEW n \in DOMAIN cfg.blocks
    PROVE  /\ cfg.blocks[n] \in Block /\ Len(cfg.blocks) \in Nat
           /\ DOMAIN cfg.blocks = 1 .. Len(cfg.blocks)
           /\ Len(cfg.succ[cfg.blocks[n]]) \in Nat
           /\ DOMAIN cfg.succ[cfg.blocks[n]] = 1 .. Len(cfg.succ[cfg.blocks[n]])
           /\ \A j \in DOMAIN cfg.succ[cfg.blocks[n]] : cfg.succ[cfg.blocks[n]][j] \in Block
<1>1. cfg.blocks \in Seq(Block) /\ cfg.succ \in [Block -> Seq(Block)]
  BY CfgWellFormed DEF WellFormed, CfgRecord
<1>2. cfg.blocks[n] \in Block /\ Len(cfg.blocks) \in Nat /\ DOMAIN cfg.blocks = 1 .. Len(cfg.blocks)
  BY <1>1
<1>3. cfg.succ[cfg.blocks[n]] \in Seq(Block)
  BY <1>1, <1>2
<1> QED
  BY <1>2, <1>3

LEMMA IInvFirst == Init => IInv
<1> SUFFICES ASSUME Init PROVE IInv
  OBVIOUS
<1>1. CfgOK
  BY DEF Init, CfgOK
<1>2. cfg.blocks \in Seq(Block) /\ cfg.blocks # <<>>
  BY <1>1, CfgWellFormed DEF WellFormed, CfgRecord
<1>3. 1 \in DOMAIN cfg.blocks
  BY <1>2
<1>4. Typed
  BY <1>1, <1>3 DEF Init, Typed
<1>5. WalkOK /\ Sound
  BY DEF Init, WalkOK, Sound
<1>6. \A n, j : ~Passed(n, j)
  BY DEF Init, Passed
<1>7. Complete
  BY <1>6 DEF Complete
<1> QED
  BY <1>4, <1>5, <1>7 DEF IInv

\* What a step leaves alone.
LEMMA SameTree ==
    ASSUME UNCHANGED <<cfg, pdt>>
    PROVE  /\ Branches' = Branches
           /\ \A x, y : Found(x, y)' <=> Found(x, y)
           /\ \A x, s : Tested(x, s)' <=> Tested(x, s)
           /\ \A a, b : NearestCommonDominator(a, b)' = NearestCommonDominator(a, b)
<1>1. Branches' = Branches
  BY DEF Branches
<1>2. ASSUME NEW x, NEW y PROVE Found(x, y)' <=> Found(x, y)
  BY DEF Found, ControlDependent
<1>3. ASSUME NEW x, NEW s PROVE Tested(x, s)' <=> Tested(x, s)
  BY DEF Tested
<1>4. ASSUME NEW a, NEW b PROVE NearestCommonDominator(a, b)' = NearestCommonDominator(a, b)
  BY DEF NearestCommonDominator, Up
<1> QED
  BY <1>1, <1>2, <1>3, <1>4

\* A step keeps the invariant when what it adds is right, when the walk, if one
\* goes on, is in order, and when what it deals with has its links.
LEMMA StepKeeps ==
    ASSUME IInv, UNCHANGED <<cfg, pdt>>, Typed', WalkOK', brDeps \subseteq brDeps',
           \A d \in brDeps' \ brDeps : d[1] \in Branches /\ Found(d[1], d[2]),
           \A n \in DOMAIN cfg.blocks : \A j \in DOMAIN cfg.succ[cfg.blocks[n]] :
               cfg.blocks[n] \in Branches /\ Passed(n, j)'
                   => Passed(n, j) \/ AllLinked(cfg.blocks[n], cfg.succ[cfg.blocks[n]][j])
    PROVE  IInv'
<1>1. Sound'
  BY SameTree DEF IInv, Sound
<1>2. ASSUME NEW x, NEW s, AllLinked(x, s) PROVE AllLinked(x, s)'
  BY <1>2, SameTree DEF AllLinked
<1>3. ASSUME NEW n \in DOMAIN cfg.blocks, NEW j \in DOMAIN cfg.succ[cfg.blocks[n]],
             cfg.blocks[n] \in Branches, Passed(n, j)'
      PROVE  AllLinked(cfg.blocks[n], cfg.succ[cfg.blocks[n]][j])
  BY <1>3 DEF IInv, Complete
<1>4. Complete'
  BY <1>2, <1>3, SameTree DEF Complete
<1> QED
  BY <1>1, <1>4 DEF IInv

LEMMA EntryKeeps == IInv /\ AddEntryDeps => IInv'
<1> SUFFICES ASSUME IInv, AddEntryDeps PROVE IInv'
  OBVIOUS
<1>1. /\ Typed /\ bb \in DOMAIN cfg.blocks /\ pc = "entry" /\ si = 1
      /\ UNCHANGED <<cfg, pdt, si, brDeps>> /\ pc' \in {"entry", "blocks"}
      /\ \/ bb < Len(cfg.blocks) /\ bb' = bb + 1 /\ pc' = pc
         \/ bb' = 1 /\ pc' = "blocks"
  BY DEF IInv, Typed, AddEntryDeps
<1>2. Len(cfg.blocks) \in Nat /\ DOMAIN cfg.blocks = 1 .. Len(cfg.blocks)
  BY <1>1, PlaceTyped DEF Typed
<1>3. Typed'
  BY <1>1, <1>2 DEF Typed, CfgOK
<1>4. WalkOK'
  BY <1>1 DEF WalkOK
<1>5. ASSUME NEW n \in DOMAIN cfg.blocks, NEW j \in DOMAIN cfg.succ[cfg.blocks[n]], Passed(n, j)'
      PROVE FALSE
  <2>1. pc' = "blocks" /\ bb' = 1 /\ si' = 1
    BY <1>1, <1>5 DEF Passed
  <2>2. n \in Nat \ {0} /\ j \in Nat \ {0}
    BY <1>1, <1>2, PlaceTyped DEF Typed
  <2> QED
    BY <1>5, <2>1, <2>2 DEF Passed
<1> QED
  BY <1>1, <1>3, <1>4, <1>5, StepKeeps

LEMMA SkipBlockKeeps == IInv /\ SkipBlock => IInv'
<1> SUFFICES ASSUME IInv, SkipBlock PROVE IInv'
  OBVIOUS
<1>1. /\ Typed /\ bb \in DOMAIN cfg.blocks /\ pc = "blocks" /\ si \in Nat \ {0}
      /\ UNCHANGED <<cfg, pdt, brDeps>> /\ si' = 1
      /\ \/ bb < Len(cfg.blocks) /\ bb' = bb + 1 /\ pc' = "blocks"
         \/ bb >= Len(cfg.blocks) /\ bb' = bb /\ pc' = "done"
      /\ si > Len(cfg.succ[BB]) \/ cfg.term[BB] # "br"
  <2>1. Typed /\ bb \in DOMAIN cfg.blocks
    BY DEF IInv, Typed
  <2>2. Len(cfg.blocks) \in Nat /\ bb \in Nat
    BY <2>1, PlaceTyped DEF Typed
  <2> QED
    BY <2>1, <2>2 DEF Typed, SkipBlock, NextBlock
<1>2. Len(cfg.blocks) \in Nat /\ DOMAIN cfg.blocks = 1 .. Len(cfg.blocks)
  BY <1>1, PlaceTyped DEF Typed
<1>3. Typed'
  BY <1>1, <1>2 DEF Typed, CfgOK
<1>4. WalkOK'
  BY <1>1 DEF WalkOK
<1>5. ASSUME NEW n \in DOMAIN cfg.blocks, NEW j \in DOMAIN cfg.succ[cfg.blocks[n]],
             cfg.blocks[n] \in Branches, Passed(n, j)'
      PROVE  Passed(n, j)
  <2>1. n \in Nat /\ bb \in Nat /\ j \in 1 .. Len(cfg.succ[cfg.blocks[n]])
        /\ Len(cfg.succ[cfg.blocks[n]]) \in Nat /\ n <= Len(cfg.blocks)
    BY <1>1, <1>2, PlaceTyped DEF Typed
  <2>2. n <= bb
    BY <1>1, <1>2, <1>5, <2>1 DEF Passed
  <2>3. CASE n < bb
    BY <1>1, <2>3 DEF Passed
  <2>4. CASE n = bb
    <3>1. cfg.term[BB] = "br"
      BY <1>5, <2>4 DEF Branches, BB
    <3>2. j < si
      BY <1>1, <2>1, <2>4, <3>1 DEF BB
    <3> QED
      BY <1>1, <2>4, <3>2 DEF Passed
  <2> QED
    BY <2>1, <2>2, <2>3, <2>4
<1> QED
  BY <1>1, <1>3, <1>4, <1>5, StepKeeps

\* What the loops stand at while they are at the successors of a branch.
LEMMA AtSuccessor ==
    ASSUME Typed, si <= Len(cfg.succ[BB]), cfg.term[BB] = "br"
    PROVE  /\ WellFormed(cfg) /\ CfgOK
           /\ BB \in Branches /\ BB \in Block /\ BB = cfg.blocks[bb] /\ bb \in DOMAIN cfg.blocks
           /\ si \in DOMAIN cfg.succ[BB] /\ Succ \in Block /\ Succ = cfg.succ[BB][si]
           /\ Succ \in ToSet(cfg.succ[BB])
           /\ Depends <=> Tested(BB, Succ)
<1>1. CfgOK /\ bb \in DOMAIN cfg.blocks /\ si \in Nat \ {0}
  BY DEF Typed
<1>2. WellFormed(cfg)
  BY <1>1, CfgWellFormed
<1>3. /\ BB \in Block /\ Len(cfg.succ[BB]) \in Nat /\ DOMAIN cfg.succ[BB] = 1 .. Len(cfg.succ[BB])
      /\ \A j \in DOMAIN cfg.succ[BB] : cfg.succ[BB][j] \in Block
  BY <1>1, PlaceTyped DEF BB
<1>4. si \in DOMAIN cfg.succ[BB]
  BY <1>1, <1>3
<1>5. Succ \in Block /\ Succ = cfg.succ[BB][si] /\ Succ \in ToSet(cfg.succ[BB])
  BY <1>3, <1>4 DEF Succ, ToSet
<1>6. Depends <=> Tested(BB, Succ)
  BY <1>1, <1>3, <1>5, UpIs DEF Depends, Tested, Dominates
<1> QED
  BY <1>1, <1>2, <1>3, <1>4, <1>5, <1>6 DEF Branches, BB

\* A successor is passed once its walk is over, or when it needs none.
LEMMA PassedNext ==
    ASSUME Typed, pc \in {"blocks", "walk"}, pc' \in {"blocks", "walk"}, bb' = bb,
           si' \in {si, si + 1}, NEW n \in DOMAIN cfg.blocks,
           NEW j \in DOMAIN cfg.succ[cfg.blocks[n]], Passed(n, j)'
    PROVE  Passed(n, j) \/ (n = bb /\ j = si /\ si' = si + 1)
<1>1. n \in Nat /\ j \in Nat /\ bb \in Nat /\ si \in Nat
  BY PlaceTyped DEF Typed
<1> QED
  BY <1>1 DEF Passed

LEMMA SkipSuccessorKeeps == IInv /\ SkipSuccessor => IInv'
<1> SUFFICES ASSUME IInv, SkipSuccessor PROVE IInv'
  OBVIOUS
<1>1. /\ Typed /\ bb \in DOMAIN cfg.blocks /\ pc = "blocks" /\ si \in Nat \ {0}
      /\ UNCHANGED <<cfg, pdt, pc, bb, brDeps>> /\ si' = si + 1
      /\ si <= Len(cfg.succ[BB]) /\ cfg.term[BB] = "br" /\ ~Depends
  BY DEF IInv, Typed, SkipSuccessor
<1>2. ~Tested(BB, Succ) /\ BB = cfg.blocks[bb] /\ Succ = cfg.succ[BB][si]
  BY <1>1, AtSuccessor
<1>3. Typed'
  BY <1>1 DEF Typed, CfgOK
<1>4. WalkOK'
  BY <1>1 DEF WalkOK
<1>5. ASSUME NEW n \in DOMAIN cfg.blocks, NEW j \in DOMAIN cfg.succ[cfg.blocks[n]], Passed(n, j)'
      PROVE  Passed(n, j) \/ AllLinked(cfg.blocks[n], cfg.succ[cfg.blocks[n]][j])
  <2>1. Passed(n, j) \/ (n = bb /\ j = si)
    BY <1>1, <1>5, PassedNext
  <2> QED
    BY <1>2, <2>1 DEF AllLinked
<1> QED
  BY <1>1, <1>3, <1>4, <1>5, StepKeeps


\* The end of a walk: the least of what post-dominates both ends of the edge.
LEMMA WalkEndIs ==
    ASSUME CfgOK, BB \in Block, Succ \in Block
    PROVE  \/ /\ WalkEnd = Root
              /\ \A c \in Block : ~(PostDominates(cfg, c, BB) /\ PostDominates(cfg, c, Succ))
           \/ /\ WalkEnd \in Block /\ PostDominates(cfg, WalkEnd, BB)
              /\ PostDominates(cfg, WalkEnd, Succ)
              /\ \A c \in Block : PostDominates(cfg, c, BB) /\ PostDominates(cfg, c, Succ)
                                     => PostDominates(cfg, c, WalkEnd)
BY NearestIs DEF WalkEnd

\* The block of the branch is the end exactly when it post-dominates the
\* successor.
LEMMA WalkEndsAtBranch ==
    ASSUME CfgOK, BB \in Block, Succ \in Block
    PROVE  WalkEnd = BB <=> PostDominates(cfg, BB, Succ)
<1>1. PostDominates(cfg, BB, BB) /\ WellFormed(cfg) /\ BB # Root
  BY PostDominatesItself, CfgWellFormed, RootAssumption
<1> QED
  BY <1>1, WalkEndIs, PostDominatesOneWay

LEMMA VisitKeeps == IInv /\ VisitSuccessor => IInv'
<1> SUFFICES ASSUME IInv, VisitSuccessor PROVE IInv'
  OBVIOUS
<1>1. /\ Typed /\ pc = "blocks" /\ pc' = "walk" /\ cur' = Succ
      /\ UNCHANGED <<cfg, pdt, bb, si>>
      /\ brDeps' = IF WalkEnd = BB THEN brDeps \cup {<<BB, Succ>>} ELSE brDeps
      /\ si <= Len(cfg.succ[BB]) /\ cfg.term[BB] = "br" /\ Depends
  BY DEF IInv, VisitSuccessor, WalkEnd
<1>2. /\ WellFormed(cfg) /\ CfgOK /\ BB \in Branches /\ BB \in Block
      /\ si \in DOMAIN cfg.succ[BB] /\ Succ \in Block /\ Succ \in ToSet(cfg.succ[BB])
      /\ Tested(BB, Succ)
  BY <1>1, AtSuccessor
<1>3. BB' = BB /\ Succ' = Succ /\ WalkEnd' = WalkEnd
  BY <1>1, SameTree DEF BB, Succ, WalkEnd
<1>4. Typed'
  BY <1>1 DEF Typed, CfgOK
<1>5. WalkOK'
  <2>1. Branches' = Branches /\ Tested(BB, Succ)'
    BY <1>1, <1>2, <1>3, SameTree DEF Tested
  <2>2. WalkEnd = Root \/ PostDominates(cfg, WalkEnd, Succ)
    BY <1>2, WalkEndIs
  <2>3. PostDominates(cfg, BB, Succ) => <<BB, Succ>> \in brDeps'
    BY <1>1, <1>2, WalkEndsAtBranch
  <2>4. Succ # Root /\ PostDominates(cfg, Succ, Succ)
    BY <1>2, PostDominatesItself, RootAssumption
  <2> QED
    BY <1>1, <1>2, <1>3, <2>1, <2>2, <2>3, <2>4 DEF WalkOK
<1>6. ASSUME NEW d \in brDeps' \ brDeps PROVE d[1] \in Branches /\ Found(d[1], d[2])
  <2>1. d = <<BB, Succ>> /\ PostDominates(cfg, BB, Succ)
    BY <1>1, <1>2, WalkEndsAtBranch
  <2>2. ~StrictlyPostDominates(cfg, Succ, BB) /\ PostDominates(cfg, Succ, Succ)
    BY <1>2, PostDominatesItself DEF Tested, StrictlyPostDominates
  <2> QED
    BY <1>2, <2>1, <2>2 DEF Found, ControlDependent
<1>7. ASSUME NEW n \in DOMAIN cfg.blocks, NEW j \in DOMAIN cfg.succ[cfg.blocks[n]], Passed(n, j)'
      PROVE  Passed(n, j)
  BY <1>1, <1>7, PassedNext DEF Typed
<1> QED
  BY <1>1, <1>4, <1>5, <1>6, <1>7, StepKeeps

LEMMA WalkKeeps == IInv /\ Walk => IInv'
<1> SUFFICES ASSUME IInv, Walk PROVE IInv'
  OBVIOUS
<1>1. /\ Typed /\ pc = "walk" /\ UNCHANGED <<cfg, pdt, bb>> /\ WalkOK
  BY DEF IInv, Walk
<1>2. /\ BB \in Branches /\ si \in DOMAIN cfg.succ[BB] /\ Tested(BB, Succ)
      /\ cur = Root \/ (cur \in Block /\ PostDominates(cfg, cur, Succ))
      /\ WalkEnd = Root \/ (cur \in Block /\ PostDominates(cfg, WalkEnd, cur))
      /\ \A y \in Block :
            PostDominates(cfg, y, Succ) /\ (cur = Root \/ ~PostDominates(cfg, y, cur))
                => <<BB, y>> \in brDeps
      /\ PostDominates(cfg, BB, Succ) => <<BB, Succ>> \in brDeps
  BY <1>1 DEF WalkOK
<1>3. si <= Len(cfg.succ[BB]) /\ cfg.term[BB] = "br"
  BY <1>1, <1>2, PlaceTyped DEF Typed, Branches, BB
<1>4. /\ WellFormed(cfg) /\ CfgOK /\ BB \in Block /\ Succ \in Block
      /\ Succ \in ToSet(cfg.succ[BB]) /\ BB = cfg.blocks[bb] /\ Succ = cfg.succ[BB][si]
  BY <1>1, <1>3, AtSuccessor
<1>5. CASE cur = WalkEnd
  <2>1. si' = si + 1 /\ pc' = "blocks" /\ UNCHANGED <<cur, brDeps>>
    BY <1>5 DEF Walk
  <2>2. Typed'
    BY <1>1, <2>1 DEF Typed, CfgOK
  <2>3. WalkOK'
    BY <2>1 DEF WalkOK
  <2>4. AllLinked(BB, Succ)
    <3> SUFFICES ASSUME NEW y \in Block, PostDominates(cfg, y, Succ), ~PostDominates(cfg, y, BB)
                 PROVE  <<BB, y>> \in brDeps
      BY <1>2 DEF AllLinked
    <3>1. cur = Root \/ ~PostDominates(cfg, y, cur)
      BY <1>4, <1>5, WalkEndIs, PostDominatesOnwards
    <3> QED
      BY <1>2, <3>1
  <2>5. ASSUME NEW n \in DOMAIN cfg.blocks, NEW j \in DOMAIN cfg.succ[cfg.blocks[n]], Passed(n, j)'
        PROVE  Passed(n, j) \/ AllLinked(cfg.blocks[n], cfg.succ[cfg.blocks[n]][j])
    <3>1. Passed(n, j) \/ (n = bb /\ j = si)
      BY <1>1, <2>1, <2>5, PassedNext
    <3> QED
      BY <1>4, <2>4, <3>1
  <2> QED
    BY <1>1, <2>1, <2>2, <2>3, <2>5, StepKeeps
<1>6. CASE cur # WalkEnd
  <2>1. /\ brDeps' = brDeps \cup {<<BB, cur>>} /\ cur' = pdt[cur] /\ UNCHANGED <<si, pc>>
    BY <1>6 DEF Walk
  <2>2. cur \in Block /\ PostDominates(cfg, cur, Succ)
    BY <1>2, <1>6, RootAssumption
  <2>3. ~PostDominates(cfg, cur, BB)
    BY <1>2, <1>4, <1>6, <2>2, WalkEndIs, PostDominatesOneWay, RootAssumption
  <2>4. BB' = BB /\ Succ' = Succ /\ WalkEnd' = WalkEnd
    BY <1>1, <2>1, SameTree DEF BB, Succ, WalkEnd
  <2>5. \/ cur' = Root /\ \A c \in Block : ~StrictlyPostDominates(cfg, c, cur)
        \/ /\ cur' \in Block /\ StrictlyPostDominates(cfg, cur', cur)
           /\ \A c \in Block : StrictlyPostDominates(cfg, c, cur) => PostDominates(cfg, c, cur')
    BY <1>4, <2>1, <2>2, ParentIs DEF CfgOK
  <2>6. Typed'
    BY <1>1, <2>1 DEF Typed, CfgOK
  <2>7. WalkOK'
    <3>1. Branches' = Branches /\ Tested(BB, Succ)'
      BY <1>1, <1>2, <2>4, SameTree DEF Tested
    <3>2. cur' = Root \/ (cur' \in Block /\ PostDominates(cfg, cur', Succ))
      BY <1>4, <2>2, <2>5, PostDominatesOnwards DEF StrictlyPostDominates
    <3>3. WalkEnd = Root \/ (cur' \in Block /\ PostDominates(cfg, WalkEnd, cur'))
      BY <1>2, <1>4, <1>6, <2>2, <2>5, WalkEndIs DEF StrictlyPostDominates
    <3>4. ASSUME NEW y \in Block, PostDominates(cfg, y, Succ),
                 cur' = Root \/ ~PostDominates(cfg, y, cur')
          PROVE  <<BB, y>> \in brDeps'
      <4>1. CASE y = cur
        BY <2>1, <4>1
      <4>2. CASE y # cur
        <5>1. ~PostDominates(cfg, y, cur)
          BY <2>5, <3>4, <4>2, RootAssumption DEF StrictlyPostDominates
        <5> QED
          BY <1>2, <2>1, <3>4, <5>1
      <4> QED
        BY <4>1, <4>2
    <3> QED
      BY <1>1, <1>2, <2>1, <2>4, <3>1, <3>2, <3>3, <3>4 DEF WalkOK
  <2>8. ASSUME NEW d \in brDeps' \ brDeps PROVE d[1] \in Branches /\ Found(d[1], d[2])
    <3>1. d = <<BB, cur>> /\ BB # cur
      BY <2>1, <2>3, PostDominatesItself
    <3> QED
      BY <1>2, <1>4, <2>2, <2>3, <3>1 DEF Found, ControlDependent, StrictlyPostDominates
  <2>9. ASSUME NEW n \in DOMAIN cfg.blocks, NEW j \in DOMAIN cfg.succ[cfg.blocks[n]], Passed(n, j)'
        PROVE  Passed(n, j)
    BY <1>1, <2>1, <2>9, PassedNext DEF Typed
  <2> QED
    BY <1>1, <2>1, <2>6, <2>7, <2>8, <2>9, StepKeeps
<1> QED
  BY <1>5, <1>6

LEMMA IInvHolds == Spec => []IInv
<1>1. IInv /\ [Next]_vars => IInv'
  <2> SUFFICES ASSUME IInv, [Next]_vars PROVE IInv'
    OBVIOUS
  <2>1. CASE UNCHANGED vars
    <3>1. UNCHANGED <<cfg, pdt, pc, bb, si, cur, brDeps>>
      BY <2>1 DEF vars
    <3>2. Typed'
      BY <3>1 DEF IInv, Typed, CfgOK
    <3>3. WalkOK'
      <4>1. BB' = BB /\ Succ' = Succ /\ WalkEnd' = WalkEnd /\ Branches' = Branches
            /\ (Tested(BB, Succ)' <=> Tested(BB, Succ))
        BY <3>1, SameTree DEF BB, Succ, WalkEnd, Tested
      <4> QED
        BY <3>1, <4>1 DEF IInv, WalkOK
    <3>4. \A n, j : Passed(n, j)' <=> Passed(n, j)
      BY <3>1 DEF Passed
    <3> QED
      BY <3>1, <3>2, <3>3, <3>4, StepKeeps
  <2> QED
    BY <2>1, EntryKeeps, SkipBlockKeeps, SkipSuccessorKeeps, VisitKeeps, WalkKeeps DEF Next
<1> QED
  BY <1>1, IInvFirst, PTL DEF Spec

-----------------------------------------------------------------------------
(* The theorems about control dependence. *)

\* WalkMeetsEnd: the loop that goes up from a successor with getIDom always has
\* its end above it, so it never asks the root for its block or its parent.
THEOREM WalksMeetTheirEnd == Spec => []WalkMeetsEnd
<1>1. IInv => WalkMeetsEnd
  <2> SUFFICES ASSUME IInv, pc = "walk", cur # WalkEnd
               PROVE  cur # Root /\ (WalkEnd = Root \/ WalkEnd \in Up(cur))
    BY DEF WalkMeetsEnd
  <2>1. Typed /\ CfgOK /\ WalkOK
    BY DEF IInv, Typed
  <2>2. BB \in Branches /\ si \in DOMAIN cfg.succ[BB]
    BY <2>1 DEF WalkOK
  <2>3. si <= Len(cfg.succ[BB]) /\ cfg.term[BB] = "br"
    BY <2>1, <2>2, PlaceTyped DEF Typed, Branches, BB
  <2>4. WalkEnd \in Block \cup {Root}
    BY <2>1, <2>3, AtSuccessor, WalkEndIs
  <2>5. cur = Root \/ cur \in Block
    BY <2>1 DEF WalkOK
  <2>6. WalkEnd = Root \/ (cur \in Block /\ PostDominates(cfg, WalkEnd, cur))
    BY <2>1 DEF WalkOK
  <2> QED
    BY <2>1, <2>4, <2>5, <2>6, UpIs, RootAssumption
<1> QED
  BY <1>1, IInvHolds, PTL

\* BranchDepsExact: the branch edges are those of the definition of control
\* dependence, in any control-flow graph, but for a loop's edge to its own head.
THEOREM BranchEdgesExact == Spec => []BranchDepsExact
<1>1. IInv => BranchDepsExact
  <2> SUFFICES ASSUME IInv PROVE BranchDepsExact
    OBVIOUS
  <2>1. Sound /\ Complete /\ CfgOK
    BY DEF IInv, Typed
  <2>2. WellFormed(cfg)
    BY <2>1, CfgWellFormed
  <2>3. ASSUME pc = "done", NEW x \in Branches, NEW y \in Block, Found(x, y)
        PROVE  <<x, y>> \in brDeps
    <3>1. x \in Block /\ x \in ToSet(cfg.blocks)
      BY <2>2 DEF Branches, WellFormed
    <3>2. PICK n \in DOMAIN cfg.blocks : x = cfg.blocks[n]
      BY <3>1 DEF ToSet
    <3>3. \A s \in ToSet(cfg.succ[x]) : s \in Block /\ AllLinked(x, s)
      <4>1. \A j \in DOMAIN cfg.succ[x] : AllLinked(x, cfg.succ[x][j])
        BY <2>1, <2>3, <3>2 DEF Complete, Passed
      <4>2. \A j \in DOMAIN cfg.succ[x] : cfg.succ[x][j] \in Block
        BY <2>1, <3>2, PlaceTyped
      <4> QED
        BY <4>1, <4>2 DEF ToSet
    <3>4. CASE x = y
      <4>1. x \in ToSet(cfg.succ[x])
        BY <2>3, <3>4 DEF Found
      <4> QED
        BY <3>3, <3>4, <4>1, PostDominatesItself DEF AllLinked, Tested
    <3>5. CASE x # y
      <4>1. PICK s \in ToSet(cfg.succ[x]) : PostDominates(cfg, y, s)
        BY <2>3 DEF Found, ControlDependent
      <4>2. ~PostDominates(cfg, y, x)
        BY <2>3, <3>5 DEF Found, ControlDependent, StrictlyPostDominates
      <4>3. Tested(x, s)
        BY <2>2, <3>1, <3>3, <4>1, <4>2, PostDominatesOnwards DEF Tested
      <4> QED
        BY <3>3, <4>1, <4>2, <4>3 DEF AllLinked
    <3> QED
      BY <3>4, <3>5
  <2> QED
    BY <2>1, <2>3 DEF BranchDepsExact, Sound
<1> QED
  BY <1>1, IInvHolds, PTL



-----------------------------------------------------------------------------
(* The data dependency pass: what the program says. *)

\* What the invariants use of an instruction's operands.
LEMMA ProgramIs ==
    ASSUME prog \in Programs
    PROVE  /\ prog.order \in Seq(Func) /\ ToSet(prog.order) = Func
           /\ \A i \in Inst :
                 /\ prog.owner[i] \in Func /\ prog.operands[i] \in Seq(Value)
                 /\ \A j \in Inst : prog.block[i] = prog.block[j] => prog.owner[i] = prog.owner[j]
                 /\ \A o \in ToSet(prog.operands[i]) \cap Inst : o < i /\ prog.owner[o] = prog.owner[i]
<1>1. WellFormedProgram(prog)
  BY ProgramsAssumption
<1>2. prog \in ProgramRecord
  BY <1>1 DEF WellFormedProgram
<1> QED
  BY <1>1, <1>2 DEF WellFormedProgram, ProgramRecord

LEMMA KindIs ==
    ASSUME prog \in Programs, NEW i, Kind(i) \in {"load", "store", "bitcast"}
    PROVE  /\ i \in Inst
           /\ prog.kind[i] = Kind(i)
           /\ Address(i) \in ToSet(prog.operands[i]) /\ Address(i) \in Value
           /\ prog.operands[i][1] \in ToSet(prog.operands[i]) /\ prog.operands[i][1] \in Value
           /\ Kind(i) # "store" => Address(i) = prog.operands[i][1]
           /\ Kind(i) # "bitcast" => Address(i) \in prog.pointers
           /\ Kind(i) = "bitcast" => (i \in prog.pointers <=> prog.operands[i][1] \in prog.pointers)
<1>1. i \in Inst /\ prog.kind[i] = Kind(i)
  BY DEF Kind
<1>2. WellFormedProgram(prog)
  BY ProgramsAssumption
<1>3. prog.operands[i] \in Seq(Value)
  BY <1>1, ProgramIs
<1>4. Len(prog.operands[i]) = IF Kind(i) = "store" THEN 2 ELSE 1
  <2>1. Len(prog.operands[i]) \in Arity(prog.kind[i])
    BY <1>1, <1>2 DEF WellFormedProgram
  <2> QED
    BY <1>1, <2>1 DEF Arity
<1>5. /\ Address(i) \in ToSet(prog.operands[i]) /\ Address(i) \in Value
      /\ prog.operands[i][1] \in ToSet(prog.operands[i]) /\ prog.operands[i][1] \in Value
      /\ Kind(i) # "store" => Address(i) = prog.operands[i][1]
  BY <1>3, <1>4 DEF Address, Last, ToSet
<1>6. /\ Kind(i) # "bitcast" => Address(i) \in prog.pointers
      /\ Kind(i) = "bitcast" => (i \in prog.pointers <=> prog.operands[i][1] \in prog.pointers)
  BY <1>1, <1>2 DEF WellFormedProgram, Address
<1> QED
  BY <1>1, <1>5, <1>6

-----------------------------------------------------------------------------
(* The data dependency pass: the invariant. *)

\* What a read-after-write edge joins.
StoreLoad(d, l) ==
    /\ Kind(d) = "store" /\ Kind(l) = "load"
    /\ prog.block[d] = prog.block[l] /\ d < l

\* The pass has added the alias edges of i.
AliasesAdded(i) ==
    \/ \E j \in DOMAIN prog.order : j < at /\ prog.owner[i] = prog.order[j]
    \/ prog.owner[i] = prog.order[at] /\ i \notin left
    \/ step = "callee" /\ i = I

DataTyped ==
    /\ prog \in Programs
    /\ at \in Nat \ {0} /\ left \subseteq Inst
    /\ left = {} => step = "defuse"

RawSound == \A e \in edges : e[3] = "DATA_RAW" => StoreLoad(e[1], e[2])

AliasSound == \A e \in edges : e[3] = "DATA_ALIAS" => e[2] \in Inst /\ Aliased(e[1], e[2])

AliasComplete ==
    \A i \in Inst : AliasesAdded(i) =>
        \A w \in InstsOf(prog.owner[i]) \ {i} : Aliased(i, w) => <<i, w, "DATA_ALIAS">> \in edges

DataInv == DataTyped /\ RawSound /\ AliasSound /\ AliasComplete

\* A step leaves the invariant alone when it adds nothing foreign, and no
\* instruction is passed but the one that has its edges.
LEMMA DataStepKeeps ==
    ASSUME DataInv, DataTyped', prog' = prog, edges \subseteq edges',
           \A e \in edges' \ edges :
               /\ e[3] = "DATA_RAW" => StoreLoad(e[1], e[2])
               /\ e[3] = "DATA_ALIAS" => e[2] \in Inst /\ Aliased(e[1], e[2]),
           \A i \in Inst : AliasesAdded(i)' => AliasesAdded(i) \/
               \A w \in InstsOf(prog.owner[i]) \ {i} :
                   Aliased(i, w) => <<i, w, "DATA_ALIAS">> \in edges'
    PROVE  DataInv'
<1>1. \A v, w : Kind(v)' = Kind(v) /\ Address(v)' = Address(v) /\ InstsOf(v)' = InstsOf(v)
               /\ Users(v)' = Users(v)
  BY DEF Kind, Address, InstsOf, Users
<1>2. \A v, w : (Aliased(v, w)' <=> Aliased(v, w)) /\ (StoreLoad(v, w)' <=> StoreLoad(v, w))
  BY <1>1 DEF Aliased, StoreLoad, StoredTo
<1>3. RawSound'
  BY <1>2 DEF DataInv, RawSound
<1>4. AliasSound'
  BY <1>2 DEF DataInv, AliasSound
<1>5. AliasComplete'
  <2> SUFFICES ASSUME NEW i \in Inst, AliasesAdded(i)', NEW w \in InstsOf(prog.owner[i]) \ {i},
                      Aliased(i, w)
               PROVE  <<i, w, "DATA_ALIAS">> \in edges'
    BY <1>1, <1>2 DEF AliasComplete
  <2> QED
    BY DEF DataInv, AliasComplete
<1> QED
  BY <1>3, <1>4, <1>5 DEF DataInv

LEMMA DataInvFirst == DataInit => DataInv
<1> SUFFICES ASSUME DataInit PROVE DataInv
  OBVIOUS
<1>1. DataTyped
  BY DEF DataInit, DataTyped, InstsOf
<1>2. RawSound /\ AliasSound
  BY DEF DataInit, RawSound, AliasSound
<1>3. ASSUME NEW i \in Inst PROVE ~AliasesAdded(i)
  <2>1. ~\E j \in DOMAIN prog.order : j < at
    <3>1. prog.order \in Seq(Func)
      BY <1>1, ProgramIs DEF DataTyped
    <3> QED
      BY <3>1 DEF DataInit
  <2> QED
    BY <2>1 DEF DataInit, AliasesAdded, InstsOf
<1> QED
  BY <1>1, <1>2, <1>3 DEF DataInv, AliasComplete

LEMMA DefUseKeeps == DataInv /\ AddDefUseEdges => DataInv'
<1> SUFFICES ASSUME DataInv, AddDefUseEdges PROVE DataInv'
  OBVIOUS
<1>1. /\ left # {} /\ step = "defuse" /\ step' = "raw" /\ UNCHANGED <<prog, at, left>>
      /\ edges' = edges \cup
            {<<I, u, IF Kind(u) = "anno" THEN "ANNO_VAR" ELSE "DATA_DEF_USE">> : u \in Users(I)}
  BY DEF AddDefUseEdges
<1>2. DataTyped'
  BY <1>1 DEF DataInv, DataTyped
<1>3. \A e \in edges' \ edges : e[3] \notin {"DATA_RAW", "DATA_ALIAS"}
  BY <1>1
<1>4. \A i \in Inst : AliasesAdded(i)' => AliasesAdded(i)
  BY <1>1 DEF AliasesAdded
<1> QED
  BY <1>1, <1>2, <1>3, <1>4, DataStepKeeps

\* Whichever answer of the analysis is a store, it is before the load.
LEMMA AnswerIsBefore ==
    ASSUME prog \in Programs, NEW l, Kind(l) = "load", NEW d \in Dependencies(l), Writes(d)
    PROVE  StoreLoad(d, l)
<1>1. d # None /\ Kind(d) = "store"
  BY DEF Writes
<1>2. d \in Before(l)
  BY <1>1 DEF Dependencies
<1> QED
  BY <1>1, <1>2 DEF Before, StoreLoad

LEMMA RawKeeps == DataInv /\ AddRAWEdges => DataInv'
<1> SUFFICES ASSUME DataInv, AddRAWEdges PROVE DataInv'
  OBVIOUS
<1>1. /\ left # {} /\ step = "raw" /\ step' = "alias" /\ UNCHANGED <<prog, at, left>>
  BY DEF AddRAWEdges
<1>2. PICK d \in IF Kind(I) = "load" THEN Dependencies(I) ELSE {None} :
        edges' = edges \cup (IF Writes(d) THEN {<<d, I, "DATA_RAW">>} ELSE {})
  BY DEF AddRAWEdges
<1>3. DataTyped'
  BY <1>1 DEF DataInv, DataTyped
<1>4. Writes(d) => StoreLoad(d, I)
  BY <1>2, AnswerIsBefore DEF DataInv, DataTyped, Writes
<1>5. \A e \in edges' \ edges : e = <<d, I, "DATA_RAW">> /\ Writes(d)
  BY <1>2
<1>6. \A i \in Inst : AliasesAdded(i)' => AliasesAdded(i)
  BY <1>1 DEF AliasesAdded
<1>7. \A e \in edges' \ edges : StoreLoad(e[1], e[2]) /\ e[3] = "DATA_RAW"
  BY <1>4, <1>5
<1> QED
  BY <1>1, <1>2, <1>3, <1>6, <1>7, DataStepKeeps

LEMMA AliasKeeps == DataInv /\ AddAliasEdges => DataInv'
<1> SUFFICES ASSUME DataInv, AddAliasEdges PROVE DataInv'
  OBVIOUS
<1>1. /\ left # {} /\ step = "alias" /\ step' = "callee" /\ UNCHANGED <<prog, at, left>>
      /\ edges' = edges \cup
          {<<I, w, "DATA_ALIAS">> : w \in {i \in InstsOf(prog.owner[I]) \ {I} : Aliased(I, i)}}
  BY DEF AddAliasEdges
<1>2. DataTyped'
  BY <1>1 DEF DataInv, DataTyped
<1>3. \A e \in edges' \ edges :
         e[3] = "DATA_ALIAS" /\ e[1] = I /\ e[2] \in Inst /\ Aliased(I, e[2])
  BY <1>1 DEF InstsOf
<1>4. I' = I
  BY <1>1 DEF I
<1>5. \A i \in Inst : AliasesAdded(i)' => AliasesAdded(i) \/ i = I
  BY <1>1, <1>4 DEF AliasesAdded
<1>6. \A w \in InstsOf(prog.owner[I]) \ {I} : Aliased(I, w) => <<I, w, "DATA_ALIAS">> \in edges'
  BY <1>1
<1>7. edges \subseteq edges'
  BY <1>1
<1> QED
  BY <1>1, <1>2, <1>3, <1>5, <1>6, <1>7, DataStepKeeps

LEMMA CalleeKeeps == DataInv /\ AddCalleeEdge => DataInv'
<1> SUFFICES ASSUME DataInv, AddCalleeEdge PROVE DataInv'
  OBVIOUS
<1>1. /\ left # {} /\ step = "callee" /\ step' = "defuse" /\ left' = left \ {I}
      /\ UNCHANGED <<prog, at>>
  BY DEF AddCalleeEdge, Visited
<1>2. edges \subseteq edges' /\ edges' \subseteq edges \cup {<<I, Address(I), "DATA_CALLEE">>}
  BY DEF AddCalleeEdge
<1>3. DataTyped'
  BY <1>1 DEF DataInv, DataTyped
<1>4. \A i \in Inst : AliasesAdded(i)' => AliasesAdded(i)
  BY <1>1 DEF AliasesAdded
<1>5. \A e \in edges' \ edges : e[3] \notin {"DATA_RAW", "DATA_ALIAS"}
  BY <1>2
<1> QED
  BY <1>1, <1>2, <1>3, <1>4, <1>5, DataStepKeeps

LEMMA NextFunctionKeeps == DataInv /\ NextFunction => DataInv'
<1> SUFFICES ASSUME DataInv, NextFunction PROVE DataInv'
  OBVIOUS
<1>1. /\ left = {} /\ at < Len(prog.order) /\ at' = at + 1
      /\ left' = InstsOf(prog.order[at + 1]) /\ UNCHANGED <<prog, step, edges>>
  BY DEF NextFunction
<1>2. at \in Nat \ {0} /\ step = "defuse" /\ prog.order \in Seq(Func)
  BY <1>1, ProgramIs DEF DataInv, DataTyped
<1>3. DataTyped'
  BY <1>1, <1>2 DEF DataInv, DataTyped, InstsOf
<1>4. \A i \in Inst : AliasesAdded(i)' => AliasesAdded(i)
  <2> SUFFICES ASSUME NEW i \in Inst, AliasesAdded(i)' PROVE AliasesAdded(i)
    OBVIOUS
  <2>1. PICK j \in DOMAIN prog.order : j < at + 1 /\ prog.owner[i] = prog.order[j]
    BY <1>1, <1>2 DEF AliasesAdded, InstsOf
  <2>2. CASE j = at
    BY <1>1, <2>1, <2>2 DEF AliasesAdded
  <2>3. CASE j # at
    BY <1>2, <2>1, <2>3 DEF AliasesAdded
  <2> QED
    BY <2>2, <2>3
<1> QED
  BY <1>1, <1>3, <1>4, DataStepKeeps

LEMMA DataInvHolds == DataSpec => []DataInv
<1>1. DataInv /\ [DataNext]_dataVars => DataInv'
  <2> SUFFICES ASSUME DataInv, [DataNext]_dataVars PROVE DataInv'
    OBVIOUS
  <2>1. CASE UNCHANGED dataVars
    <3>1. UNCHANGED <<prog, at, left, step, edges>>
      BY <2>1 DEF dataVars
    <3>2. DataTyped'
      BY <3>1 DEF DataInv, DataTyped
    <3>3. \A i \in Inst : AliasesAdded(i)' => AliasesAdded(i)
      BY <3>1 DEF AliasesAdded, I
    <3> QED
      BY <3>1, <3>2, <3>3, DataStepKeeps
  <2> QED
    BY <2>1, DefUseKeeps, RawKeeps, AliasKeeps, CalleeKeeps, NextFunctionKeeps DEF DataNext
<1> QED
  BY <1>1, DataInvFirst, PTL DEF DataSpec

-----------------------------------------------------------------------------
(* The theorems about data dependence. *)

\* AliasFollowsRaw: whichever function comes first, queryAliasUnderApproximate
\* joins a load with what was stored by the store it is linked to.
THEOREM AliasesFollowStores == DataSpec => []AliasFollowsRaw
<1>1. DataInv => AliasFollowsRaw
  <2> SUFFICES ASSUME DataInv, Finished, NEW e \in edges, e[3] = "DATA_RAW",
                      Address(e[1]) = Address(e[2]), prog.operands[e[1]][1] \in Inst,
                      {prog.operands[e[1]][1], e[2]} \subseteq prog.pointers
               PROVE  <<e[2], prog.operands[e[1]][1], "DATA_ALIAS">> \in edges
    BY DEF AliasFollowsRaw
  <2> DEFINE d == e[1]
             l == e[2]
             v == prog.operands[d][1]
  <2>1. prog \in Programs /\ StoreLoad(d, l) /\ at \in Nat \ {0}
    BY DEF DataInv, DataTyped, RawSound
  <2>2. /\ d \in Inst /\ l \in Inst /\ Kind(d) = "store" /\ Kind(l) = "load" /\ d < l
        /\ Address(d) \in ToSet(prog.operands[d]) /\ v \in ToSet(prog.operands[d])
    BY <2>1, KindIs DEF StoreLoad
  <2>3. v < d /\ prog.owner[v] = prog.owner[d] /\ prog.owner[d] = prog.owner[l]
    BY <2>1, <2>2, ProgramIs DEF StoreLoad
  <2>4. v \in InstsOf(prog.owner[l]) \ {l}
    <3>1. v \in Int /\ d \in Int /\ l \in Int
      BY <2>2, InstAssumption DEF Inst
    <3> QED
      BY <2>2, <2>3, <3>1 DEF InstsOf
  <2>5. Aliased(l, v)
    <3>1. d \in Users(Address(l)) /\ Kind(d) = "store" /\ Address(d) = Address(l)
      BY <2>2 DEF Users
    <3> QED
      BY <2>2, <3>1 DEF Aliased, StoredTo
  <2>6. AliasesAdded(l)
    <3>1. prog.owner[l] \in ToSet(prog.order) /\ prog.order \in Seq(Func)
      BY <2>1, <2>2, ProgramIs
    <3>2. PICK j \in DOMAIN prog.order : prog.owner[l] = prog.order[j]
      BY <3>1 DEF ToSet
    <3>3. left = {} /\ at = Len(prog.order)
      BY DEF Finished
    <3> QED
      BY <2>1, <3>1, <3>2, <3>3 DEF AliasesAdded
  <2> QED
    BY <2>2, <2>4, <2>5, <2>6 DEF DataInv, AliasComplete
<1> QED
  BY <1>1, DataInvHolds, PTL

-----------------------------------------------------------------------------
(* Rounds: a sequence each of which is made from the one before. *)

LEMMA LeastNumber ==
    ASSUME NEW S \in SUBSET Nat, S # {}
    PROVE  \E m \in S : \A n \in S : m <= n
<1> DEFINE Less == OpToRel(<, Nat)
<1>1. IsWellFoundedOn(Less, Nat)
  BY NatLessThanWellFounded
<1>2. \A m, n \in Nat : n < m => <<n, m>> \in Less
  BY DEF OpToRel
<1> HIDE DEF Less
<1>3. PICK m \in S : \A n \in S : <<n, m>> \notin Less
  BY <1>1, WFMin
<1>4. \A n \in S : ~(n < m)
  BY <1>2, <1>3
<1> QED
  BY <1>4

Rounds(X, F, c, N) ==
    {f \in [0 .. N -> X] : f[0] = c /\ \A n \in 1 .. N : f[n] = F[f[n - 1]]}

LEMMA RoundsDefined ==
    ASSUME NEW X, NEW F \in [X -> X], NEW c \in X, NEW N \in Nat
    PROVE  Rounds(X, F, c, N) # {}
<1> DEFINE Bad == {n \in Nat : Rounds(X, F, c, n) = {}}
<1> SUFFICES Bad = {}
  OBVIOUS
<1> SUFFICES ASSUME Bad # {} PROVE FALSE
  OBVIOUS
<1>1. PICK m \in Bad : \A n \in Bad : m <= n
  <2> HIDE DEF Bad
  <2>1. Bad \in SUBSET Nat
    BY DEF Bad
  <2> QED
    BY <2>1, LeastNumber
<1>2. m # 0
  <2> DEFINE f == [i \in 0 .. 0 |-> c]
  <2>1. f \in Rounds(X, F, c, 0)
    BY DEF Rounds
  <2> QED
    BY <1>1, <2>1
<1>3. m - 1 \in Nat /\ m - 1 \notin Bad
  BY <1>1, <1>2
<1>4. PICK g : g \in Rounds(X, F, c, m - 1)
  BY <1>3
<1>5. /\ g \in [0 .. (m - 1) -> X] /\ g[0] = c
      /\ \A n \in 1 .. (m - 1) : g[n] = F[g[n - 1]]
  BY <1>4 DEF Rounds
<1> DEFINE f == [i \in 0 .. m |-> IF i = m THEN F[g[m - 1]] ELSE g[i]]
<1>6. f \in [0 .. m -> X]
  BY <1>3, <1>5
<1>7. f[0] = c /\ \A n \in 1 .. m : f[n] = F[f[n - 1]]
  BY <1>1, <1>2, <1>3, <1>5
<1>8. f \in Rounds(X, F, c, m)
  BY <1>6, <1>7 DEF Rounds
<1> QED
  BY <1>1, <1>8

-----------------------------------------------------------------------------
(* What values may point to. *)

PointsToSets == [to : [Value -> SUBSET Object], held : [Object -> SUBSET Object]]

LEMMA UnorderedTyped == Unordered \in PointsToSets
<1>1. \A v \in Value : <<"own", v>> \in Object
  BY DEF Object
<1>2. \A o \in Object : <<"inner", o[2]>> \in Object
  BY DEF Object
<1> QED
  BY <1>1, <1>2 DEF Unordered, PointsToSets

LEMMA RoundTyped ==
    ASSUME prog \in Programs, NEW R \in PointsToSets
    PROVE  Round(R) \in PointsToSets
<1>1. R.to \in [Value -> SUBSET Object] /\ R.held \in [Object -> SUBSET Object]
  BY DEF PointsToSets
<1> DEFINE new(v) == CASE Kind(v) = "bitcast" -> R.to[prog.operands[v][1]]
                       [] Kind(v) = "load" -> UNION {R.held[o] : o \in R.to[Address(v)]}
                       [] OTHER -> {}
           put(o) == {R.to[prog.operands[s][1]] :
                            s \in {t \in Inst : Kind(t) = "store" /\ o \in R.to[Address(t)]}}
<1>2. \A v \in Value : new(v) \subseteq Object
  <2> TAKE v \in Value
  <2>1. CASE Kind(v) = "bitcast"
    BY <1>1, <2>1, KindIs
  <2>2. CASE Kind(v) = "load"
    <3>1. R.to[Address(v)] \subseteq Object
      BY <1>1, <2>2, KindIs
    <3> QED
      BY <1>1, <2>2, <3>1
  <2>3. CASE Kind(v) \notin {"bitcast", "load"}
    BY <2>3
  <2> QED
    BY <2>1, <2>2, <2>3
<1>3. \A o \in Object : UNION put(o) \subseteq Object
  <2>1. \A s \in Inst : Kind(s) = "store" => R.to[prog.operands[s][1]] \subseteq Object
    BY <1>1, KindIs
  <2> QED
    BY <2>1
<1>4. Round(R) = [to |-> [v \in Value |-> R.to[v] \cup new(v)],
                  held |-> [o \in Object |-> R.held[o] \cup UNION put(o)]]
  BY DEF Round
<1> HIDE DEF new, put
<1>5. [v \in Value |-> R.to[v] \cup new(v)] \in [Value -> SUBSET Object]
  BY <1>1, <1>2
<1>6. [o \in Object |-> R.held[o] \cup UNION put(o)] \in [Object -> SUBSET Object]
  BY <1>1, <1>3
<1> QED
  BY <1>4, <1>5, <1>6 DEF PointsToSets

LEMMA PointsToDefined ==
    ASSUME prog \in Programs
    PROVE  /\ PointsTo[0] = Unordered
           /\ \A n \in 1 .. NInst + 2 : PointsTo[n] = Round(PointsTo[n - 1])
           /\ \A n \in 0 .. NInst + 2 : PointsTo[n] \in PointsToSets
<1> DEFINE F == [R \in PointsToSets |-> Round(R)]
           N == NInst + 2
<1>1. F \in [PointsToSets -> PointsToSets]
  BY RoundTyped
<1>2. N \in Nat
  BY InstAssumption
<1>3. \A R \in PointsToSets : F[R] = Round(R)
  OBVIOUS
<1> HIDE DEF F, N
<1>4. PICK f : f \in Rounds(PointsToSets, F, Unordered, N)
  BY <1>1, <1>2, UnorderedTyped, RoundsDefined
<1>5. /\ f \in [0 .. N -> PointsToSets] /\ f[0] = Unordered
      /\ \A n \in 1 .. N : f[n] = F[f[n - 1]]
  BY <1>4 DEF Rounds
<1>6. f = [n \in 0 .. N |-> IF n = 0 THEN Unordered ELSE Round(f[n - 1])]
  <2>1. \A n \in 1 .. N : f[n - 1] \in PointsToSets
    BY <1>2, <1>5
  <2>2. \A n \in 0 .. N : f[n] = IF n = 0 THEN Unordered ELSE Round(f[n - 1])
    BY <1>2, <1>3, <1>5, <2>1
  <2> QED
    BY <1>5, <2>2
<1> DEFINE g == CHOOSE h : h = [n \in 0 .. N |-> IF n = 0 THEN Unordered ELSE Round(h[n - 1])]
<1>7. g = [n \in 0 .. N |-> IF n = 0 THEN Unordered ELSE Round(g[n - 1])]
  BY <1>6
<1>8. g = PointsTo
  BY DEF PointsTo, N
<1> HIDE DEF g
<1>9. g[0] = Unordered /\ \A n \in 1 .. N : g[n] = Round(g[n - 1])
  BY <1>2, <1>7
<1>a. \A n \in 0 .. N : g[n] \in PointsToSets
  <2> DEFINE Bad == {n \in 0 .. N : g[n] \notin PointsToSets}
  <2> SUFFICES ASSUME Bad # {} PROVE FALSE
    OBVIOUS
  <2>1. PICK m \in Bad : \A n \in Bad : m <= n
    <3>1. Bad \in SUBSET Nat
      OBVIOUS
    <3> HIDE DEF Bad
    <3> QED
      BY <3>1, LeastNumber
  <2>2. m # 0
    BY <1>9, <2>1, UnorderedTyped
  <2>3. m \in 1 .. N /\ m - 1 \in 0 .. N /\ m - 1 \notin Bad
    BY <1>2, <2>1, <2>2
  <2> QED
    BY <1>9, <2>1, <2>3, RoundTyped
<1> QED
  BY <1>8, <1>9, <1>a DEF N

\* What one round adds.
LEMMA RoundAdds ==
    ASSUME prog \in Programs, NEW R \in PointsToSets
    PROVE  /\ \A v \in Value : R.to[v] \subseteq Round(R).to[v]
           /\ \A o \in Object : R.held[o] \subseteq Round(R).held[o]
           /\ \A v \in Value : Kind(v) = "bitcast" =>
                 R.to[prog.operands[v][1]] \subseteq Round(R).to[v]
           /\ \A v \in Value, o \in Object : Kind(v) = "load" /\ o \in R.to[Address(v)] =>
                 R.held[o] \subseteq Round(R).to[v]
           /\ \A s \in Inst, o \in Object : Kind(s) = "store" /\ o \in R.to[Address(s)] =>
                 R.to[prog.operands[s][1]] \subseteq Round(R).held[o]
<1>1. Round(R).to = [v \in Value |-> R.to[v] \cup
                  CASE Kind(v) = "bitcast" -> R.to[prog.operands[v][1]]
                    [] Kind(v) = "load" -> UNION {R.held[o] : o \in R.to[Address(v)]}
                    [] OTHER -> {}]
  BY DEF Round
<1>2. Round(R).held = [o \in Object |-> R.held[o] \cup
                  UNION {R.to[prog.operands[s][1]] :
                            s \in {t \in Inst : Kind(t) = "store" /\ o \in R.to[Address(t)]}}]
  BY DEF Round
<1>3. \A v \in Value : Kind(v) = "load" =>
         UNION {R.held[o] : o \in R.to[Address(v)]} \subseteq Round(R).to[v]
  BY <1>1
<1> QED
  BY <1>1, <1>2, <1>3

\* Each pointer points to something, at the latest after as many rounds as its
\* number says.
Known(n, v) == Kind(v) \notin {"bitcast", "load"} \/ v \in 1 .. n

LEMMA PointersPoint ==
    ASSUME prog \in Programs, NEW n \in 0 .. NInst + 2
    PROVE  /\ \A v \in Value \cap prog.pointers : Known(n, v) => PointsTo[n].to[v] # {}
           /\ \A o \in Object : PointsTo[n].held[o] # {}
<1> DEFINE Good(m) ==
              /\ \A v \in Value \cap prog.pointers : Known(m, v) => PointsTo[m].to[v] # {}
              /\ \A o \in Object : PointsTo[m].held[o] # {}
           Bad == {m \in 0 .. NInst + 2 : ~Good(m)}
<1> SUFFICES ASSUME Bad # {} PROVE FALSE
  OBVIOUS
<1>0. NInst \in Nat
  BY InstAssumption
<1>1. PICK m \in Bad : \A i \in Bad : m <= i
  <2> HIDE DEF Good
  <2>1. Bad \in SUBSET Nat
    OBVIOUS
  <2> HIDE DEF Bad
  <2> QED
    BY <2>1, LeastNumber
<1>2. m # 0
  <2>1. Good(0)
    <3>1. PointsTo[0] = Unordered
      BY PointsToDefined
    <3>2. \A v \in Value \cap prog.pointers : Known(0, v) => Unordered.to[v] # {}
      <4>1. \A v : Known(0, v) => Kind(v) \notin {"bitcast", "load"}
        BY DEF Known
      <4>2. Unordered.to = [v \in Value |-> IF v \in prog.pointers /\ Kind(v) \notin {"bitcast", "load"}
                                           THEN {<<"own", v>>} ELSE {}]
        BY DEF Unordered
      <4> QED
        BY <4>1, <4>2
    <3>3. \A o \in Object : Unordered.held[o] # {}
      BY DEF Unordered
    <3> QED
      BY <3>1, <3>2, <3>3
  <2> QED
    BY <1>1, <2>1
<1>3. m \in 1 .. NInst + 2 /\ m - 1 \in 0 .. NInst + 2 /\ m - 1 \notin Bad
  BY <1>0, <1>1, <1>2
<1> DEFINE R == PointsTo[m - 1]
<1>4. R \in PointsToSets /\ PointsTo[m] = Round(R)
  BY <1>3, PointsToDefined
<1>5. /\ \A v \in Value \cap prog.pointers : Known(m - 1, v) => R.to[v] # {}
      /\ \A o \in Object : R.held[o] # {}
  BY <1>3
<1> SUFFICES Good(m)
  BY <1>1
<1> HIDE DEF R
<1>6. \A o \in Object : Round(R).held[o] # {}
  BY <1>4, <1>5, RoundAdds
<1>7. \A v \in Value \cap prog.pointers : Known(m, v) => Round(R).to[v] # {}
  <2> SUFFICES ASSUME NEW v \in Value \cap prog.pointers, Known(m, v) PROVE Round(R).to[v] # {}
    OBVIOUS
  <2>1. CASE Known(m - 1, v)
    BY <1>4, <1>5, <2>1, RoundAdds
  <2>2. CASE ~Known(m - 1, v)
    <3>1. Kind(v) \in {"bitcast", "load"} /\ v = m
      BY <1>3, <2>2 DEF Known
    <3> DEFINE w == prog.operands[v][1]
    <3>2. w \in Value \cap prog.pointers /\ w = Address(v) /\ w \in ToSet(prog.operands[v]) /\ v \in Inst
      BY <3>1, KindIs
    <3>3. Known(m - 1, w)
      <4>1. CASE w \in Inst
        <5>1. w < v
          BY <3>2, <4>1, ProgramIs
        <5> QED
          BY <1>0, <1>3, <3>1, <4>1, <5>1 DEF Known, Inst
      <4>2. CASE w \notin Inst
        BY <4>2 DEF Known, Kind
      <4> QED
        BY <4>1, <4>2
    <3>4. PICK o : o \in R.to[w]
      BY <1>5, <3>2, <3>3
    <3>5. o \in Object
      BY <1>4, <3>2, <3>4 DEF PointsToSets
    <3> QED
      BY <1>4, <1>5, <3>1, <3>2, <3>4, <3>5, RoundAdds
  <2> QED
    BY <2>1, <2>2
<1> QED
  BY <1>4, <1>6, <1>7

\* Values that queryAliasUnderApproximate takes for aliases may point to the
\* same object.
LEMMA AliasedMeet ==
    ASSUME prog \in Programs, NEW v, NEW w, Aliased(v, w)
    PROVE  PointsTo[NInst + 2].to[v] \cap PointsTo[NInst + 2].to[w] # {}
<1> DEFINE R == PointsTo[NInst]
           S == PointsTo[NInst + 1]
           U == PointsTo[NInst + 2]
<1>0. NInst \in Nat
  BY InstAssumption
<1>1. R \in PointsToSets /\ S = Round(R) /\ S \in PointsToSets /\ U = Round(S)
  <2>1. /\ NInst \in 0 .. NInst + 2 /\ NInst + 1 \in 1 .. NInst + 2 /\ NInst + 2 \in 1 .. NInst + 2
        /\ NInst + 1 \in 0 .. NInst + 2 /\ (NInst + 1) - 1 = NInst /\ (NInst + 2) - 1 = NInst + 1
    BY <1>0
  <2> QED
    BY <2>1, PointsToDefined
<1>2. /\ \A x \in Value \cap prog.pointers : R.to[x] # {}
  <2>1. \A x : Known(NInst, x)
    BY DEF Known, Kind, Inst
  <2> QED
    BY <1>0, <2>1, PointersPoint
<1> HIDE DEF R, S, U
<1> SUFFICES U.to[v] \cap U.to[w] # {}
  BY DEF U
<1>3. {v, w} \subseteq prog.pointers
  BY DEF Aliased
<1>4. CASE Kind(v) = "bitcast" /\ prog.operands[v][1] = w
  <2>1. v \in Value /\ w \in Value
    BY <1>4, KindIs DEF Value
  <2>2. R.to[w] # {} /\ R.to[w] \subseteq S.to[w] /\ R.to[w] \subseteq S.to[v]
    BY <1>1, <1>2, <1>3, <1>4, <2>1, RoundAdds
  <2>3. S.to[w] \subseteq U.to[w] /\ S.to[v] \subseteq U.to[v]
    BY <1>1, <2>1, RoundAdds
  <2> QED
    BY <2>2, <2>3
<1>5. CASE Kind(v) = "load" /\ w \in StoredTo(Address(v))
  <2>1. PICK s : Kind(s) = "store" /\ Address(s) = Address(v) /\ w = prog.operands[s][1]
    BY <1>5 DEF StoredTo
  <2>2. /\ v \in Value /\ w \in Value /\ s \in Inst
        /\ Address(v) \in Value \cap prog.pointers
    BY <1>5, <2>1, KindIs DEF Value
  <2>3. PICK o : o \in R.to[Address(v)]
    BY <1>2, <2>2
  <2>4. o \in Object
    BY <1>1, <2>2, <2>3 DEF PointsToSets
  <2>5. R.to[w] \subseteq S.held[o] /\ o \in S.to[Address(v)] /\ R.to[w] \subseteq S.to[w]
    BY <1>1, <2>1, <2>2, <2>3, <2>4, RoundAdds
  <2>6. S.held[o] \subseteq U.to[v] /\ S.to[w] \subseteq U.to[w]
    BY <1>1, <1>5, <2>2, <2>4, <2>5, RoundAdds
  <2>7. R.to[w] # {}
    BY <1>2, <1>3, <2>2
  <2> QED
    BY <2>5, <2>6, <2>7
<1> QED
  BY <1>4, <1>5 DEF Aliased

\* AliasUnderApproximates: no alias edge joins pointers that a points-to
\* analysis, which ignores the order of instructions, tells apart.
THEOREM AliasesAreReal == DataSpec => []AliasUnderApproximates
<1>1. DataInv => AliasUnderApproximates
  BY AliasedMeet DEF DataInv, DataTyped, AliasSound, AliasUnderApproximates
<1> QED
  BY <1>1, DataInvHolds, PTL
=============================================================================
