--------------------------- MODULE ParamTree_proofs ---------------------------
(***************************************************************************)
(* Proofs about the trees of a parameter, for every set of debug types and *)
(* every depth: each finished tree is the whole tree that the types        *)
(* describe, and its size and its variables are what they should be.       *)
(*                                                                         *)
(* While a tree grows its queue holds the nodes without their children, in *)
(* the order of their levels: that is the invariant.  What a finished tree *)
(* is follows by going down from the root.                                 *)
(***************************************************************************)
EXTENDS ParamTree, FiniteSetTheorems, SequenceTheorems, WellFoundedInduction, TLAPS

Place == Seq(Nat)
MaybeType == DIType \cup {Null}

-----------------------------------------------------------------------------
(* The invariant. *)

\* DerivedAddr, for the types ty and the variables ad of any tree.
AddrFrom(ty, ad, p, t) ==
    LET parent  == ty[p]
        pointed == p # Top /\ IsStruct(parent) /\ IsStructPointer(ty[Front(p)])
        base    == ad[IF pointed THEN Front(p) ELSE p]
    IN IF t = Null THEN {}
       ELSE FieldAddr(base, t) \cup (IF IsStruct(parent) THEN {} ELSE LoadAddr(base))

\* p is the i-th child of q.
ChildAt(ty, ad, p, q, i) ==
    /\ p = Append(q, i)
    /\ i \in DOMAIN ChildTypes(ty[q])
    /\ ty[p] = ChildTypes(ty[q])[i]
    /\ ad[p] = AddrFrom(ty, ad, q, ty[p])

\* Every node but the root is the child of another.
Tree(ty, ad) ==
    /\ IsFiniteSet(DOMAIN ty)
    /\ DOMAIN ty \subseteq Place
    /\ ty = [p \in DOMAIN ty |-> ty[p]] /\ \A p \in DOMAIN ty : ty[p] \in MaybeType
    /\ ad = [p \in DOMAIN ty |-> ad[p]] /\ \A p \in DOMAIN ty : ad[p] \subseteq Val
    /\ Top \in DOMAIN ty /\ ty[Top] = in.root
    /\ \A p \in DOMAIN ty \ {Top} : \E q \in DOMAIN ty : \E i \in Nat : ChildAt(ty, ad, p, q, i)

\* A node has all children its type asks for.
Expanding(ty, p) == \A i \in DOMAIN ChildTypes(ty[p]) : Append(p, i) \in DOMAIN ty

\* A tree is complete down to the depth limit.
Grown(ty) ==
    \A p \in DOMAIN ty :
        Len(p) <= MaxTreeDepth /\ (Len(p) < MaxTreeDepth => Expanding(ty, p))

\* A queue q holds the nodes to be expanded: the first l are one level up.
Waiting(ty, q, n, l) ==
    /\ q \in Seq(Place) /\ IsInjective(q) /\ ToSet(q) \subseteq DOMAIN ty
    /\ \A j \in DOMAIN q : Len(q[j]) = IF j <= l THEN n - 1 ELSE n
    /\ \A p \in DOMAIN ty \ ToSet(q) : Len(p) < n /\ Expanding(ty, p)
    /\ \A p \in DOMAIN ty \ {Top} : Front(p) \notin ToSet(q)

\* What the size and the variables of a tree start from.
Starts(t) == IF t = "FORMALIN" /\ ~in.returned THEN Garbage ELSE {0}
RootVars(t) == IF t \in {"FORMALIN", "FORMALOUT"} THEN in.formal ELSE in.actual

Above(t) == {p \in Nodes(t) : Len(p) < MaxTreeDepth}

Typed ==
    /\ in \in Inputs
    /\ k \in 1 .. 4
    /\ pc \in {"new", "level", "expand", "done"}
    /\ level \in 0 .. MaxTreeDepth
    /\ left \in Nat
    /\ DOMAIN type = ToSet(Kind) /\ DOMAIN addr = ToSet(Kind)
    /\ size \in [ToSet(Kind) -> Int]

Growing ==
    /\ Tree(type[T], addr[T]) /\ addr[T][Top] = RootVars(T)
    /\ Waiting(type[T], queue, level, left)
    /\ left <= Len(queue)
    /\ \E n \in Starts(T) : size[T] = n + Cardinality(Nodes(T) \ ToSet(queue))

Complete(t) ==
    /\ Tree(type[t], addr[t]) /\ addr[t][Top] = RootVars(t)
    /\ Grown(type[t])
    /\ \E n \in Starts(t) : size[t] = n + Cardinality(Above(t))

IInv ==
    /\ Typed
    /\ pc \in {"level", "expand"} => Growing
    /\ pc \in {"new", "level"} => left = 0
    /\ pc = "done" => k = 4
    /\ \A t \in Finished : Complete(t)

-----------------------------------------------------------------------------
(* Places. *)

LEMMA ChildPlace ==
    ASSUME NEW p \in Place, NEW i \in Nat
    PROVE  /\ Append(p, i) \in Place /\ Append(p, i) # Top
           /\ Len(Append(p, i)) = Len(p) + 1 /\ Len(p) \in Nat
           /\ Front(Append(p, i)) = p /\ Last(Append(p, i)) = i
<1> DEFINE s == Append(p, i)
<1>1. /\ s \in Place /\ Len(s) = Len(p) + 1 /\ Len(p) \in Nat /\ s[Len(s)] = i
      /\ \A j \in 1 .. Len(p) : s[j] = p[j]
  BY DEF Place
<1>2. SubSeq(s, 1, Len(p)) = p
  BY <1>1 DEF Place
<1> QED
  BY <1>1, <1>2 DEF Front, Last, Top

LEMMA ChildPlaceUnique ==
    ASSUME NEW p \in Place, NEW q \in Place, NEW i \in Nat, NEW j \in Nat,
           Append(p, i) = Append(q, j)
    PROVE  p = q /\ i = j
<1>1. Front(Append(p, i)) = p /\ Last(Append(p, i)) = i
  BY ChildPlace
<1>2. Front(Append(q, j)) = q /\ Last(Append(q, j)) = j
  BY ChildPlace
<1> QED
  BY <1>1, <1>2

LEMMA TopPlace == Top \in Place /\ Len(Top) = 0
  BY DEF Top, Place

-----------------------------------------------------------------------------
(* Debug types. *)

\* What is reached from t along base, through the types in D.
Chain(X, D, base, t) ==
    {u \in X : \A S \in SUBSET X :
        t \in S /\ (\A x \in S \cap D : base[x] \in S) => u \in S}

\* base leads from the types in D to types of X, and not around in a circle.
Leads(X, D, base) ==
    /\ D \in SUBSET X
    /\ \A x \in D : base[x] \in X
    /\ \A S \in (SUBSET D) \ {{}} : \E x \in S : base[x] \notin S

LEMMA ChainNext ==
    ASSUME NEW X, NEW D, NEW base, Leads(X, D, base), NEW t \in X
    PROVE  /\ t \notin D => Chain(X, D, base, t) = {t}
           /\ t \in D => Chain(X, D, base, t) = {t} \cup Chain(X, D, base, base[t])
<1>0. /\ D \subseteq X /\ \A x \in D : base[x] \in X
      /\ \A S \in (SUBSET D) \ {{}} : \E x \in S : base[x] \notin S
  BY DEF Leads
<1> USE <1>0
<1>1. t \in Chain(X, D, base, t)
  BY DEF Chain
<1>2. CASE t \notin D
  <2>1. {t} \in SUBSET X /\ \A x \in {t} \cap D : base[x] \in {t}
    BY <1>2
  <2>2. Chain(X, D, base, t) \subseteq {t}
    BY <2>1 DEF Chain
  <2> QED
    BY <1>1, <1>2, <2>2
<1>3. CASE t \in D
  <2> DEFINE C == Chain(X, D, base, base[t])
  <2>1. C \in SUBSET X /\ base[t] \in C
    BY <1>3 DEF Chain
  <2>2. \A x \in C \cap D : base[x] \in C
    BY <1>3 DEF Chain
  <2>3. Chain(X, D, base, t) \subseteq {t} \cup C
    <3>1. {t} \cup C \in SUBSET X /\ \A x \in ({t} \cup C) \cap D : base[x] \in {t} \cup C
      BY <2>1, <2>2
    <3> QED
      BY <3>1 DEF Chain
  <2>4. C \subseteq Chain(X, D, base, t)
    <3> SUFFICES ASSUME NEW u \in C, NEW S \in SUBSET X, t \in S,
                        \A x \in S \cap D : base[x] \in S
                 PROVE  u \in S
      BY <2>1 DEF Chain
    <3>1. base[t] \in S
      BY <1>3
    <3> QED
      BY <3>1 DEF Chain
  <2> QED
    BY <1>1, <1>3, <2>3, <2>4
<1> QED
  BY <1>2, <1>3

\* So every chain has one end.
LEMMA ChainEnd ==
    ASSUME NEW X, NEW D, NEW base, Leads(X, D, base)
    PROVE  \A t \in X : \E e \in X : Chain(X, D, base, t) \ D = {e}
<1>0. /\ D \subseteq X /\ \A x \in D : base[x] \in X
      /\ \A S \in (SUBSET D) \ {{}} : \E x \in S : base[x] \notin S
  BY DEF Leads
<1> USE <1>0
<1> DEFINE Good(t) == \E e \in X : Chain(X, D, base, t) \ D = {e}
           Bad == {t \in X : ~Good(t)}
<1>1. \A t \in X : t \notin D => Good(t)
  BY ChainNext
<1>2. \A t \in D : Good(base[t]) => Good(t)
  <2> SUFFICES ASSUME NEW t \in D, Good(base[t]) PROVE Good(t)
    OBVIOUS
  <2>1. Chain(X, D, base, t) \ D = Chain(X, D, base, base[t]) \ D
    BY ChainNext
  <2> QED
    BY <2>1
<1> HIDE DEF Good
<1>3. Bad \in SUBSET D
  BY <1>1
<1>4. \A x \in Bad : base[x] \in Bad
  BY <1>2, <1>3
<1>5. Bad = {}
  BY <1>3, <1>4
<1> QED
  BY <1>5 DEF Good

\* A walk along base comes to an end, and the recursion is defined.
LEMMA WalkDefined ==
    ASSUME NEW X, NEW D, NEW base, Leads(X, D, base)
    PROVE  \E f : f = [t \in X |-> IF t \in D THEN f[base[t]] ELSE t]
<1>0. /\ D \subseteq X /\ \A x \in D : base[x] \in X
      /\ \A S \in (SUBSET D) \ {{}} : \E x \in S : base[x] \notin S
  BY DEF Leads
<1> USE <1>0
<1> DEFINE f == [t \in X |-> CHOOSE e \in X : Chain(X, D, base, t) \ D = {e}]
<1>1. \A t \in X : \E e \in X : Chain(X, D, base, t) \ D = {e}
  BY ChainEnd
<1>2. \A t \in X : Chain(X, D, base, t) \ D = {f[t]}
  BY <1>1
<1>3. \A t \in D : f[t] = f[base[t]]
  <2> SUFFICES ASSUME NEW t \in D PROVE f[t] = f[base[t]]
    OBVIOUS
  <2>1. Chain(X, D, base, t) \ D = Chain(X, D, base, base[t]) \ D
    BY ChainNext
  <2> HIDE DEF f
  <2> QED
    BY <1>2, <2>1
<1>4. \A t \in X \ D : f[t] = t
  <2> SUFFICES ASSUME NEW t \in X \ D PROVE f[t] = t
    OBVIOUS
  <2>1. Chain(X, D, base, t) \ D = {t}
    BY ChainNext
  <2> HIDE DEF f
  <2> QED
    BY <1>2, <2>1
<1>5. f = [t \in X |-> IF t \in D THEN f[base[t]] ELSE t]
  <2>1. f = [t \in X |-> f[t]]
    OBVIOUS
  <2> HIDE DEF f
  <2> QED
    BY <1>3, <1>4, <2>1
<1> QED
  BY <1>5

\* Where it ends is not a type of D.
LEMMA WalkTyped ==
    ASSUME NEW X, NEW D, NEW base, Leads(X, D, base),
           NEW f, f = [t \in X |-> IF t \in D THEN f[base[t]] ELSE t]
    PROVE  \A t \in X : f[t] \in X \ D
<1>0. /\ D \subseteq X /\ \A x \in D : base[x] \in X
      /\ \A S \in (SUBSET D) \ {{}} : \E x \in S : base[x] \notin S
  BY DEF Leads
<1> USE <1>0
<1> DEFINE Bad == {t \in D : f[t] \notin X \ D}
<1>1. \A t \in D : f[t] = f[base[t]]
  OBVIOUS
<1>2. \A t \in X \ D : f[t] = t
  OBVIOUS
<1>3. \A t \in Bad : base[t] \in Bad
  BY <1>1, <1>2
<1>4. Bad = {}
  BY <1>3
<1> QED
  BY <1>2, <1>4

LEMMA InputIs ==
    ASSUME in \in Inputs
    PROVE  /\ in.root \in MaybeType /\ in.formal \subseteq Val /\ in.actual \subseteq Val
           /\ in.tag \in [DIType -> Tag] /\ in.base \in [DIType -> MaybeType]
           /\ in.elems \in [DIType -> Seq(DIType)]
           /\ \A t \in DIType : in.tag[t] \in {"typedef", "member"} => in.base[t] \in DIType
           /\ \A S \in SUBSET DIType :
                 (\A t \in S : in.tag[t] \in DerivedTag) /\ S # {} => \E t \in S : in.base[t] \notin S
<1>1. WellFormed(in)
  BY InputsAssumption
<1>2. in \in InputRecord
  BY <1>1 DEF WellFormed
<1>3. in.base \in [DIType -> MaybeType]
  BY <1>2 DEF InputRecord, MaybeType
<1>4. \A t \in DIType : in.tag[t] \in {"typedef", "member"} => in.base[t] \in DIType
  BY <1>1, <1>3 DEF WellFormed, MaybeType
<1>5. \A S \in SUBSET DIType :
         (\A t \in S : in.tag[t] \in DerivedTag) /\ S # {} => \E t \in S : in.base[t] \notin S
  BY <1>1 DEF WellFormed
<1> QED
  BY <1>2, <1>3, <1>4, <1>5 DEF InputRecord, MaybeType

LEMMA StripIs ==
    ASSUME in \in Inputs
    PROVE  /\ StripAttributes \in [DIType -> DIType]
           /\ \A t \in DIType : in.tag[t] # "typedef" => StripAttributes[t] = t
<1> DEFINE D == {t \in DIType : in.tag[t] = "typedef"}
           base == in.base
<1>1. D \in SUBSET DIType /\ \A t \in D : base[t] \in DIType
  BY InputIs
<1>2. \A S \in (SUBSET D) \ {{}} : \E t \in S : base[t] \notin S
  BY InputIs DEF DerivedTag
<1>3. \A t \in DIType : t \in D <=> in.tag[t] = "typedef"
  OBVIOUS
<1>9. Leads(DIType, D, base)
  BY <1>1, <1>2 DEF Leads
<1>b. \A t \in DIType : base[t] = in.base[t]
  OBVIOUS
<1> HIDE DEF D, base
<1>4. PICK f : f = [t \in DIType |-> IF t \in D THEN f[base[t]] ELSE t]
  BY <1>9, WalkDefined
<1>5. f = [t \in DIType |-> IF in.tag[t] = "typedef" THEN f[in.base[t]] ELSE t]
  BY <1>3, <1>4, <1>b DEF MaybeType
<1>6. StripAttributes
         = [t \in DIType |-> IF in.tag[t] = "typedef" THEN StripAttributes[in.base[t]] ELSE t]
  BY <1>5 DEF StripAttributes
<1>7. StripAttributes = [t \in DIType |-> IF t \in D THEN StripAttributes[base[t]] ELSE t]
  BY <1>3, <1>6, <1>b DEF MaybeType
<1>8. \A t \in DIType : StripAttributes[t] \in DIType \ D
  BY <1>7, <1>9, WalkTyped
<1> QED
  BY <1>3, <1>6, <1>8

LEMMA LowestIs ==
    ASSUME in \in Inputs
    PROVE  Lowest \in [MaybeType -> MaybeType]
<1> DEFINE D == {t \in DIType : in.tag[t] \in DerivedTag}
           base == in.base
<1>1. D \in SUBSET MaybeType /\ \A t \in D : base[t] \in MaybeType
  BY InputIs DEF MaybeType
<1>2. \A S \in (SUBSET D) \ {{}} : \E t \in S : base[t] \notin S
  BY InputIs
<1>3. \A t \in MaybeType : t \in D <=> t # Null /\ Derived(t)
  BY NullAssumption DEF Derived, MaybeType
<1>9. Leads(MaybeType, D, base)
  BY <1>1, <1>2 DEF Leads
<1>b. \A t \in DIType : base[t] = in.base[t]
  OBVIOUS
<1> HIDE DEF D, base
<1>4. PICK f : f = [t \in MaybeType |-> IF t \in D THEN f[base[t]] ELSE t]
  BY <1>9, WalkDefined
<1>5. f = [t \in MaybeType |-> IF t # Null /\ Derived(t) THEN f[in.base[t]] ELSE t]
  BY <1>3, <1>4, <1>b DEF MaybeType
<1>6. Lowest = [t \in MaybeType |-> IF t # Null /\ Derived(t) THEN Lowest[in.base[t]] ELSE t]
  BY <1>5 DEF Lowest, MaybeType
<1>7. Lowest = [t \in MaybeType |-> IF t \in D THEN Lowest[base[t]] ELSE t]
  BY <1>3, <1>6, <1>b DEF MaybeType
<1>8. \A t \in MaybeType : Lowest[t] \in MaybeType \ D
  BY <1>7, <1>9, WalkTyped
<1> QED
  BY <1>6, <1>8

LEMMA ChildTypesTyped ==
    ASSUME in \in Inputs, NEW t \in MaybeType
    PROVE  ChildTypes(t) \in Seq(MaybeType)
<1>1. CASE t = Null
  BY <1>1 DEF ChildTypes
<1>2. CASE t # Null
  <2> DEFINE e == Expanded(t)
  <2>1. t \in DIType
    BY <1>2 DEF MaybeType
  <2>2. StripAttributes[t] \in DIType
    BY <2>1, StripIs
  <2>3. e \in DIType
    BY <2>2, InputIs DEF Expanded, StripMemberTag
  <2>4. <<Lowest[e]>> \in Seq(MaybeType)
    BY <2>3, LowestIs DEF MaybeType
  <2>5. in.elems[e] \in Seq(MaybeType)
    BY <2>3, InputIs DEF MaybeType
  <2>6. ChildTypes(t) \in {<<Lowest[e]>>, in.elems[e], <<>>}
    BY <1>2 DEF ChildTypes
  <2>7. <<>> \in Seq(MaybeType)
    OBVIOUS
  <2> QED
    BY <2>4, <2>5, <2>6, <2>7
<1> QED
  BY <1>1, <1>2

LEMMA StructChildTypes ==
    ASSUME in \in Inputs, NEW t \in MaybeType, IsStruct(t)
    PROVE  ChildTypes(t) = in.elems[t] /\ in.elems[t] \in Seq(DIType)
<1>1. t \in DIType /\ in.tag[t] = "struct" /\ t # Null
  BY NullAssumption DEF IsStruct, MaybeType
<1>2. StripAttributes[t] = t
  BY <1>1, StripIs
<1>3. Expanded(t) = t
  BY <1>1, <1>2 DEF Expanded, StripMemberTag
<1>4. in.elems[t] \in Seq(DIType)
  BY <1>1, InputIs
<1>5. CASE TRUE
  BY <1>1, <1>3, <1>4 DEF ChildTypes
<1> QED
  BY <1>5

-----------------------------------------------------------------------------
(* What a finished tree is. *)

LEMMA LeastNumber ==
    ASSUME NEW S \in SUBSET Nat, S # {}
    PROVE  \E m \in S : \A n \in S : m <= n
<1> DEFINE Less == OpToRel(<, Nat)
<1>1. IsWellFoundedOn(Less, Nat)
  BY NatLessThanWellFounded
<1>2. \A m, n \in Nat : n < m => <<n, m>> \in Less
  BY DEF OpToRel
<1> HIDE DEF Less
<1>3. PICK m \in S : \A n \in S : <<n, m>> \notin Less
  BY <1>1, WFMin
<1>4. \A n \in S : ~(n < m)
  BY <1>2, <1>3
<1> QED
  BY <1>4

\* A sequence of levels, each made from the one before.
Levels(X, F, c, N) ==
    {f \in [0 .. N -> X] : f[0] = c /\ \A n \in 1 .. N : f[n] = F[f[n - 1]]}

LEMMA LevelsDefined ==
    ASSUME NEW X, NEW F \in [X -> X], NEW c \in X, NEW N \in Nat
    PROVE  Levels(X, F, c, N) # {}
<1> DEFINE Bad == {n \in Nat : Levels(X, F, c, n) = {}}
<1> SUFFICES Bad = {}
  OBVIOUS
<1> SUFFICES ASSUME Bad # {} PROVE FALSE
  OBVIOUS
<1>1. PICK m \in Bad : \A n \in Bad : m <= n
  <2> HIDE DEF Bad
  <2>1. Bad \in SUBSET Nat
    BY DEF Bad
  <2> QED
    BY <2>1, LeastNumber
<1>2. m # 0
  <2> DEFINE f == [i \in 0 .. 0 |-> c]
  <2>1. f \in Levels(X, F, c, 0)
    BY DEF Levels
  <2> QED
    BY <1>1, <2>1
<1>3. m - 1 \in Nat /\ m - 1 \notin Bad
  BY <1>1, <1>2
<1>4. PICK g : g \in Levels(X, F, c, m - 1)
  BY <1>3
<1>5. /\ g \in [0 .. (m - 1) -> X] /\ g[0] = c
      /\ \A n \in 1 .. (m - 1) : g[n] = F[g[n - 1]]
  BY <1>4 DEF Levels
<1> DEFINE f == [i \in 0 .. m |-> IF i = m THEN F[g[m - 1]] ELSE g[i]]
<1>6. f \in [0 .. m -> X]
  BY <1>3, <1>5
<1>7. f[0] = c /\ \A n \in 1 .. m : f[n] = F[f[n - 1]]
  BY <1>1, <1>2, <1>3, <1>5
<1>8. f \in Levels(X, F, c, m)
  BY <1>6, <1>7 DEF Levels
<1> QED
  BY <1>1, <1>8

\* The children of typed places.
Below(S) ==
    UNION {{<<Append(x[1], i), ChildTypes(x[2])[i]>> : i \in DOMAIN ChildTypes(x[2])} : x \in S}

LEMMA BelowTyped ==
    ASSUME in \in Inputs, NEW S \in SUBSET (Place \X MaybeType)
    PROVE  Below(S) \in SUBSET (Place \X MaybeType)
<1> SUFFICES ASSUME NEW x \in S, NEW i \in DOMAIN ChildTypes(x[2])
             PROVE  <<Append(x[1], i), ChildTypes(x[2])[i]>> \in Place \X MaybeType
  BY DEF Below
<1>1. x[1] \in Place /\ x[2] \in MaybeType
  OBVIOUS
<1>2. ChildTypes(x[2]) \in Seq(MaybeType)
  BY <1>1, ChildTypesTyped
<1>3. i \in Nat /\ ChildTypes(x[2])[i] \in MaybeType
  BY <1>2
<1> QED
  BY <1>1, <1>3, ChildPlace

LEMMA ReferenceIs ==
    ASSUME in \in Inputs
    PROVE  /\ Reference[0] = {<<Top, in.root>>}
           /\ \A n \in 1 .. MaxTreeDepth :
                 Reference[n - 1] \subseteq Place \X MaybeType /\ Reference[n] = Below(Reference[n - 1])
<1> DEFINE X == SUBSET (Place \X MaybeType)
           F == [S \in X |-> Below(S)]
           c == {<<Top, in.root>>}
           N == MaxTreeDepth
<1>1. N \in Nat
  BY DepthAssumption
<1>2. F \in [X -> X] /\ \A S \in X : F[S] = Below(S)
  BY BelowTyped
<1>3. c \in X
  BY InputIs, TopPlace
<1> HIDE DEF X, F, c, N
<1>4. PICK f : f \in Levels(X, F, c, N)
  BY <1>1, <1>2, <1>3, LevelsDefined
<1>5. f \in [0 .. N -> X] /\ f[0] = c /\ \A n \in 1 .. N : f[n] = Below(f[n - 1])
  BY <1>1, <1>2, <1>4 DEF Levels
<1>6. f = [n \in 0 .. N |-> IF n = 0 THEN c ELSE Below(f[n - 1])]
  BY <1>1, <1>5
<1>7. Reference = [n \in 0 .. N |-> IF n = 0 THEN c ELSE Below(Reference[n - 1])]
  BY <1>6 DEF Reference, Below, c, N
<1>8. Reference[0] = c /\ \A n \in 1 .. N : Reference[n] = Below(Reference[n - 1])
  BY <1>1, <1>7
<1>9. \A n \in 0 .. N : Reference[n] \in X
  <2> DEFINE Bad == {n \in 0 .. N : Reference[n] \notin X}
  <2> SUFFICES ASSUME Bad # {} PROVE FALSE
    OBVIOUS
  <2>1. Bad \in SUBSET Nat
    BY <1>1
  <2>2. \A n \in Bad : n \in 0 .. N /\ Reference[n] \notin X
    OBVIOUS
  <2>3. \A n \in 0 .. N : n \notin Bad => Reference[n] \in X
    OBVIOUS
  <2> HIDE DEF Bad
  <2>4. PICK m \in Bad : \A n \in Bad : m <= n
    BY <2>1, LeastNumber
  <2>5. m # 0
    BY <1>3, <1>8, <2>2
  <2>6. m - 1 \in 0 .. N /\ m \in 1 .. N /\ ~(m <= m - 1)
    BY <1>1, <2>2, <2>5
  <2>7. Reference[m - 1] \in X
    BY <2>3, <2>4, <2>6
  <2>8. Reference[m] \in X
    BY <1>2, <1>8, <2>6, <2>7
  <2> QED
    BY <2>2, <2>8
<1>10. \A n \in 1 .. N : n - 1 \in 0 .. N
  BY <1>1
<1> QED
  BY <1>8, <1>9, <1>10 DEF X, c, N

LEMMA ChildIs ==
    ASSUME NEW ty, NEW ad, Tree(ty, ad), NEW p \in Place, NEW i \in Nat, Append(p, i) \in DOMAIN ty
    PROVE  p \in DOMAIN ty /\ ChildAt(ty, ad, Append(p, i), p, i)
<1>1. Append(p, i) # Top
  BY ChildPlace
<1>2. PICK q \in DOMAIN ty, j \in Nat : ChildAt(ty, ad, Append(p, i), q, j)
  BY <1>1 DEF Tree
<1>3. Append(p, i) = Append(q, j) /\ q \in Place
  BY <1>2 DEF ChildAt, Tree
<1>4. p = q /\ i = j
  BY <1>3, ChildPlaceUnique
<1> QED
  BY <1>2, <1>4

\* Every node is the root or the child of a node one level up.
LEMMA ParentIs ==
    ASSUME NEW ty, NEW ad, Tree(ty, ad), NEW p \in DOMAIN ty, p # Top
    PROVE  /\ Len(p) \in Nat \ {0}
           /\ \E q \in DOMAIN ty : \E i \in Nat :
                 q \in Place /\ Len(q) = Len(p) - 1 /\ Front(p) = q /\ ChildAt(ty, ad, p, q, i)
<1>1. PICK q \in DOMAIN ty, i \in Nat : ChildAt(ty, ad, p, q, i)
  BY DEF Tree
<1>2. q \in Place /\ p = Append(q, i)
  BY <1>1 DEF Tree, ChildAt
<1>3. Len(p) = Len(q) + 1 /\ Len(q) \in Nat /\ Front(p) = q
  BY <1>2, ChildPlace
<1> QED
  BY <1>1, <1>2, <1>3

LEMMA NodesReferenced ==
    ASSUME in \in Inputs, NEW ty, NEW ad, Tree(ty, ad), Grown(ty)
    PROVE  \A p \in DOMAIN ty : <<p, ty[p]>> \in Reference[Len(p)]
<1> DEFINE Wrong(p) == <<p, ty[p]>> \notin Reference[Len(p)]
           Bad == {n \in Nat : \E p \in DOMAIN ty : Len(p) = n /\ Wrong(p)}
<1>0. \A p \in DOMAIN ty : Len(p) \in Nat /\ Len(p) <= MaxTreeDepth
  BY TopPlace, ParentIs DEF Grown
<1> SUFFICES ASSUME Bad # {} PROVE FALSE
  BY <1>0
<1>1. PICK m \in Bad : \A n \in Bad : m <= n
  <2>1. Bad \in SUBSET Nat
    OBVIOUS
  <2> HIDE DEF Bad
  <2> QED
    BY <2>1, LeastNumber
<1>2. PICK p \in DOMAIN ty : Len(p) = m /\ Wrong(p)
  OBVIOUS
<1>3. p # Top
  BY <1>2, ReferenceIs, TopPlace DEF Tree
<1>4. PICK q \in DOMAIN ty, i \in Nat :
         q \in Place /\ Len(q) = Len(p) - 1 /\ ChildAt(ty, ad, p, q, i)
  BY <1>3, ParentIs
<1>5. Len(p) \in Nat \ {0} /\ m - 1 \in Nat /\ ~(m <= m - 1) /\ m \in 1 .. MaxTreeDepth
  BY <1>0, <1>2, <1>3, ParentIs, DepthAssumption
<1>6. ~Wrong(q)
  BY <1>1, <1>2, <1>4, <1>5
<1>7. <<q, ty[q]>> \in Reference[m - 1]
  BY <1>2, <1>4, <1>6
<1>8. p = Append(q, i) /\ i \in DOMAIN ChildTypes(ty[q]) /\ ty[p] = ChildTypes(ty[q])[i]
  BY <1>4 DEF ChildAt
<1>9. <<p, ty[p]>> \in Below(Reference[m - 1])
  <2> DEFINE x == <<q, ty[q]>>
  <2>1. x[1] = q /\ x[2] = ty[q]
    OBVIOUS
  <2> HIDE DEF x
  <2>2. <<p, ty[p]>> \in {<<Append(x[1], j), ChildTypes(x[2])[j]>> : j \in DOMAIN ChildTypes(x[2])}
    BY <1>8, <2>1
  <2> QED
    BY <1>7, <2>2 DEF Below, x
<1>10. <<p, ty[p]>> \in Reference[m]
  BY <1>5, <1>9, ReferenceIs
<1> QED
  BY <1>2, <1>10

LEMMA ReferenceNodes ==
    ASSUME in \in Inputs, NEW ty, NEW ad, Tree(ty, ad), Grown(ty)
    PROVE  \A n \in 0 .. MaxTreeDepth : \A x \in Reference[n] :
              x[1] \in DOMAIN ty /\ x = <<x[1], ty[x[1]]>>
<1> DEFINE Right(x, n) == x[1] \in DOMAIN ty /\ x = <<x[1], ty[x[1]]>> /\ Len(x[1]) = n
           Bad == {n \in 0 .. MaxTreeDepth : \E x \in Reference[n] : ~Right(x, n)}
<1> SUFFICES ASSUME Bad # {} PROVE FALSE
  OBVIOUS
<1>1. PICK m \in Bad : \A n \in Bad : m <= n
  <2>1. Bad \in SUBSET Nat
    BY DepthAssumption
  <2> HIDE DEF Bad
  <2> QED
    BY <2>1, LeastNumber
<1>2. PICK x \in Reference[m] : ~Right(x, m)
  OBVIOUS
<1>3. m # 0
  <2>1. Right(<<Top, in.root>>, 0)
    BY TopPlace DEF Tree
  <2> QED
    BY <1>2, <2>1, ReferenceIs
<1>4. m - 1 \in 0 .. MaxTreeDepth /\ m \in 1 .. MaxTreeDepth /\ ~(m <= m - 1) /\ m - 1 < MaxTreeDepth
  BY <1>3, DepthAssumption
<1>5. x \in Below(Reference[m - 1])
  BY <1>2, <1>4, ReferenceIs
<1>6. PICK y \in Reference[m - 1] : \E i \in DOMAIN ChildTypes(y[2]) :
         x = <<Append(y[1], i), ChildTypes(y[2])[i]>>
  BY <1>5 DEF Below
<1>7. PICK i \in DOMAIN ChildTypes(y[2]) : x = <<Append(y[1], i), ChildTypes(y[2])[i]>>
  BY <1>6
<1>8. Right(y, m - 1)
  BY <1>1, <1>4
<1>9. y[1] \in Place /\ y[2] \in MaybeType /\ y[2] = ty[y[1]]
  BY <1>8 DEF Tree
<1>10. i \in Nat
  BY <1>9, ChildTypesTyped
<1>11. Append(y[1], i) \in DOMAIN ty
  BY <1>4, <1>8, <1>9 DEF Grown, Expanding
<1>12. ty[Append(y[1], i)] = ChildTypes(y[2])[i]
  BY <1>9, <1>10, <1>11, ChildIs DEF ChildAt
<1>13. Len(Append(y[1], i)) = m
  <2>1. Len(Append(y[1], i)) = Len(y[1]) + 1
    BY <1>9, <1>10, ChildPlace
  <2>2. Len(y[1]) = m - 1
    BY <1>8
  <2> QED
    BY <1>4, <2>1, <2>2
<1> QED
  BY <1>2, <1>7, <1>11, <1>12, <1>13

\* So a finished tree is the whole tree of the types.
LEMMA WholeTree ==
    ASSUME in \in Inputs, NEW ty, NEW ad, Tree(ty, ad), Grown(ty)
    PROVE  {<<p, ty[p]>> : p \in DOMAIN ty} = UNION {Reference[n] : n \in 0 .. MaxTreeDepth}
<1>1. \A p \in DOMAIN ty : Len(p) \in 0 .. MaxTreeDepth
  BY TopPlace, ParentIs, DepthAssumption DEF Grown
<1> QED
  BY <1>1, NodesReferenced, ReferenceNodes

-----------------------------------------------------------------------------
(* The variables of a finished tree. *)

\* What holds of a place when it holds of all places above it holds of all.
LEMMA DownTheTree ==
    ASSUME NEW ty, NEW ad, Tree(ty, ad), NEW S,
           \A p \in DOMAIN ty : (\A q \in DOMAIN ty : Len(q) < Len(p) => q \in S) => p \in S
    PROVE  DOMAIN ty \subseteq S
<1> DEFINE Bad == {n \in Nat : \E p \in DOMAIN ty \ S : Len(p) = n}
<1>1. \A p \in DOMAIN ty : Len(p) \in Nat
  BY TopPlace, ParentIs
<1> SUFFICES ASSUME Bad # {} PROVE FALSE
  BY <1>1
<1>2. PICK m \in Bad : \A n \in Bad : m <= n
  <2>1. Bad \in SUBSET Nat
    OBVIOUS
  <2> HIDE DEF Bad
  <2> QED
    BY <2>1, LeastNumber
<1>3. PICK p \in DOMAIN ty \ S : Len(p) = m
  OBVIOUS
<1>4. \A q \in DOMAIN ty : Len(q) < m => q \in S
  BY <1>1, <1>2
<1> QED
  BY <1>3, <1>4

\* The parent of a place and what stands above that.
LEMMA AboveIs ==
    ASSUME NEW ty, NEW ad, Tree(ty, ad), NEW p \in DOMAIN ty, p # Top
    PROVE  \E q \in DOMAIN ty : \E i \in Nat :
              /\ q \in Place /\ p = Append(q, i) /\ ChildAt(ty, ad, p, q, i) /\ Len(q) < Len(p)
              /\ q # Top => Front(q) \in DOMAIN ty /\ Len(Front(q)) < Len(p)
<1>1. PICK q \in DOMAIN ty, i \in Nat :
         q \in Place /\ Len(q) = Len(p) - 1 /\ ChildAt(ty, ad, p, q, i)
  BY ParentIs
<1>2. Len(p) \in Nat \ {0}
  BY ParentIs
<1>3. q # Top => Front(q) \in DOMAIN ty /\ Len(Front(q)) = Len(q) - 1 /\ Len(q) \in Nat
  BY ParentIs
<1>4. p = Append(q, i)
  BY <1>1 DEF ChildAt
<1>5. Len(q) < Len(p) /\ (q # Top => Len(Front(q)) < Len(p))
  BY <1>1, <1>2, <1>3
<1> QED
  BY <1>1, <1>3, <1>4, <1>5

\* The variables of a child depend on its parent and what stands above that.
LEMMA AddrSame ==
    ASSUME NEW ty, NEW ad, NEW u, NEW b, NEW q, NEW t,
           ty[q] = u[q] /\ ad[q] = b[q],
           q # Top => ty[Front(q)] = u[Front(q)] /\ ad[Front(q)] = b[Front(q)]
    PROVE  AddrFrom(ty, ad, q, t) = AddrFrom(u, b, q, t)
<1>1. CASE q = Top
  BY <1>1 DEF AddrFrom
<1>2. CASE q # Top
  BY <1>2 DEF AddrFrom
<1> QED
  BY <1>1, <1>2

LEMMA SameVariables ==
    ASSUME NEW ty, NEW a, NEW b, Tree(ty, a), Tree(ty, b), a[Top] = b[Top]
    PROVE  a = b
<1> DEFINE S == {p \in DOMAIN ty : a[p] = b[p]}
<1>1. ASSUME NEW p \in DOMAIN ty, \A q \in DOMAIN ty : Len(q) < Len(p) => q \in S
      PROVE  p \in S
  <2>1. CASE p = Top
    BY <2>1
  <2>2. CASE p # Top
    <3>1. PICK q \in DOMAIN ty, i \in Nat :
             /\ q \in Place /\ p = Append(q, i) /\ ChildAt(ty, a, p, q, i) /\ Len(q) < Len(p)
             /\ q # Top => Front(q) \in DOMAIN ty /\ Len(Front(q)) < Len(p)
      BY <2>2, AboveIs
    <3>2. ChildAt(ty, b, p, q, i)
      BY <3>1, ChildIs
    <3>3. a[q] = b[q] /\ (q # Top => a[Front(q)] = b[Front(q)])
      BY <1>1, <3>1
    <3>4. AddrFrom(ty, a, q, ty[p]) = AddrFrom(ty, b, q, ty[p])
      BY <3>3, AddrSame
    <3> QED
      BY <3>1, <3>2, <3>4 DEF ChildAt
  <2> QED
    BY <2>1, <2>2
<1>2. DOMAIN ty \subseteq S
  <2> HIDE DEF S
  <2> QED
    BY <1>1, DownTheTree
<1>3. a = [p \in DOMAIN ty |-> a[p]] /\ b = [p \in DOMAIN ty |-> b[p]]
  BY DEF Tree
<1> QED
  BY <1>2, <1>3

\* Two finished trees with the same types and the same variables at the root.
LEMMA SameTrees ==
    ASSUME in \in Inputs, NEW t, NEW a, NEW u, NEW b, Tree(t, a), Tree(u, b),
           Grown(t), Grown(u), a[Top] = b[Top]
    PROVE  a = b
<1>1. {<<p, t[p]>> : p \in DOMAIN t} = {<<p, u[p]>> : p \in DOMAIN u}
  BY WholeTree
<1>2. DOMAIN t = DOMAIN u /\ \A p \in DOMAIN t : t[p] = u[p]
  <2>1. ASSUME NEW p \in DOMAIN t PROVE p \in DOMAIN u /\ t[p] = u[p]
    <3>1. PICK q \in DOMAIN u : <<p, t[p]>> = <<q, u[q]>>
      BY <1>1
    <3> QED
      BY <3>1
  <2>2. ASSUME NEW p \in DOMAIN u PROVE p \in DOMAIN t
    <3>1. PICK q \in DOMAIN t : <<p, u[p]>> = <<q, t[q]>>
      BY <1>1
    <3> QED
      BY <3>1
  <2> QED
    BY <2>1, <2>2
<1>3. t = [p \in DOMAIN t |-> t[p]] /\ u = [p \in DOMAIN u |-> u[p]]
  BY DEF Tree
<1>4. t = u
  BY <1>2, <1>3
<1> QED
  BY <1>4, SameVariables

LEMMA AddrWithin ==
    ASSUME NEW ty, NEW ad, NEW q, NEW t, NEW V \in SUBSET Val,
           LoadAddr(V) \subseteq V, Geps(V) \subseteq V,
           ad[q] \subseteq V, q # Top => ad[Front(q)] \subseteq V
    PROVE  AddrFrom(ty, ad, q, t) \subseteq V
<1>1. ASSUME NEW B \in SUBSET V
      PROVE  LoadAddr(B) \subseteq V /\ FieldAddr(B, t) \subseteq V
  BY DEF LoadAddr, FieldAddr, Geps
<1> DEFINE pointed == q # Top /\ IsStruct(ty[q]) /\ IsStructPointer(ty[Front(q)])
           base    == ad[IF pointed THEN Front(q) ELSE q]
<1>2. base \in SUBSET V
  OBVIOUS
<1>3. LoadAddr(base) \subseteq V /\ FieldAddr(base, t) \subseteq V
  <2> HIDE DEF base
  <2> QED
    BY <1>1, <1>2
<1>4. AddrFrom(ty, ad, q, t) \subseteq FieldAddr(base, t) \cup LoadAddr(base)
  BY DEF AddrFrom
<1> QED
  BY <1>3, <1>4

LEMMA AddrComputed ==
    ASSUME NEW ty, NEW ad, Tree(ty, ad)
    PROVE  UNION {ad[p] : p \in DOMAIN ty} \subseteq Computed(ad[Top])
<1>1. \A p \in DOMAIN ty : ad[p] \subseteq Val
  BY DEF Tree
<1> SUFFICES ASSUME NEW V \in SUBSET Val, ad[Top] \cup LoadAddr(V) \cup Geps(V) \subseteq V
             PROVE  \A p \in DOMAIN ty : ad[p] \subseteq V
  BY <1>1 DEF Computed
<1> DEFINE S == {p \in DOMAIN ty : ad[p] \subseteq V}
<1>2. ASSUME NEW p \in DOMAIN ty, \A q \in DOMAIN ty : Len(q) < Len(p) => q \in S
      PROVE  p \in S
  <2>1. CASE p = Top
    BY <2>1
  <2>2. CASE p # Top
    <3>1. PICK q \in DOMAIN ty, i \in Nat :
             /\ q \in Place /\ p = Append(q, i) /\ ChildAt(ty, ad, p, q, i) /\ Len(q) < Len(p)
             /\ q # Top => Front(q) \in DOMAIN ty /\ Len(Front(q)) < Len(p)
      BY <2>2, AboveIs
    <3>2. ad[q] \subseteq V /\ (q # Top => ad[Front(q)] \subseteq V)
      BY <1>2, <3>1
    <3>3. AddrFrom(ty, ad, q, ty[p]) \subseteq V
      BY <3>2, AddrWithin
    <3> QED
      BY <3>1, <3>3 DEF ChildAt
  <2> QED
    BY <2>1, <2>2
<1>3. DOMAIN ty \subseteq S
  <2> HIDE DEF S
  <2> QED
    BY <1>2, DownTheTree
<1> QED
  BY <1>3

\* The places below a node are its children.
LEMMA ChildrenAre ==
    ASSUME in \in Inputs, NEW t, Tree(type[t], addr[t]), NEW x \in Nodes(t), NEW y \in Children(t, x)
    PROVE  /\ x \in Place /\ y \in Nodes(t) /\ Front(y) = x /\ y # Top
           /\ addr[t][y] = AddrFrom(type[t], addr[t], x, type[t][y])
<1>1. PICK n \in DOMAIN ChildTypes(type[t][x]) : y = Append(x, n) /\ y \in Nodes(t)
  BY DEF Children
<1>2. x \in Place /\ type[t][x] \in MaybeType
  BY DEF Tree, Nodes
<1>3. n \in Nat
  BY <1>2, ChildTypesTyped
<1>4. ChildAt(type[t], addr[t], y, x, n)
  BY <1>1, <1>2, <1>3, ChildIs DEF Nodes
<1>5. Front(y) = x /\ y # Top
  BY <1>1, <1>2, <1>3, ChildPlace
<1> QED
  BY <1>1, <1>2, <1>4, <1>5 DEF ChildAt

\* The variables of a part are taken from those of the place that it is part of.
LEMMA PartIs ==
    ASSUME in \in Inputs, NEW t, Tree(type[t], addr[t]), NEW q \in Nodes(t), NEW p \in PartsOf(t, q),
           type[t][p] # Null
    PROVE  addr[t][p] = FieldAddr(addr[t][q], type[t][p])
                        \cup (IF IsStruct(type[t][Front(p)]) THEN {} ELSE LoadAddr(addr[t][q]))
<1>1. CASE /\ p \in Children(t, q)
           /\ ~(q # Top /\ IsStruct(type[t][q]) /\ IsStructPointer(type[t][Front(q)]))
  <2>1. Front(p) = q /\ addr[t][p] = AddrFrom(type[t], addr[t], q, type[t][p])
    BY <1>1, ChildrenAre
  <2> QED
    BY <1>1, <2>1 DEF AddrFrom
<1>2. CASE \E c \in Children(t, q) :
              IsStruct(type[t][c]) /\ IsStructPointer(type[t][q]) /\ p \in Children(t, c)
  <2>1. PICK c \in Children(t, q) :
           IsStruct(type[t][c]) /\ IsStructPointer(type[t][q]) /\ p \in Children(t, c)
    BY <1>2
  <2>2. c \in Nodes(t) /\ c # Top /\ Front(c) = q
    BY ChildrenAre
  <2>3. Front(p) = c /\ addr[t][p] = AddrFrom(type[t], addr[t], c, type[t][p])
    BY <2>1, <2>2, ChildrenAre
  <2> QED
    BY <2>1, <2>2, <2>3 DEF AddrFrom
<1> QED
  BY <1>1, <1>2 DEF PartsOf

\* A node has all that is accessed at its place.
LEMMA NoneLost ==
    ASSUME in \in Inputs, NEW t, Tree(type[t], addr[t]), NEW q \in Nodes(t), NEW p \in PartsOf(t, q),
           type[t][p] # Null
    PROVE  Accessed(t, q, p) \subseteq addr[t][p]
<1>1. addr[t][p] = FieldAddr(addr[t][q], type[t][p])
                   \cup (IF IsStruct(type[t][Front(p)]) THEN {} ELSE LoadAddr(addr[t][q]))
  BY PartIs
<1> QED
  BY <1>1 DEF Accessed, FieldAddr, LoadAddr, Geps

\* Fields at different offsets share no variable.
LEMMA SiblingsApart ==
    ASSUME in \in Inputs, NEW ty, NEW ad, Tree(ty, ad), NEW p \in DOMAIN ty, IsStruct(ty[p]),
           NEW i \in DOMAIN in.elems[ty[p]], NEW j \in DOMAIN in.elems[ty[p]],
           {Append(p, i), Append(p, j)} \subseteq DOMAIN ty,
           in.offset[in.elems[ty[p]][i]] # in.offset[in.elems[ty[p]][j]]
    PROVE  ad[Append(p, i)] \cap ad[Append(p, j)] = {}
<1> DEFINE m == in.elems[ty[p]]
<1>1. ty[p] \in MaybeType /\ p \in Place
  BY DEF Tree
<1>2. ChildTypes(ty[p]) = m /\ m \in Seq(DIType)
  BY <1>1, StructChildTypes
<1>3. ASSUME NEW n \in DOMAIN m, Append(p, n) \in DOMAIN ty
      PROVE  \A g \in ad[Append(p, n)] : in.at[g] = in.offset[m[n]]
  <2>1. n \in Nat
    BY <1>2, <1>3
  <2>2. ChildAt(ty, ad, Append(p, n), p, n)
    BY <1>1, <1>3, <2>1, ChildIs
  <2>3. ty[Append(p, n)] = m[n] /\ ad[Append(p, n)] = AddrFrom(ty, ad, p, m[n])
    BY <1>2, <2>2 DEF ChildAt
  <2> QED
    BY <2>3 DEF AddrFrom, FieldAddr
<1> QED
  BY <1>3

-----------------------------------------------------------------------------
(* Expanding a node. *)

\* The head of the queue q gets its children.
Expands(ty, ad, q, ty2, ad2, q2) ==
    LET p        == Head(q)
        children == ChildTypes(ty[p])
        new      == {Append(p, i) : i \in DOMAIN children}
    IN /\ q2 = Tail(q) \o [i \in DOMAIN children |-> Append(p, i)]
       /\ ty2 = [x \in DOMAIN ty \cup new |-> IF x \in new THEN children[Last(x)] ELSE ty[x]]
       /\ ad2 = [x \in DOMAIN ty \cup new |->
                    IF x \in new THEN AddrFrom(ty, ad, p, children[Last(x)]) ELSE ad[x]]

\* The same, said of p and its children.
ExpandsAt(ty, ad, q, ty2, ad2, q2, p, m, new) ==
    /\ p = q[1] /\ p \in DOMAIN ty /\ p \in Place
    /\ ChildTypes(ty[p]) \in Seq(MaybeType) /\ m = Len(ChildTypes(ty[p])) /\ m \in Nat
    /\ new = {Append(p, i) : i \in 1 .. m}
    /\ \A x \in new : x \notin DOMAIN ty /\ x \in Place /\ x # Top /\ Front(x) = p
    /\ DOMAIN ty2 = DOMAIN ty \cup new /\ DOMAIN ad2 = DOMAIN ty \cup new
    /\ ty2 = [x \in DOMAIN ty2 |-> ty2[x]] /\ ad2 = [x \in DOMAIN ty2 |-> ad2[x]]
    /\ \A x \in DOMAIN ty : ty2[x] = ty[x] /\ ad2[x] = ad[x]
    /\ \A i \in 1 .. m : /\ ty2[Append(p, i)] = ChildTypes(ty[p])[i]
                         /\ ad2[Append(p, i)] = AddrFrom(ty, ad, p, ChildTypes(ty[p])[i])
    /\ q2 \in Seq(Place) /\ Len(q2) = Len(q) - 1 + m
    /\ \A j \in 1 .. Len(q) - 1 : q2[j] = q[j + 1]
    /\ \A j \in Len(q) .. Len(q) - 1 + m : q2[j] = Append(p, j - (Len(q) - 1))

LEMMA JoinIs ==
    ASSUME NEW X, NEW s \in Seq(X), NEW t \in Seq(X)
    PROVE  /\ s \o t \in Seq(X) /\ Len(s \o t) = Len(s) + Len(t)
           /\ \A j \in 1 .. Len(s) + Len(t) :
                 (s \o t)[j] = IF j <= Len(s) THEN s[j] ELSE t[j - Len(s)]
  OBVIOUS

LEMMA ExpandsIs ==
    ASSUME in \in Inputs, NEW ty, NEW ad, NEW q, NEW ty2, NEW ad2, NEW q2,
           NEW n, NEW l, Tree(ty, ad), Waiting(ty, q, n, l), q # <<>>,
           Expands(ty, ad, q, ty2, ad2, q2)
    PROVE  \E p, m, new : ExpandsAt(ty, ad, q, ty2, ad2, q2, p, m, new)
<1> DEFINE p == Head(q)
           children == ChildTypes(ty[p])
           m == Len(children)
           new == {Append(p, i) : i \in DOMAIN children}
           places == [i \in DOMAIN children |-> Append(p, i)]
<1>1. q \in Seq(Place) /\ p = q[1] /\ Len(q) \in Nat \ {0}
  BY DEF Waiting, Place
<1>2. p \in ToSet(q) /\ p \in DOMAIN ty /\ p \in Place /\ ty[p] \in MaybeType
  BY <1>1 DEF ToSet, Waiting, Tree
<1>3. children \in Seq(MaybeType)
  BY <1>2, ChildTypesTyped
<1>4. DOMAIN children = 1 .. m /\ m \in Nat
  BY <1>3
<1> HIDE DEF p, children
<1>5. new = {Append(p, i) : i \in 1 .. m}
  BY <1>4
<1>6. \A i \in 1 .. m :
         Append(p, i) \in Place /\ Append(p, i) # Top /\ Front(Append(p, i)) = p /\ Last(Append(p, i)) = i
  BY <1>2, <1>4, ChildPlace
<1>7. \A x \in new : x \in Place /\ x # Top /\ Front(x) = p
  BY <1>5, <1>6
<1>8. \A x \in new : x \notin DOMAIN ty
  BY <1>2, <1>7 DEF Waiting
<1>9. /\ q2 = Tail(q) \o places
      /\ ty2 = [x \in DOMAIN ty \cup new |-> IF x \in new THEN children[Last(x)] ELSE ty[x]]
      /\ ad2 = [x \in DOMAIN ty \cup new |->
                    IF x \in new THEN AddrFrom(ty, ad, p, children[Last(x)]) ELSE ad[x]]
  BY DEF Expands, p, children
<1>10. /\ \A x \in DOMAIN ty : ty2[x] = ty[x] /\ ad2[x] = ad[x]
       /\ DOMAIN ty2 = DOMAIN ty \cup new /\ DOMAIN ad2 = DOMAIN ty \cup new
  <2> HIDE DEF new
  <2> QED
    BY <1>8, <1>9
<1>11. /\ ty2 = [x \in DOMAIN ty2 |-> ty2[x]]
       /\ ad2 = [x \in DOMAIN ty2 |-> ad2[x]]
  <2> HIDE DEF new
  <2> QED
    BY <1>9
<1>12. \A i \in 1 .. m : /\ ty2[Append(p, i)] = children[i]
                         /\ ad2[Append(p, i)] = AddrFrom(ty, ad, p, children[i])
  <2> SUFFICES ASSUME NEW i \in 1 .. m
               PROVE  /\ ty2[Append(p, i)] = children[i]
                      /\ ad2[Append(p, i)] = AddrFrom(ty, ad, p, children[i])
    OBVIOUS
  <2>1. Append(p, i) \in new
    BY <1>5
  <2>2. Last(Append(p, i)) = i
    BY <1>6
  <2> HIDE DEF new
  <2> QED
    BY <1>9, <2>1, <2>2
<1>13. places \in Seq(Place) /\ Len(places) = m /\ \A i \in 1 .. m : places[i] = Append(p, i)
  BY <1>4, <1>6
<1>14. /\ Tail(q) \in Seq(Place) /\ Len(Tail(q)) = Len(q) - 1
       /\ \A j \in 1 .. Len(q) - 1 : Tail(q)[j] = q[j + 1]
  BY <1>1
<1>15. /\ q2 \in Seq(Place) /\ Len(q2) = Len(q) - 1 + m
       /\ \A j \in 1 .. Len(q) - 1 : q2[j] = q[j + 1]
       /\ \A j \in Len(q) .. Len(q) - 1 + m : q2[j] = Append(p, j - (Len(q) - 1))
  <2> HIDE DEF places
  <2> DEFINE s == Tail(q)
  <2>1. s \in Seq(Place) /\ Len(s) = Len(q) - 1 /\ \A j \in 1 .. Len(q) - 1 : s[j] = q[j + 1]
    BY <1>14
  <2>2. q2 = s \o places
    BY <1>9
  <2> HIDE DEF s
  <2>3. /\ q2 \in Seq(Place) /\ Len(q2) = Len(s) + Len(places)
        /\ \A j \in 1 .. Len(s) + Len(places) :
              q2[j] = IF j <= Len(s) THEN s[j] ELSE places[j - Len(s)]
    <3>1. s \in Seq(Place) /\ places \in Seq(Place)
      BY <1>13, <2>1
    <3> QED
      BY <2>2, <3>1, JoinIs, Zenon
  <2>4. \A j \in 1 .. Len(q) - 1 : q2[j] = q[j + 1]
    BY <1>1, <1>4, <1>13, <2>1, <2>3
  <2>5. ASSUME NEW j \in Len(q) .. Len(q) - 1 + m PROVE q2[j] = Append(p, j - (Len(q) - 1))
    <3>1. j \in 1 .. Len(s) + Len(places) /\ ~(j <= Len(s)) /\ j - Len(s) \in 1 .. m
      BY <1>1, <1>4, <1>13, <2>1
    <3>2. q2[j] = places[j - Len(s)]
      BY <2>3, <3>1
    <3> QED
      BY <1>13, <2>1, <3>1, <3>2
  <2> QED
    BY <1>13, <2>1, <2>3, <2>4, <2>5
<1> WITNESS p, m, new
<1> QED
  BY <1>1, <1>2, <1>3, <1>4, <1>5, <1>7, <1>8, <1>10, <1>11, <1>12, <1>15 DEF ExpandsAt, children

LEMMA FiniteChildren ==
    ASSUME NEW p, NEW m \in Nat
    PROVE  IsFiniteSet({Append(p, i) : i \in 1 .. m})
<1> DEFINE S == 1 .. m
           f == [i \in S |-> Append(p, i)]
           new == {Append(p, i) : i \in S}
<1>1. IsFiniteSet(S)
  BY FS_Interval
<1>2. f \in Surjection(S, new)
  BY DEF Surjection
<1> HIDE DEF S, f, new
<1>3. IsFiniteSet(new)
  BY <1>1, <1>2, FS_Surjection
<1> QED
  BY <1>3 DEF new, S

LEMMA ExpandsTree ==
    ASSUME NEW ty, NEW ad, NEW q, NEW ty2, NEW ad2, NEW q2, NEW p, NEW m, NEW new,
           Tree(ty, ad), ExpandsAt(ty, ad, q, ty2, ad2, q2, p, m, new)
    PROVE  Tree(ty2, ad2) /\ ad2[Top] = ad[Top]
<1>1. /\ p \in DOMAIN ty /\ m \in Nat /\ new = {Append(p, i) : i \in 1 .. m}
      /\ DOMAIN ty2 = DOMAIN ty \cup new
      /\ \A x \in new : x \in Place
      /\ \A x \in DOMAIN ty : ty2[x] = ty[x] /\ ad2[x] = ad[x]
  BY DEF ExpandsAt
<1>2. \A i \in 1 .. m : /\ i \in Nat /\ i \in DOMAIN ChildTypes(ty[p])
                       /\ ChildTypes(ty[p])[i] \in MaybeType
                       /\ ty2[Append(p, i)] = ChildTypes(ty[p])[i]
                       /\ ad2[Append(p, i)] = AddrFrom(ty, ad, p, ChildTypes(ty[p])[i])
  <2>1. /\ ChildTypes(ty[p]) \in Seq(MaybeType) /\ m = Len(ChildTypes(ty[p]))
        /\ \A i \in 1 .. m : /\ ty2[Append(p, i)] = ChildTypes(ty[p])[i]
                             /\ ad2[Append(p, i)] = AddrFrom(ty, ad, p, ChildTypes(ty[p])[i])
    BY DEF ExpandsAt
  <2> QED
    BY <2>1
<1>3. IsFiniteSet(DOMAIN ty2)
  <2>1. IsFiniteSet(new)
    BY <1>1, FiniteChildren
  <2>2. IsFiniteSet(DOMAIN ty)
    BY DEF Tree
  <2>3. DOMAIN ty2 = DOMAIN ty \cup new
    BY <1>1
  <2> QED
    BY <2>1, <2>2, <2>3, FS_Union, Zenon
<1>4. DOMAIN ty2 \subseteq Place
  BY <1>1 DEF Tree
<1>5. ASSUME NEW x \in DOMAIN ty, NEW t
      PROVE  AddrFrom(ty, ad, x, t) = AddrFrom(ty2, ad2, x, t)
  <2>1. x # Top => Front(x) \in DOMAIN ty
    BY ParentIs
  <2> QED
    BY <1>1, <2>1, AddrSame
<1>6. ASSUME NEW x \in DOMAIN ty2
      PROVE  ty2[x] \in MaybeType /\ ad2[x] \subseteq Val
  <2>1. CASE x \in DOMAIN ty
    BY <1>1, <2>1 DEF Tree
  <2>2. CASE x \in new
    <3>1. PICK i \in 1 .. m : x = Append(p, i)
      BY <1>1, <2>2
    <3>2. ty2[x] \in MaybeType /\ ad2[x] = AddrFrom(ty, ad, p, ty2[x])
      BY <1>2, <3>1
    <3>3. AddrFrom(ty, ad, p, ty2[x]) \subseteq Val
      BY DEF AddrFrom, FieldAddr, LoadAddr, Geps
    <3> QED
      BY <3>2, <3>3
  <2> QED
    BY <1>1, <2>1, <2>2
<1>7. ASSUME NEW x \in DOMAIN ty2 \ {Top}
      PROVE  \E y \in DOMAIN ty2 : \E i \in Nat : ChildAt(ty2, ad2, x, y, i)
  <2>1. CASE x \in DOMAIN ty
    <3>1. PICK y \in DOMAIN ty, i \in Nat : ChildAt(ty, ad, x, y, i)
      BY <2>1 DEF Tree
    <3>2. ty2[x] = ty[x] /\ ad2[x] = ad[x] /\ ty2[y] = ty[y] /\ y \in DOMAIN ty2
      BY <1>1, <2>1
    <3>3. AddrFrom(ty, ad, y, ty[x]) = AddrFrom(ty2, ad2, y, ty[x])
      BY <1>5
    <3>4. ChildAt(ty2, ad2, x, y, i)
      BY <3>1, <3>2, <3>3 DEF ChildAt
    <3> QED
      BY <3>2, <3>4
  <2>2. CASE x \in new
    <3>1. PICK i \in 1 .. m : x = Append(p, i)
      BY <1>1, <2>2
    <3>2. ty2[p] = ty[p] /\ p \in DOMAIN ty2
      BY <1>1
    <3>3. AddrFrom(ty, ad, p, ChildTypes(ty[p])[i]) = AddrFrom(ty2, ad2, p, ChildTypes(ty[p])[i])
      BY <1>1, <1>5
    <3>4. ChildAt(ty2, ad2, x, p, i) /\ i \in Nat
      BY <1>2, <3>1, <3>2, <3>3 DEF ChildAt
    <3> QED
      BY <3>2, <3>4
  <2> QED
    BY <1>1, <2>1, <2>2
<1>8. Top \in DOMAIN ty2 /\ ty2[Top] = in.root /\ ad2[Top] = ad[Top]
  BY <1>1 DEF Tree
<1>9. ty2 = [x \in DOMAIN ty2 |-> ty2[x]] /\ ad2 = [x \in DOMAIN ty2 |-> ad2[x]]
  BY DEF ExpandsAt
<1> QED
  BY <1>3, <1>4, <1>6, <1>7, <1>8, <1>9, Zenon DEF Tree

\* The queue loses its head and gains the new places.
LEMMA ExpandsQueue ==
    ASSUME NEW ty, NEW ad, NEW q, NEW ty2, NEW ad2, NEW q2, NEW p, NEW m, NEW new, NEW n, NEW l,
           Waiting(ty, q, n, l), q # <<>>, ExpandsAt(ty, ad, q, ty2, ad2, q2, p, m, new)
    PROVE  /\ ToSet(q2) = (ToSet(q) \ {p}) \cup new
           /\ p \in ToSet(q)
           /\ IsInjective(q2)
<1>1. /\ q \in Seq(Place) /\ Len(q) \in Nat \ {0} /\ DOMAIN q = 1 .. Len(q) /\ p = q[1]
      /\ \A i, j \in 1 .. Len(q) : q[i] = q[j] => i = j
      /\ \A j \in 1 .. Len(q) : q[j] \in DOMAIN ty
  BY DEF Waiting, ExpandsAt, IsInjective, ToSet
<1>2. /\ m \in Nat /\ new = {Append(p, i) : i \in 1 .. m} /\ p \in Place
      /\ \A x \in new : x \notin DOMAIN ty
      /\ DOMAIN q2 = 1 .. Len(q) - 1 + m
      /\ \A j \in 1 .. Len(q) - 1 : q2[j] = q[j + 1]
      /\ \A j \in Len(q) .. Len(q) - 1 + m : q2[j] = Append(p, j - (Len(q) - 1))
  BY DEF ExpandsAt
<1>3. \A j \in 1 .. Len(q) - 1 : q2[j] \in ToSet(q) \ {p}
  <2> SUFFICES ASSUME NEW j \in 1 .. Len(q) - 1 PROVE q2[j] \in ToSet(q) /\ q2[j] # p
    OBVIOUS
  <2>1. j + 1 \in 1 .. Len(q) /\ 1 \in 1 .. Len(q) /\ j + 1 # 1
    BY <1>1
  <2>2. q2[j] = q[j + 1] /\ q[j + 1] # q[1]
    BY <1>1, <1>2, <2>1
  <2>3. q[j + 1] \in ToSet(q)
    BY <1>1, <2>1 DEF ToSet
  <2> QED
    BY <1>1, <2>2, <2>3
<1>4. \A j \in Len(q) .. Len(q) - 1 + m : q2[j] \in new
  BY <1>1, <1>2
<1>5. ToSet(q2) \subseteq (ToSet(q) \ {p}) \cup new
  <2>1. \A j \in DOMAIN q2 : j \in 1 .. Len(q) - 1 \/ j \in Len(q) .. Len(q) - 1 + m
    BY <1>1, <1>2
  <2>2. \A j \in DOMAIN q2 : q2[j] \in (ToSet(q) \ {p}) \cup new
    BY <1>3, <1>4, <2>1
  <2> QED
    BY <2>2 DEF ToSet
<1>6. ASSUME NEW x \in ToSet(q) \ {p} PROVE x \in ToSet(q2)
  <2>1. PICK j \in 1 .. Len(q) : x = q[j]
    BY <1>1 DEF ToSet
  <2>2. j - 1 \in 1 .. Len(q) - 1 /\ (j - 1) + 1 = j
    BY <1>1, <2>1
  <2>3. q2[j - 1] = x /\ j - 1 \in DOMAIN q2
    BY <1>1, <1>2, <2>1, <2>2
  <2> QED
    BY <2>3 DEF ToSet
<1>7. ASSUME NEW x \in new PROVE x \in ToSet(q2)
  <2>1. PICK i \in 1 .. m : x = Append(p, i)
    BY <1>2
  <2> DEFINE j == Len(q) - 1 + i
  <2>2. j \in Len(q) .. Len(q) - 1 + m /\ j - (Len(q) - 1) = i /\ j \in DOMAIN q2
    BY <1>1, <1>2
  <2> HIDE DEF j
  <2>3. q2[j] = x
    BY <1>2, <2>1, <2>2
  <2> QED
    BY <2>2, <2>3 DEF ToSet
<1>8. p \in ToSet(q)
  BY <1>1 DEF ToSet
<1>9. \A i, j \in 1 .. Len(q) - 1 : q2[i] = q2[j] => i = j
  BY <1>1, <1>2
<1>10. ASSUME NEW i \in Len(q) .. Len(q) - 1 + m, NEW j \in Len(q) .. Len(q) - 1 + m, q2[i] = q2[j]
       PROVE  i = j
  <2>1. i - (Len(q) - 1) \in Nat /\ j - (Len(q) - 1) \in Nat
    BY <1>1, <1>2
  <2>2. Append(p, i - (Len(q) - 1)) = Append(p, j - (Len(q) - 1))
    BY <1>2, <1>10
  <2>3. i - (Len(q) - 1) = j - (Len(q) - 1)
    BY <1>2, <2>1, <2>2, ChildPlaceUnique
  <2> QED
    BY <1>1, <1>2, <2>3
<1>11. \A i \in 1 .. Len(q) - 1 : \A j \in Len(q) .. Len(q) - 1 + m : q2[i] # q2[j]
  <2>1. \A i \in 1 .. Len(q) - 1 : q2[i] \in DOMAIN ty
    BY <1>1, <1>2
  <2> QED
    BY <1>2, <1>4, <2>1
<1>12. \A j \in DOMAIN q2 : j \in 1 .. Len(q) - 1 \/ j \in Len(q) .. Len(q) - 1 + m
  BY <1>1, <1>2
<1>13. IsInjective(q2)
  BY <1>9, <1>10, <1>11, <1>12 DEF IsInjective
<1> QED
  BY <1>5, <1>6, <1>7, <1>8, <1>13

LEMMA ExpandsWaiting ==
    ASSUME NEW ty, NEW ad, NEW q, NEW ty2, NEW ad2, NEW q2, NEW p, NEW m, NEW new,
           NEW n \in Nat, NEW l \in Nat \ {0}, l <= Len(q), Tree(ty, ad),
           Waiting(ty, q, n, l), q # <<>>, ExpandsAt(ty, ad, q, ty2, ad2, q2, p, m, new)
    PROVE  Waiting(ty2, q2, n, l - 1) /\ l - 1 <= Len(q2)
<1>1. /\ q \in Seq(Place) /\ Len(q) \in Nat \ {0} /\ DOMAIN q = 1 .. Len(q) /\ p = q[1]
      /\ ToSet(q) \subseteq DOMAIN ty
      /\ \A j \in 1 .. Len(q) : Len(q[j]) = IF j <= l THEN n - 1 ELSE n
      /\ \A x \in DOMAIN ty \ ToSet(q) : Len(x) < n /\ Expanding(ty, x)
      /\ \A x \in DOMAIN ty \ {Top} : Front(x) \notin ToSet(q)
  BY DEF Waiting, ExpandsAt
<1>2. /\ m \in Nat /\ new = {Append(p, i) : i \in 1 .. m} /\ p \in Place /\ p \in DOMAIN ty
      /\ \A x \in new : x \notin DOMAIN ty /\ Front(x) = p
      /\ DOMAIN ty2 = DOMAIN ty \cup new
      /\ \A x \in DOMAIN ty : ty2[x] = ty[x]
      /\ q2 \in Seq(Place) /\ Len(q2) = Len(q) - 1 + m /\ DOMAIN q2 = 1 .. Len(q) - 1 + m
      /\ \A j \in 1 .. Len(q) - 1 : q2[j] = q[j + 1]
      /\ \A j \in Len(q) .. Len(q) - 1 + m : q2[j] = Append(p, j - (Len(q) - 1))
  BY DEF ExpandsAt
<1>3. DOMAIN ChildTypes(ty[p]) = 1 .. m
  <2>1. ChildTypes(ty[p]) \in Seq(MaybeType) /\ m = Len(ChildTypes(ty[p]))
    BY DEF ExpandsAt
  <2> QED
    BY <2>1
<1>4. ToSet(q2) = (ToSet(q) \ {p}) \cup new /\ p \in ToSet(q) /\ IsInjective(q2)
  BY ExpandsQueue
<1>5. Len(p) = n - 1 /\ n - 1 < n /\ Len(p) \in Nat
  <2>1. 1 \in 1 .. Len(q) /\ 1 <= l
    BY <1>1
  <2> QED
    BY <1>1, <1>2, <2>1 DEF Place
<1>6. ASSUME NEW j \in DOMAIN q2 PROVE Len(q2[j]) = IF j <= l - 1 THEN n - 1 ELSE n
  <2>1. CASE j \in 1 .. Len(q) - 1
    <3>1. q2[j] = q[j + 1] /\ j + 1 \in 1 .. Len(q) /\ (j <= l - 1 <=> j + 1 <= l)
      BY <1>1, <1>2, <2>1
    <3> QED
      BY <1>1, <3>1
  <2>2. CASE j \in Len(q) .. Len(q) - 1 + m
    <3>1. q2[j] = Append(p, j - (Len(q) - 1)) /\ j - (Len(q) - 1) \in Nat /\ ~(j <= l - 1)
      BY <1>1, <1>2, <2>2
    <3>2. Len(q2[j]) = Len(p) + 1
      BY <1>2, <3>1, ChildPlace
    <3> QED
      BY <1>5, <3>1, <3>2
  <2> QED
    BY <1>1, <1>2, <2>1, <2>2
<1>7. ASSUME NEW x \in DOMAIN ty2 \ ToSet(q2) PROVE Len(x) < n /\ Expanding(ty2, x)
  <2>1. x \in DOMAIN ty /\ ty2[x] = ty[x]
    BY <1>2, <1>4
  <2>2. CASE x = p
    <3>1. \A i \in DOMAIN ChildTypes(ty2[x]) : Append(x, i) \in DOMAIN ty2
      BY <1>2, <1>3, <2>1, <2>2
    <3> QED
      BY <1>5, <2>2, <3>1 DEF Expanding
  <2>3. CASE x # p
    <3>1. Len(x) < n /\ Expanding(ty, x)
      BY <1>1, <1>4, <2>1, <2>3
    <3> QED
      BY <1>2, <2>1, <3>1 DEF Expanding
  <2> QED
    BY <2>2, <2>3
<1>8. ASSUME NEW x \in DOMAIN ty2 \ {Top} PROVE Front(x) \notin ToSet(q2)
  <2>1. CASE x \in DOMAIN ty
    <3>1. Front(x) \in DOMAIN ty
      BY <2>1, ParentIs
    <3> QED
      BY <1>1, <1>2, <1>4, <2>1, <3>1
  <2>2. CASE x \in new
    BY <1>2, <1>4, <2>2
  <2> QED
    BY <1>2, <2>1, <2>2
<1>9. l - 1 <= Len(q2)
  BY <1>1, <1>2
<1>10. ToSet(q2) \subseteq DOMAIN ty2
  BY <1>1, <1>2, <1>4
<1> QED
  BY <1>2, <1>4, <1>6, <1>7, <1>8, <1>9, <1>10, Zenon DEF Waiting

\* One more node is expanded.
LEMMA ExpandsCount ==
    ASSUME NEW ty, NEW ad, NEW q, NEW ty2, NEW ad2, NEW q2, NEW p, NEW m, NEW new, NEW n, NEW l,
           Tree(ty, ad), Waiting(ty, q, n, l), q # <<>>,
           ExpandsAt(ty, ad, q, ty2, ad2, q2, p, m, new)
    PROVE  /\ Cardinality(DOMAIN ty \ ToSet(q)) \in Nat
           /\ Cardinality(DOMAIN ty2 \ ToSet(q2)) = Cardinality(DOMAIN ty \ ToSet(q)) + 1
<1>1. /\ p \in DOMAIN ty /\ DOMAIN ty2 = DOMAIN ty \cup new
      /\ \A x \in new : x \notin DOMAIN ty
  BY DEF ExpandsAt
<1>2. ToSet(q2) = (ToSet(q) \ {p}) \cup new /\ p \in ToSet(q) /\ ToSet(q) \subseteq DOMAIN ty
  <2>1. ToSet(q) \subseteq DOMAIN ty
    BY DEF Waiting
  <2> QED
    BY <2>1, ExpandsQueue
<1> DEFINE S == DOMAIN ty \ ToSet(q)
<1>3. DOMAIN ty2 \ ToSet(q2) = S \cup {p} /\ p \notin S
  BY <1>1, <1>2
<1>4. IsFiniteSet(S)
  <2>1. IsFiniteSet(DOMAIN ty) /\ S \in SUBSET (DOMAIN ty)
    BY DEF Tree
  <2> QED
    BY <2>1, FS_Subset
<1> HIDE DEF S
<1>5. Cardinality(S \cup {p}) = Cardinality(S) + 1 /\ Cardinality(S) \in Nat
  BY <1>3, <1>4, FS_AddElement, FS_CardinalityType
<1> QED
  BY <1>3, <1>5 DEF S

-----------------------------------------------------------------------------
(* The other steps. *)

LEMMA NewTreeIs ==
    ASSUME in \in Inputs, NEW a \in SUBSET Val, NEW ty, NEW ad,
           ty = [p \in {Top} |-> in.root], ad = [p \in {Top} |-> a]
    PROVE  /\ Tree(ty, ad) /\ ad[Top] = a
           /\ Waiting(ty, <<Top>>, 0, 0)
           /\ Cardinality(DOMAIN ty \ ToSet(<<Top>>)) = 0
<1> DEFINE q == <<Top>>
<1>1. Top \in Place /\ Len(Top) = 0 /\ in.root \in MaybeType
  BY TopPlace, InputIs
<1>2. DOMAIN ty = {Top} /\ DOMAIN ad = {Top} /\ ty[Top] = in.root /\ ad[Top] = a
  OBVIOUS
<1>3. IsFiniteSet({Top})
  BY FS_Singleton
<1>4. ty = [p \in DOMAIN ty |-> ty[p]] /\ ad = [p \in DOMAIN ty |-> ad[p]]
  OBVIOUS
<1>5. Tree(ty, ad)
  BY <1>1, <1>2, <1>3, <1>4 DEF Tree
<1>6. q \in Seq(Place) /\ DOMAIN q = {1} /\ q[1] = Top
  BY <1>1
<1> HIDE DEF q
<1>7. ToSet(q) = {Top} /\ IsInjective(q)
  BY <1>6 DEF ToSet, IsInjective
<1>8. Waiting(ty, q, 0, 0)
  BY <1>1, <1>2, <1>6, <1>7 DEF Waiting
<1>9. DOMAIN ty \ ToSet(q) = {}
  BY <1>2, <1>7
<1>10. Cardinality(DOMAIN ty \ ToSet(q)) = 0
  BY <1>9, FS_EmptySet
<1> QED
  BY <1>2, <1>5, <1>8, <1>10 DEF q

LEMMA NewLevelIs ==
    ASSUME NEW ty, NEW ad, NEW q, NEW n \in Nat, Tree(ty, ad), Waiting(ty, q, n, 0)
    PROVE  Waiting(ty, q, n + 1, Len(q)) /\ Len(q) \in Nat
<1>1. q \in Seq(Place) /\ DOMAIN q = 1 .. Len(q) /\ Len(q) \in Nat
  BY DEF Waiting
<1>2. \A j \in DOMAIN q : Len(q[j]) = IF j <= Len(q) THEN (n + 1) - 1 ELSE n + 1
  BY <1>1 DEF Waiting
<1>3. \A p \in DOMAIN ty : Len(p) \in Nat
  BY TopPlace, ParentIs
<1>4. \A p \in DOMAIN ty \ ToSet(q) : Len(p) < n + 1
  BY <1>3 DEF Waiting
<1> QED
  BY <1>1, <1>2, <1>4 DEF Waiting

\* With an empty queue, or at the last level, the tree is finished.
LEMMA BuiltIs ==
    ASSUME NEW ty, NEW ad, NEW q, NEW n \in 0 .. MaxTreeDepth, Tree(ty, ad), Waiting(ty, q, n, 0),
           q = <<>> \/ n + 1 > MaxTreeDepth
    PROVE  Grown(ty) /\ DOMAIN ty \ ToSet(q) = {p \in DOMAIN ty : Len(p) < MaxTreeDepth}
<1>1. MaxTreeDepth \in Nat /\ n \in Nat /\ n <= MaxTreeDepth
  BY DepthAssumption
<1>2. \A p \in DOMAIN ty : Len(p) \in Nat
  BY TopPlace, ParentIs
<1>3. \A p \in DOMAIN ty \ ToSet(q) : Len(p) < MaxTreeDepth /\ Expanding(ty, p)
  BY <1>1, <1>2 DEF Waiting
<1>4. \A p \in ToSet(q) : Len(p) = MaxTreeDepth
  <2>1. CASE q = <<>>
    BY <2>1 DEF ToSet
  <2>2. CASE n + 1 > MaxTreeDepth
    <3>1. n = MaxTreeDepth /\ \A j \in DOMAIN q : j \in Nat \ {0}
      BY <1>1, <2>2 DEF Waiting
    <3>2. \A j \in DOMAIN q : Len(q[j]) = MaxTreeDepth
      BY <3>1 DEF Waiting
    <3> QED
      BY <3>2 DEF ToSet
  <2> QED
    BY <2>1, <2>2
<1>5. Grown(ty)
  BY <1>1, <1>3, <1>4 DEF Grown
<1>6. \A p \in DOMAIN ty : p \notin ToSet(q) <=> Len(p) < MaxTreeDepth
  BY <1>1, <1>3, <1>4
<1> QED
  BY <1>5, <1>6

-----------------------------------------------------------------------------
(* What no step changes. *)

LEMMA TypesKept ==
    ASSUME in' = in, NEW t
    PROVE  /\ ChildTypes(t)' = ChildTypes(t)
           /\ IsStruct(t)' = IsStruct(t) /\ IsStructPointer(t)' = IsStructPointer(t)
<1>1. StripAttributes' = StripAttributes
  BY Zenon DEF StripAttributes
<1>2. Lowest' = Lowest
  BY Zenon DEF Lowest, Derived
<1>3. Expanded(t)' = Expanded(t)
  BY Zenon, <1>1 DEF Expanded, StripMemberTag
<1>4. ChildTypes(t)' = ChildTypes(t)
  BY <1>2, <1>3 DEF ChildTypes
<1>5. \A u : IsStruct(u)' = IsStruct(u)
  BY DEF IsStruct
<1>6. IsStructPointer(t)' = IsStructPointer(t)
  BY <1>2, <1>5 DEF IsStructPointer
<1> QED
  BY <1>4, <1>5, <1>6

LEMMA AddrFromKept ==
    ASSUME in' = in, NEW ty, NEW ad, NEW p, NEW t
    PROVE  AddrFrom(ty, ad, p, t)' = AddrFrom(ty, ad, p, t)
<1>1. \A b : LoadAddr(b)' = LoadAddr(b)
  BY DEF LoadAddr
<1>2. \A b : Geps(b)' = Geps(b)
  BY DEF Geps
<1>3. \A b, u : FieldAddr(b, u)' = FieldAddr(b, u)
  BY <1>2 DEF FieldAddr
<1> QED
  BY <1>1, <1>3, TypesKept DEF AddrFrom

LEMMA TreeKept ==
    ASSUME in' = in, NEW ty, NEW ad
    PROVE  Tree(ty, ad)' = Tree(ty, ad)
<1>1. \A p, q, i : ChildAt(ty, ad, p, q, i)' = ChildAt(ty, ad, p, q, i)
  BY TypesKept, AddrFromKept DEF ChildAt
<1> QED
  BY <1>1 DEF Tree

LEMMA ExpandingKept ==
    ASSUME in' = in, NEW ty
    PROVE  /\ \A p : Expanding(ty, p)' = Expanding(ty, p)
           /\ Grown(ty)' = Grown(ty)
           /\ \A q, n, l : Waiting(ty, q, n, l)' = Waiting(ty, q, n, l)
<1>1. \A p : Expanding(ty, p)' = Expanding(ty, p)
  BY TypesKept DEF Expanding
<1>2. Grown(ty)' = Grown(ty)
  BY <1>1 DEF Grown
<1>3. \A q, n, l : Waiting(ty, q, n, l)' = Waiting(ty, q, n, l)
  BY <1>1 DEF Waiting
<1> QED
  BY <1>1, <1>2, <1>3

LEMMA CompleteKept ==
    ASSUME in' = in, NEW t, type'[t] = type[t], addr'[t] = addr[t], size'[t] = size[t], Complete(t)
    PROVE  Complete(t)'
<1>1. Tree(type[t], addr[t])'
  <2>1. Tree(type[t], addr[t])' = Tree(type'[t], addr'[t])
    BY TreeKept
  <2> QED
    BY <2>1 DEF Complete
<1>2. Grown(type[t])'
  <2>1. Grown(type[t])' = Grown(type'[t])
    BY ExpandingKept
  <2> QED
    BY <2>1 DEF Complete
<1>3. Starts(t)' = Starts(t) /\ RootVars(t)' = RootVars(t)
  BY DEF Starts, RootVars
<1>4. Above(t)' = Above(t)
  BY DEF Above, Nodes
<1> QED
  BY <1>1, <1>2, <1>3, <1>4 DEF Complete

LEMMA KindIs ==
    /\ DOMAIN Kind = 1 .. 4 /\ Len(Kind) = 4
    /\ \A j \in 1 .. 4 : Kind[j] \in ToSet(Kind)
    /\ \A i, j \in 1 .. 4 : Kind[i] = Kind[j] => i = j
    /\ \A t \in ToSet(Kind) : \E j \in 1 .. 4 : t = Kind[j]
<1>1. DOMAIN Kind = 1 .. 4 /\ Len(Kind) = 4
  BY DEF Kind
<1>2. \A i, j \in 1 .. 4 : Kind[i] = Kind[j] => i = j
  BY DEF Kind
<1> QED
  BY <1>1, <1>2 DEF ToSet

\* The tree that grows is none of the finished ones.
LEMMA FinishedApart ==
    ASSUME Typed, pc # "done"
    PROVE  /\ T \in ToSet(Kind)
           /\ \A t \in Finished : t \in ToSet(Kind) /\ t # T
           /\ k > 1 => "FORMALIN" \in Finished
<1>1. k \in 1 .. 4 /\ T = Kind[k] /\ Finished = {Kind[j] : j \in 1 .. k - 1}
  BY DEF Typed, T, Finished
<1>2. \A j \in 1 .. k - 1 : j \in 1 .. 4 /\ j # k
  BY <1>1
<1>3. k > 1 => 1 \in 1 .. k - 1 /\ Kind[1] = "FORMALIN"
  BY <1>1 DEF Kind
<1> QED
  BY <1>1, <1>2, <1>3, KindIs

\* A step that leaves the finished trees alone leaves them finished.
LEMMA OthersKept ==
    ASSUME Typed, pc # "done", pc' # "done", k' = k, in' = in,
           \A t \in ToSet(Kind) \ {T} : type'[t] = type[t] /\ addr'[t] = addr[t] /\ size'[t] = size[t],
           \A t \in Finished : Complete(t)
    PROVE  (\A t \in Finished : Complete(t))'
<1>1. Finished' = Finished
  BY DEF Finished
<1> SUFFICES ASSUME NEW t \in Finished PROVE Complete(t)'
  BY <1>1
<1>2. t \in ToSet(Kind) \ {T}
  BY FinishedApart
<1> QED
  BY <1>2, CompleteKept

LEMMA InitIs == Init => IInv
<1> SUFFICES ASSUME Init PROVE IInv
  OBVIOUS
<1>1. Typed
  BY DepthAssumption DEF Init, Typed
<1>2. Finished = {}
  BY DEF Init, Finished
<1> QED
  BY <1>1, <1>2 DEF Init, IInv

LEMMA NewTreeKeeps ==
    ASSUME IInv, NewTree
    PROVE  IInv'
<1>1. /\ Typed /\ pc = "new" /\ pc' = "level" /\ left = 0 /\ left' = 0 /\ level' = 0
      /\ in' = in /\ k' = k /\ queue' = <<Top>>
      /\ \A t \in Finished : Complete(t)
  BY DEF IInv, NewTree
<1>2. T \in ToSet(Kind) /\ T' = T
  BY <1>1, FinishedApart DEF T
<1> DEFINE ty == [p \in {Top} |-> in.root]
           ad == [p \in {Top} |-> RootAddr]
<1>3. type' = [type EXCEPT ![T] = ty] /\ addr' = [addr EXCEPT ![T] = ad]
  BY DEF NewTree
<1>4. PICK n \in StartSizes : size' = [size EXCEPT ![T] = n]
  BY DEF NewTree
<1>5. StartSizes = Starts(T) /\ n \in Int
  BY GarbageAssumption DEF StartSizes, Starts
<1>6. RootAddr = RootVars(T) /\ RootAddr \in SUBSET Val
  <2>1. in \in Inputs /\ in.formal \subseteq Val /\ in.actual \subseteq Val
    BY <1>1, InputIs DEF Typed
  <2>2. CASE T = "FORMALOUT"
    <3>1. k > 1 /\ "FORMALIN" \in Finished
      <4>1. k # 1
        BY <2>2 DEF T, Kind
      <4>2. k > 1
        BY <1>1, <4>1 DEF Typed
      <4> QED
        BY <1>1, <4>2, FinishedApart
    <3>2. addr["FORMALIN"][Top] = in.formal
      BY <1>1, <3>1 DEF Complete, RootVars
    <3> QED
      BY <2>1, <2>2, <3>2 DEF RootAddr, RootVars
  <2>3. CASE T # "FORMALOUT"
    BY <2>1, <2>3 DEF RootAddr, RootVars
  <2> QED
    BY <2>2, <2>3
<1>7. type'[T] = ty /\ addr'[T] = ad /\ size'[T] = n
  BY <1>1, <1>2, <1>3, <1>4 DEF Typed
<1>8. /\ Tree(ty, ad) /\ ad[Top] = RootAddr
      /\ Waiting(ty, <<Top>>, 0, 0)
      /\ Cardinality(DOMAIN ty \ ToSet(<<Top>>)) = 0
  <2>1. in \in Inputs
    BY <1>1 DEF Typed
  <2> QED
    BY <1>6, <2>1, NewTreeIs
<1> HIDE DEF ty, ad
<1>9. Typed'
  <2>1. DOMAIN type' = DOMAIN type /\ DOMAIN addr' = DOMAIN addr
    BY <1>3
  <2>2. size' \in [ToSet(Kind) -> Int]
    BY <1>1, <1>4, <1>5 DEF Typed
  <2> QED
    BY <1>1, <2>1, <2>2, DepthAssumption DEF Typed
<1>10. Growing'
  <2>1. Tree(type[T], addr[T])'
    <3>1. Tree(type[T], addr[T])' = Tree(type'[T], addr'[T])
      BY <1>1, <1>2, TreeKept
    <3> QED
      BY <1>7, <1>8, <3>1
  <2>2. Waiting(type[T], queue, level, left)'
    <3>1. Waiting(type[T], queue, level, left)' = Waiting(type'[T], queue', level', left')
      BY <1>1, <1>2, ExpandingKept
    <3> QED
      BY <1>1, <1>7, <1>8, <3>1
  <2>3. RootVars(T)' = RootVars(T) /\ Starts(T)' = Starts(T)
    BY <1>1, <1>2 DEF RootVars, Starts
  <2>4. addr'[T'][Top] = RootVars(T)
    BY <1>2, <1>6, <1>7, <1>8
  <2>5. size'[T'] = n + Cardinality(DOMAIN type'[T'] \ ToSet(queue'))
    BY <1>1, <1>2, <1>5, <1>7, <1>8
  <2>6. left' <= Len(queue')
    BY <1>1
  <2> QED
    BY <1>5, <2>1, <2>2, <2>3, <2>4, <2>5, <2>6 DEF Growing, Nodes
<1>11. (\A t \in Finished : Complete(t))'
  <2>1. \A t \in ToSet(Kind) \ {T} :
           type'[t] = type[t] /\ addr'[t] = addr[t] /\ size'[t] = size[t]
    BY <1>1, <1>3, <1>4 DEF Typed
  <2> QED
    BY <1>1, <2>1, OthersKept
<1> QED
  BY <1>1, <1>9, <1>10, <1>11 DEF IInv

\* A step that leaves the tree alone and keeps its queue in order.
LEMMA GrowingKept ==
    ASSUME in' = in, k' = k, type' = type, addr' = addr, size' = size, queue' = queue,
           Growing, Waiting(type[T], queue, level', left'), left' <= Len(queue)
    PROVE  Growing'
<1>1. T' = T
  BY DEF T
<1>2. Tree(type[T], addr[T])' = Tree(type[T], addr[T])
  BY <1>1, TreeKept
<1>3. Waiting(type[T], queue, level, left)' = Waiting(type[T], queue, level', left')
  BY <1>1, ExpandingKept
<1>4. RootVars(T)' = RootVars(T) /\ Starts(T)' = Starts(T)
  BY <1>1 DEF RootVars, Starts
<1> QED
  BY <1>1, <1>2, <1>3, <1>4 DEF Growing, Nodes

LEMMA NewLevelKeeps ==
    ASSUME IInv, NewLevel
    PROVE  IInv'
<1>1. /\ Typed /\ pc = "level" /\ pc' = "expand" /\ left = 0 /\ left' = Len(queue)
      /\ level' = level + 1 /\ ~DeepEnough /\ Growing
      /\ in' = in /\ k' = k /\ queue' = queue /\ type' = type /\ addr' = addr /\ size' = size
      /\ \A t \in Finished : Complete(t)
  BY DEF IInv, NewLevel
<1>2. level \in Nat /\ level' \in 0 .. MaxTreeDepth
  BY <1>1, DepthAssumption DEF Typed, DeepEnough
<1>3. Waiting(type[T], queue, level', left') /\ left' \in Nat
  BY <1>1, <1>2, NewLevelIs DEF Growing
<1>4. Typed'
  BY <1>1, <1>2, <1>3 DEF Typed
<1>5. Growing'
  BY <1>1, <1>3, GrowingKept
<1>6. (\A t \in Finished : Complete(t))'
  BY <1>1, OthersKept
<1> QED
  BY <1>1, <1>4, <1>5, <1>6 DEF IInv

LEMMA EndLevelKeeps ==
    ASSUME IInv, EndLevel
    PROVE  IInv'
<1>1. /\ Typed /\ pc = "expand" /\ pc' = "level" /\ left = 0 /\ left' = left /\ level' = level
      /\ Growing
      /\ in' = in /\ k' = k /\ queue' = queue /\ type' = type /\ addr' = addr /\ size' = size
      /\ \A t \in Finished : Complete(t)
  BY DEF IInv, EndLevel
<1>2. Typed'
  BY <1>1 DEF Typed
<1>3. Growing'
  <2>1. Waiting(type[T], queue, level', left') /\ left' <= Len(queue)
    BY <1>1 DEF Growing
  <2> QED
    BY <1>1, <2>1, GrowingKept
<1>4. (\A t \in Finished : Complete(t))'
  BY <1>1, OthersKept
<1> QED
  BY <1>1, <1>2, <1>3, <1>4 DEF IInv

LEMMA BuiltKeeps ==
    ASSUME IInv, Built
    PROVE  IInv'
<1>1. /\ Typed /\ pc = "level" /\ left = 0 /\ left' = left /\ level' = level /\ Growing
      /\ in' = in /\ type' = type /\ addr' = addr /\ size' = size
      /\ queue = <<>> \/ level + 1 > MaxTreeDepth
      /\ \A t \in Finished : Complete(t)
      /\ IF k < 4 THEN k' = k + 1 /\ pc' = "new" ELSE k' = k /\ pc' = "done"
  BY KindIs DEF IInv, Built, DeepEnough, NextTree
<1>2. Grown(type[T]) /\ DOMAIN type[T] \ ToSet(queue) = Above(T)
  <2>1. level \in 0 .. MaxTreeDepth /\ Waiting(type[T], queue, level, 0) /\ Tree(type[T], addr[T])
    BY <1>1 DEF Growing, Typed
  <2> QED
    BY <1>1, <2>1, BuiltIs DEF Above, Nodes
<1>3. Complete(T)
  BY <1>1, <1>2 DEF Growing, Complete, Nodes
<1>4. k \in 1 .. 4 /\ T = Kind[k]
  BY <1>1 DEF Typed, T
<1>5. \A t \in Finished' : t \in Finished \/ t = T
  <2>1. CASE k < 4
    <3>1. Finished' = {Kind[j] : j \in 1 .. k} /\ Finished = {Kind[j] : j \in 1 .. k - 1}
      BY <1>1, <1>4, <2>1 DEF Finished
    <3>2. \A j \in 1 .. k : j \in 1 .. k - 1 \/ j = k
      BY <1>4
    <3> QED
      BY <1>4, <3>1, <3>2
  <2>2. CASE ~(k < 4)
    <3>1. k = 4 /\ Finished' = {Kind[j] : j \in 1 .. 4} /\ Finished = {Kind[j] : j \in 1 .. 3}
      BY <1>1, <1>4, <2>2, KindIs DEF Finished
    <3>2. \A j \in 1 .. 4 : j \in 1 .. 3 \/ j = 4
      OBVIOUS
    <3> QED
      BY <1>4, <3>1, <3>2
  <2> QED
    BY <2>1, <2>2
<1>6. (\A t \in Finished : Complete(t))'
  <2> SUFFICES ASSUME NEW t \in Finished' PROVE Complete(t)'
    OBVIOUS
  <2>1. Complete(t)
    BY <1>1, <1>3, <1>5
  <2>2. type'[t] = type[t] /\ addr'[t] = addr[t] /\ size'[t] = size[t]
    BY <1>1
  <2> QED
    BY <1>1, <2>1, <2>2, CompleteKept
<1>7. k' \in 1 .. 4 /\ pc' \in {"new", "done"} /\ (pc' = "done" => k' = 4)
  BY <1>1, <1>4
<1>8. Typed'
  BY <1>1, <1>7 DEF Typed
<1> QED
  BY <1>1, <1>6, <1>7, <1>8 DEF IInv

LEMMA ExpandKeeps ==
    ASSUME IInv, Expand
    PROVE  IInv'
<1>1. /\ Typed /\ pc = "expand" /\ pc' = pc /\ left > 0 /\ left' = left - 1 /\ level' = level
      /\ Growing /\ in' = in /\ k' = k
      /\ \A t \in Finished : Complete(t)
      /\ size' = [size EXCEPT ![T] = @ + 1]
  BY DEF IInv, Expand
<1>2. T \in ToSet(Kind) /\ T' = T
  BY <1>1, FinishedApart DEF T
<1> DEFINE ty  == type[T]
           ad  == addr[T]
           ty2 == type'[T]
           ad2 == addr'[T]
<1>3. in \in Inputs /\ level \in Nat /\ left \in Nat \ {0} /\ left <= Len(queue)
  BY <1>1 DEF Typed, Growing
<1>4. Tree(ty, ad) /\ Waiting(ty, queue, level, left)
  BY <1>1 DEF Growing
<1>5. queue # <<>>
  BY <1>3
<1>6. Expands(ty, ad, queue, ty2, ad2, queue')
  <2> DEFINE p        == Head(queue)
             children == ChildTypes(ty[p])
             new      == {Append(p, i) : i \in DOMAIN children}
             newType  == [x \in DOMAIN ty \cup new |-> IF x \in new THEN children[Last(x)] ELSE ty[x]]
             newAddr  == [x \in DOMAIN ty \cup new |->
                            IF x \in new THEN AddrFrom(ty, ad, p, children[Last(x)]) ELSE ad[x]]
  <2>1. \A t : DerivedAddr(p, t) = AddrFrom(ty, ad, p, t)
    BY DEF DerivedAddr, AddrFrom
  <2>2. /\ queue' = Tail(queue) \o [i \in DOMAIN children |-> Append(p, i)]
        /\ type' = [type EXCEPT ![T] = newType]
    BY DEF Expand, Nodes
  <2>3. addr' = [addr EXCEPT ![T] = newAddr]
    <3>1. addr' = [addr EXCEPT ![T] = [x \in DOMAIN ty \cup new |->
                     IF x \in new THEN DerivedAddr(p, children[Last(x)]) ELSE ad[x]]]
      BY DEF Expand, Nodes
    <3> QED
      BY <2>1, <3>1
  <2>4. T \in DOMAIN type /\ T \in DOMAIN addr
    BY <1>1, <1>2 DEF Typed
  <2>5. type'[T] = newType /\ addr'[T] = newAddr
    <3> HIDE DEF newType, newAddr
    <3> QED
      BY <2>2, <2>3, <2>4
  <2> QED
    BY <2>2, <2>5 DEF Expands
<1>7. \A t \in ToSet(Kind) \ {T} :
         type'[t] = type[t] /\ addr'[t] = addr[t] /\ size'[t] = size[t]
  BY <1>1 DEF Typed, Expand
<1>8. DOMAIN type' = DOMAIN type /\ DOMAIN addr' = DOMAIN addr
  BY DEF Expand
<1> HIDE DEF ty, ad, ty2, ad2
<1>9. PICK p, m, new : ExpandsAt(ty, ad, queue, ty2, ad2, queue', p, m, new)
  BY <1>3, <1>4, <1>5, <1>6, ExpandsIs
<1>10. Tree(ty2, ad2) /\ ad2[Top] = ad[Top]
  BY <1>4, <1>9, ExpandsTree
<1>11. Waiting(ty2, queue', level, left - 1) /\ left - 1 <= Len(queue')
  BY <1>3, <1>4, <1>5, <1>9, ExpandsWaiting
<1>12. /\ Cardinality(DOMAIN ty \ ToSet(queue)) \in Nat
       /\ Cardinality(DOMAIN ty2 \ ToSet(queue')) = Cardinality(DOMAIN ty \ ToSet(queue)) + 1
  BY <1>4, <1>5, <1>9, ExpandsCount
<1>13. Typed'
  <2>1. left' \in Nat
    BY <1>1, <1>3
  <2>2. size' \in [ToSet(Kind) -> Int]
    BY <1>1, <1>2 DEF Typed
  <2> QED
    BY <1>1, <1>8, <2>1, <2>2 DEF Typed
<1>14. Growing'
  <2>1. Tree(type[T], addr[T])'
    <3>1. Tree(type[T], addr[T])' = Tree(type'[T], addr'[T])
      BY <1>1, <1>2, TreeKept
    <3> QED
      BY <1>10, <3>1 DEF ty2, ad2
  <2>2. Waiting(type[T], queue, level, left)'
    <3>1. Waiting(type[T], queue, level, left)' = Waiting(type'[T], queue', level', left')
      BY <1>1, <1>2, ExpandingKept
    <3> QED
      BY <1>1, <1>11, <3>1 DEF ty2
  <2>3. RootVars(T)' = RootVars(T) /\ Starts(T)' = Starts(T)
    BY <1>1, <1>2 DEF RootVars, Starts
  <2>4. addr'[T'][Top] = RootVars(T)
    BY <1>1, <1>2, <1>10 DEF Growing, ad, ad2
  <2>5. PICK n \in Starts(T) : size[T] = n + Cardinality(DOMAIN ty \ ToSet(queue))
    BY <1>1 DEF Growing, Nodes, ty
  <2>6. n \in Int /\ size'[T] = size[T] + 1
    BY <1>1, <1>2, GarbageAssumption DEF Starts, Typed
  <2>7. size'[T'] = n + Cardinality(DOMAIN type'[T'] \ ToSet(queue'))
    BY <1>2, <1>12, <2>5, <2>6 DEF ty2
  <2>8. left' <= Len(queue')
    BY <1>1, <1>11
  <2> QED
    BY <2>1, <2>2, <2>3, <2>4, <2>7, <2>8 DEF Growing, Nodes
<1>15. (\A t \in Finished : Complete(t))'
  BY <1>1, <1>7, OthersKept
<1> QED
  BY <1>1, <1>13, <1>14, <1>15 DEF IInv

LEMMA StepKeeps == IInv /\ [Next]_vars => IInv'
<1> SUFFICES ASSUME IInv, [Next]_vars PROVE IInv'
  OBVIOUS
<1>1. CASE NewTree
  BY <1>1, NewTreeKeeps
<1>2. CASE NewLevel
  BY <1>2, NewLevelKeeps
<1>3. CASE Expand
  BY <1>3, ExpandKeeps
<1>4. CASE EndLevel
  BY <1>4, EndLevelKeeps
<1>5. CASE Built
  BY <1>5, BuiltKeeps
<1>6. CASE UNCHANGED vars
  <2>1. /\ in' = in /\ k' = k /\ pc' = pc /\ queue' = queue /\ level' = level /\ left' = left
        /\ type' = type /\ addr' = addr /\ size' = size
    BY <1>6 DEF vars
  <2>2. Typed'
    BY <2>1 DEF IInv, Typed
  <2>3. pc' \in {"level", "expand"} => Growing'
    <3> SUFFICES ASSUME pc' \in {"level", "expand"} PROVE Growing'
      OBVIOUS
    <3>1. Growing /\ Waiting(type[T], queue, level', left') /\ left' <= Len(queue)
      BY <2>1 DEF IInv, Growing
    <3> QED
      BY <2>1, <3>1, GrowingKept
  <2>4. (\A t \in Finished : Complete(t))'
    <3>1. Finished' = Finished
      BY <2>1 DEF Finished
    <3> SUFFICES ASSUME NEW t \in Finished PROVE Complete(t)'
      BY <3>1
    <3>2. Complete(t)
      BY DEF IInv
    <3> QED
      BY <2>1, <3>2, CompleteKept
  <2> QED
    BY <2>1, <2>2, <2>3, <2>4 DEF IInv
<1> QED
  BY <1>1, <1>2, <1>3, <1>4, <1>5, <1>6 DEF Next

\* In every state of the growth each tree is what IInv says of it: the queue of
\* Tree::build holds the nodes that have no children yet, level by level.
THEOREM InvariantHolds == Spec => []IInv
<1> QED
  BY InitIs, StepKeeps, PTL DEF Spec

-----------------------------------------------------------------------------
(* The results. *)

\* However types are built from each other, each of the four trees of a
\* parameter is the whole tree of its types down to the depth limit.
THEOREM TreesAreWhole == Spec => []WholeTrees
<1>1. IInv => WholeTrees
  <2> SUFFICES ASSUME IInv, NEW t \in Finished
               PROVE  {<<p, type[t][p]>> : p \in Nodes(t)} = UNION {Reference[n] : n \in 0 .. MaxTreeDepth}
    BY DEF WholeTrees
  <2>1. in \in Inputs /\ Tree(type[t], addr[t]) /\ Grown(type[t])
    BY DEF IInv, Typed, Complete
  <2> QED
    BY <2>1, WholeTree DEF Nodes
<1> QED
  BY <1>1, InvariantHolds, PTL

\* The size of each tree counts the nodes above its last level, on top of what
\* the size started from.
THEOREM SizesCountNodes == Spec => []SizesAgree
<1>1. IInv => SizesAgree
  <2> SUFFICES ASSUME IInv, NEW t \in Finished
               PROVE  LET counted == Cardinality({p \in Nodes(t) : Len(p) < MaxTreeDepth})
                      IN IF t = "FORMALIN" /\ ~in.returned
                         THEN \E n \in Garbage : size[t] = n + counted
                         ELSE size[t] = counted
    BY DEF SizesAgree
  <2>1. \E n \in Starts(t) : size[t] = n + Cardinality(Above(t))
    BY DEF IInv, Complete
  <2>2. Cardinality(Above(t)) \in Nat
    <3>1. IsFiniteSet(Nodes(t)) /\ Above(t) \in SUBSET Nodes(t)
      BY DEF IInv, Complete, Tree, Nodes, Above
    <3> QED
      BY <3>1, FS_Subset, FS_CardinalityType
  <2>3. Above(t) = {p \in Nodes(t) : Len(p) < MaxTreeDepth}
    BY DEF Above
  <2> QED
    BY <2>1, <2>2, <2>3 DEF Starts
<1> QED
  BY <1>1, InvariantHolds, PTL

\* A node has every variable loaded from, or indexing at its offset into, the
\* variables above it; each is computed from those of the root, and fields at
\* different offsets share none, whatever loads from and indexes into what.
THEOREM VariablesFollowTypes == Spec => []AddrFollowsTypes
<1>1. IInv => AddrFollowsTypes
  <2> SUFFICES ASSUME IInv PROVE AddrFollowsTypes
    OBVIOUS
  <2>1. in \in Inputs /\ \A t \in Finished : Tree(type[t], addr[t])
    BY DEF IInv, Typed, Complete
  <2>2. ASSUME NEW t \in Finished
        PROVE  UNION {addr[t][p] : p \in Nodes(t)} \subseteq Computed(addr[t][Top])
    BY <2>1, AddrComputed DEF Nodes
  <2>3. ASSUME NEW t \in Finished, NEW p \in Nodes(t), IsStruct(type[t][p]),
               NEW i \in DOMAIN in.elems[type[t][p]], NEW j \in DOMAIN in.elems[type[t][p]],
               {Append(p, i), Append(p, j)} \subseteq Nodes(t),
               in.offset[in.elems[type[t][p]][i]] # in.offset[in.elems[type[t][p]][j]]
        PROVE  addr[t][Append(p, i)] \cap addr[t][Append(p, j)] = {}
    BY <2>1, <2>3, SiblingsApart DEF Nodes
  <2>4. ASSUME NEW t \in Finished, NEW q \in Nodes(t), NEW p \in PartsOf(t, q), type[t][p] # Null
        PROVE  Accessed(t, q, p) \subseteq addr[t][p]
    BY <2>1, <2>4, NoneLost DEF Nodes
  <2> QED
    BY <2>2, <2>3, <2>4 DEF AddrFollowsTypes
<1> QED
  BY <1>1, InvariantHolds, PTL

\* The formal-out tree has the variables of the formal-in tree at each place.
THEOREM FormalVariablesAgree == Spec => []FormalTreesAgree
<1>1. IInv => FormalTreesAgree
  <2> SUFFICES ASSUME IInv, "FORMALOUT" \in Finished
               PROVE  addr["FORMALOUT"] = addr["FORMALIN"]
    BY DEF FormalTreesAgree
  <2>1. Typed /\ in \in Inputs /\ (pc = "done" => k = 4)
    BY DEF IInv, Typed
  <2>2. PICK j \in IF pc = "done" THEN 1 .. 4 ELSE 1 .. k - 1 : Kind[j] = "FORMALOUT"
    BY KindIs DEF Finished
  <2>3. j # 1 /\ Kind[1] = "FORMALIN"
    BY <2>2 DEF Kind
  <2>4. 1 \in IF pc = "done" THEN 1 .. 4 ELSE 1 .. k - 1
    BY <2>1, <2>2, <2>3 DEF Typed
  <2>5. "FORMALIN" \in Finished
    BY <2>3, <2>4, KindIs DEF Finished
  <2>6. Complete("FORMALIN") /\ Complete("FORMALOUT")
    BY <2>5 DEF IInv
  <2>7. addr["FORMALIN"][Top] = addr["FORMALOUT"][Top]
    BY <2>6 DEF Complete, RootVars
  <2> QED
    BY <2>1, <2>6, <2>7, SameTrees DEF Complete
<1> QED
  BY <1>1, InvariantHolds, PTL

=============================================================================
