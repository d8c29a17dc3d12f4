----------------------- MODULE MiniZincPrinter_proofs -----------------------
(***************************************************************************)
(* Proofs that the files of the exporter read back as the graph, for every *)
(* graph.                                                                  *)
(*                                                                         *)
(* Grouping collects the nodes and edges passed so far by type; numbering  *)
(* lays the groups one behind the other.  What the files say follows from  *)
(* where each group begins and ends.                                       *)
(***************************************************************************)
EXTENDS MiniZincPrinter, FiniteSetTheorems, SequenceTheorems, WellFoundedInduction, TLAPS

-----------------------------------------------------------------------------
(* The elements of a sequence that are in a set. *)

In(s, S, i) == {j \in 1 .. i : s[j] \in S}

LEMMA RankTyped ==
    ASSUME NEW s, NEW S, NEW i \in Nat
    PROVE  IsFiniteSet(In(s, S, i)) /\ Rank(s, S, i) = Cardinality(In(s, S, i)) /\ Rank(s, S, i) \in Nat
<1>1. IsFiniteSet(1 .. i) /\ In(s, S, i) \in SUBSET (1 .. i)
  BY FS_Interval DEF In
<1>2. IsFiniteSet(In(s, S, i))
  BY <1>1, FS_Subset
<1>3. Rank(s, S, i) = Cardinality(In(s, S, i))
  BY DEF Rank, In
<1> QED
  BY <1>2, <1>3, FS_CardinalityType

LEMMA RankFirst == ASSUME NEW s, NEW S PROVE Rank(s, S, 0) = 0
<1>1. In(s, S, 0) = {}
  BY DEF In
<1> QED
  BY <1>1, RankTyped, FS_EmptySet

LEMMA RankNext ==
    ASSUME NEW s, NEW S, NEW i \in Nat \ {0}
    PROVE  Rank(s, S, i) = IF s[i] \in S THEN Rank(s, S, i - 1) + 1 ELSE Rank(s, S, i - 1)
<1>1. i - 1 \in Nat /\ 1 .. i = (1 .. i - 1) \cup {i} /\ i \notin 1 .. i - 1
  OBVIOUS
<1>2. CASE s[i] \in S
  <2>1. In(s, S, i) = In(s, S, i - 1) \cup {i} /\ i \notin In(s, S, i - 1)
    BY <1>1, <1>2 DEF In
  <2> QED
    BY <1>1, <1>2, <2>1, RankTyped, FS_AddElement
<1>3. CASE s[i] \notin S
  <2>1. In(s, S, i) = In(s, S, i - 1)
    BY <1>1, <1>3 DEF In
  <2> QED
    BY <1>1, <1>3, <2>1, RankTyped
<1> QED
  BY <1>2, <1>3

LEMMA RankGrows ==
    ASSUME NEW s, NEW S, NEW i \in Nat, NEW j \in Nat, i < j, s[j] \in S
    PROVE  Rank(s, S, i) < Rank(s, S, j)
<1>1. In(s, S, i) \subseteq In(s, S, j) /\ j \in In(s, S, j) /\ j \notin In(s, S, i)
  BY DEF In
<1>2. Rank(s, S, i) <= Rank(s, S, j) /\ Rank(s, S, i) # Rank(s, S, j)
  BY <1>1, RankTyped, FS_Subset
<1> QED
  BY <1>2, RankTyped

LEMMA RankMonotone ==
    ASSUME NEW s, NEW S, NEW i \in Nat, NEW j \in Nat, i <= j
    PROVE  Rank(s, S, i) <= Rank(s, S, j)
<1>1. In(s, S, i) \subseteq In(s, S, j)
  BY DEF In
<1> QED
  BY <1>1, RankTyped, FS_Subset

\* No rank is left out.
LEMMA RankReached ==
    ASSUME NEW s, NEW S, NEW n \in Nat, NEW k \in 1 .. Rank(s, S, n)
    PROVE  \E i \in 1 .. n : s[i] \in S /\ Rank(s, S, i) = k
<1> DEFINE M == {i \in 0 .. n : k <= Rank(s, S, i)}
           Less == OpToRel(<, Nat)
<1>1. M \subseteq Nat /\ n \in M
  BY RankTyped
<1>2. IsWellFoundedOn(Less, Nat)
  BY NatLessThanWellFounded
<1>3. \A i, j \in Nat : i < j => <<i, j>> \in Less
  BY DEF OpToRel
<1> HIDE DEF Less
<1>4. PICK m \in M : \A i \in M : <<i, m>> \notin Less
  BY <1>1, <1>2, WFMin
<1>5. m \in 0 .. n /\ k <= Rank(s, S, m) /\ k \in Nat \ {0}
  BY RankTyped
<1>6. m # 0
  BY <1>5, RankFirst
<1>7. m - 1 \in 0 .. n /\ m - 1 < m /\ m - 1 \in Nat /\ m \in Nat \ {0}
  BY <1>5, <1>6
<1>8. m - 1 \notin M
  BY <1>3, <1>4, <1>7
<1>9. ~(k <= Rank(s, S, m - 1))
  BY <1>7, <1>8
<1>10. Rank(s, S, m - 1) \in Nat
  BY <1>7, RankTyped
<1>11. s[m] \in S /\ Rank(s, S, m) = Rank(s, S, m - 1) + 1
  BY <1>5, <1>7, <1>9, RankNext
<1>12. Rank(s, S, m) = k
  BY <1>5, <1>9, <1>10, <1>11
<1> QED
  BY <1>5, <1>6, <1>11, <1>12

LEMMA KeptAt ==
    ASSUME NEW X, NEW s \in Seq(X), NEW S
    PROVE  /\ DOMAIN Kept(s, S) = 1 .. Rank(s, S, Len(s)) /\ Rank(s, S, Len(s)) \in Nat
           /\ \A i \in DOMAIN s : s[i] \in S =>
                 Rank(s, S, i) \in DOMAIN Kept(s, S) /\ Kept(s, S)[Rank(s, S, i)] = s[i]
           /\ \A k \in DOMAIN Kept(s, S) :
                 \E i \in DOMAIN s : s[i] \in S /\ Rank(s, S, i) = k /\ Kept(s, S)[k] = s[i]
<1> DEFINE n == Len(s)
<1>1. n \in Nat /\ DOMAIN s = 1 .. n
  BY LenProperties
<1>2. DOMAIN Kept(s, S) = 1 .. Rank(s, S, n) /\ Rank(s, S, n) \in Nat
  BY <1>1, RankTyped DEF Kept
<1>3. ASSUME NEW k \in 1 .. Rank(s, S, n), NEW i \in 1 .. n, s[i] \in S, Rank(s, S, i) = k
      PROVE  Kept(s, S)[k] = s[i]
  <2> DEFINE Here(j) == j \in DOMAIN s /\ s[j] \in S /\ Rank(s, S, j) = k
             c == CHOOSE j \in DOMAIN s : s[j] \in S /\ Rank(s, S, j) = k
  <2>1. c \in 1 .. n /\ s[c] \in S /\ Rank(s, S, c) = k
    BY <1>1, <1>3
  <2>2. Kept(s, S)[k] = s[c]
    BY DEF Kept
  <2> HIDE DEF c
  <2>3. ~(c < i) /\ ~(i < c)
    BY <1>1, <1>3, <2>1, RankGrows, RankTyped
  <2>4. c = i
    BY <1>1, <2>1, <2>3
  <2> QED
    BY <2>2, <2>4
<1>4. ASSUME NEW i \in 1 .. n, s[i] \in S PROVE Rank(s, S, i) \in 1 .. Rank(s, S, n)
  <2>1. i - 1 \in Nat /\ i \in Nat \ {0} /\ i <= n
    BY <1>1
  <2>2. Rank(s, S, i) = Rank(s, S, i - 1) + 1
    BY <1>4, <2>1, RankNext
  <2>3. Rank(s, S, i) <= Rank(s, S, n)
    BY <1>1, <2>1, RankMonotone
  <2>4. Rank(s, S, i - 1) \in Nat
    BY <2>1, RankTyped
  <2> QED
    BY <1>2, <2>2, <2>3, <2>4
<1>5. \A k \in 1 .. Rank(s, S, n) : \E i \in 1 .. n : s[i] \in S /\ Rank(s, S, i) = k
  BY <1>1, RankReached
<1> QED
  BY <1>1, <1>2, <1>3, <1>4, <1>5

LEMMA KeptIs ==
    ASSUME NEW X, NEW s \in Seq(X), NEW S
    PROVE  /\ Kept(s, S) \in Seq(X)
           /\ Range(Kept(s, S)) = Range(s) \cap S
           /\ IsInjective(s) => IsInjective(Kept(s, S))
<1> DEFINE K == Kept(s, S)
<1>1. DOMAIN K = 1 .. Rank(s, S, Len(s)) /\ Rank(s, S, Len(s)) \in Nat
  BY KeptAt
<1>2. \A i \in DOMAIN s : s[i] \in S => \E k \in DOMAIN K : K[k] = s[i]
  BY KeptAt
<1>3. \A k \in DOMAIN K : \E i \in DOMAIN s : s[i] \in S /\ Rank(s, S, i) = k /\ K[k] = s[i]
  BY KeptAt
<1>4. K = [k \in 1 .. Rank(s, S, Len(s)) |-> K[k]]
  BY DEF Kept
<1> HIDE DEF K
<1>5. \A k \in DOMAIN K : K[k] \in X
  BY <1>3, ElementOfSeq, LenProperties
<1>6. K \in Seq(X)
  BY <1>1, <1>4, <1>5, SeqDef
<1>7. Range(K) = Range(s) \cap S
  BY <1>2, <1>3 DEF Range
<1>8. IsInjective(s) => IsInjective(K)
  BY <1>3 DEF IsInjective
<1> QED
  BY <1>6, <1>7, <1>8 DEF K

\* What stands together is kept as it stands.
LEMMA KeptTogether ==
    ASSUME NEW X, NEW s \in Seq(X), NEW S, NEW a \in Nat, NEW b \in Nat, a <= b, b <= Len(s),
           \A i \in DOMAIN s : s[i] \in S <=> i \in a + 1 .. b
    PROVE  /\ DOMAIN Kept(s, S) = 1 .. b - a
           /\ \A k \in 1 .. b - a : Kept(s, S)[k] = s[a + k]
<1>1. Len(s) \in Nat /\ DOMAIN s = 1 .. Len(s)
  BY LenProperties
<1>2. ASSUME NEW k \in 0 .. b - a PROVE Rank(s, S, a + k) = k
  <2>1. In(s, S, a + k) = a + 1 .. a + k
    BY <1>1 DEF In
  <2>2. Cardinality(a + 1 .. a + k) = k
    BY FS_Interval
  <2> QED
    BY <2>1, <2>2, RankTyped
<1>3. Rank(s, S, Len(s)) = b - a
  <2>1. In(s, S, Len(s)) = a + 1 .. b
    BY <1>1 DEF In
  <2>2. Cardinality(a + 1 .. b) = b - a
    <3>1. Cardinality(a + 1 .. b) = IF a + 1 > b THEN 0 ELSE b - (a + 1) + 1
      BY FS_Interval, a + 1 \in Int, b \in Int
    <3> QED
      BY <3>1
  <2> QED
    BY <1>1, <2>1, <2>2, RankTyped
<1>4. ASSUME NEW k \in 1 .. b - a PROVE Kept(s, S)[k] = s[a + k]
  <2>1. a + k \in DOMAIN s /\ s[a + k] \in S /\ Rank(s, S, a + k) = k
    BY <1>1, <1>2
  <2> QED
    BY <2>1, KeptAt
<1> QED
  BY <1>3, <1>4, KeptAt


-----------------------------------------------------------------------------
(* The enumerations. *)

LEMMA NodeEnum ==
    DOMAIN MznNodeType = 1 .. 21 /\ IsInjective(MznNodeType)
<1>1. DOMAIN MznNodeType = 1 .. 21
  BY DEF MznNodeType
<1>2. \A i, j \in 1 .. 21 : MznNodeType[i] = MznNodeType[j] => i = j
  BY SMTT(60) DEF MznNodeType
<1> QED
  BY <1>1, <1>2 DEF IsInjective

LEMMA EdgeEnum ==
    DOMAIN MznEdgeType = 1 .. 29 /\ IsInjective(MznEdgeType)
<1>1. DOMAIN MznEdgeType = 1 .. 29
  BY DEF MznEdgeType
<1>2. \A i, j \in 1 .. 29 : MznEdgeType[i] = MznEdgeType[j] => i = j
  BY SMTT(60) DEF MznEdgeType
<1> QED
  BY <1>1, <1>2 DEF IsInjective

LEMMA PlaceIs ==
    ASSUME NEW enum, IsInjective(enum), NEW p \in DOMAIN enum
    PROVE  Place(enum, enum[p]) = p
BY DEF Place, IsInjective

LEMMA GraphIs ==
    ASSUME NEW g \in Graphs
    PROVE  /\ g.order \in Seq(Node) /\ g.out \in [Node -> Seq(Edge)] /\ g.dst \in [Edge -> Node]
           /\ g.ntype \in [Node -> GraphNodeType] /\ g.etype \in [Edge -> EdgeType]
           /\ g.fn \in [Node -> Node \cup {None}] /\ g.param \in [Node -> Nat \cup {-1}]
           /\ g.inst \in [Node -> Nat \cup {-1}] /\ g.arity \in [Node -> Nat]
           /\ g.order # <<>> /\ IsInjective(g.order)
           /\ \A n \in Node : IsInjective(g.out[n])
           /\ \A m, n \in Node : \A e \in Range(g.out[m]) : e \in Range(g.out[n]) => m = n
           /\ Members(g) \subseteq Node
<1>1. WellFormed(g)
  BY GraphsAssumption
<1>2. g \in GraphRecord
  BY <1>1 DEF WellFormed
<1>3. /\ g.order \in Seq(Node) /\ g.out \in [Node -> Seq(Edge)] /\ g.dst \in [Edge -> Node]
      /\ g.ntype \in [Node -> GraphNodeType] /\ g.etype \in [Edge -> EdgeType]
      /\ g.fn \in [Node -> Node \cup {None}] /\ g.param \in [Node -> Nat \cup {-1}]
      /\ g.inst \in [Node -> Nat \cup {-1}] /\ g.arity \in [Node -> Nat]
  BY <1>2 DEF GraphRecord
<1>4. /\ g.order # <<>> /\ IsInjective(g.order)
      /\ \A n \in Node : IsInjective(g.out[n])
      /\ \A m, n \in Node : m # n => Range(g.out[m]) \cap Range(g.out[n]) = {}
  BY <1>1 DEF WellFormed
<1>5. Members(g) \subseteq Node
  BY <1>3, ElementOfSeq, LenProperties DEF Members, Range
<1> QED
  BY <1>3, <1>4, <1>5


LEMMA NodePlaces ==
    /\ Place(MznNodeType, "INST_FUNCALL") = 1 /\ Place(MznNodeType, "INST_OTHER") = 4
    /\ Place(MznNodeType, "VAR_STATICALLOCGLOBALSCOPE") = 6 /\ Place(MznNodeType, "VAR_OTHER") = 9
    /\ Place(MznNodeType, "FUNC_ENTRY") = 11
    /\ Place(MznNodeType, "PARAM_FORMALIN") = 12 /\ Place(MznNodeType, "PARAM_ACTUALOUT") = 15
    /\ Place(MznNodeType, "ANNO_VAR") = 17 /\ Place(MznNodeType, "ANNO_OTHER") = 19
    /\ Place(MznNodeType, "Annotation") = 20
<1>1. \A p \in 1 .. 21 : Place(MznNodeType, MznNodeType[p]) = p
  BY PlaceIs, NodeEnum
<1>2. /\ MznNodeType[1] = "INST_FUNCALL" /\ MznNodeType[4] = "INST_OTHER"
      /\ MznNodeType[6] = "VAR_STATICALLOCGLOBALSCOPE" /\ MznNodeType[9] = "VAR_OTHER"
      /\ MznNodeType[11] = "FUNC_ENTRY"
      /\ MznNodeType[12] = "PARAM_FORMALIN" /\ MznNodeType[15] = "PARAM_ACTUALOUT"
      /\ MznNodeType[17] = "ANNO_VAR" /\ MznNodeType[19] = "ANNO_OTHER"
      /\ MznNodeType[20] = "Annotation"
  BY DEF MznNodeType
<1> QED
  BY <1>1, <1>2

LEMMA EdgePlaces ==
    /\ Place(MznEdgeType, "CONTROLDEP_CALLINV") = 1 /\ Place(MznEdgeType, "CONTROLDEP_OTHER") = 6
    /\ Place(MznEdgeType, "DATA_DEF_USE") = 8 /\ Place(MznEdgeType, "DATA_ALIAS") = 13
    /\ Place(MznEdgeType, "PARAMETER_IN") = 20 /\ Place(MznEdgeType, "PARAMETER_FIELD") = 22
    /\ Place(MznEdgeType, "ANNO_GLOBAL") = 25 /\ Place(MznEdgeType, "ANNO_OTHER") = 27
    /\ Place(MznEdgeType, "Anno") = 28
<1>1. \A p \in 1 .. 29 : Place(MznEdgeType, MznEdgeType[p]) = p
  BY PlaceIs, EdgeEnum
<1>2. /\ MznEdgeType[1] = "CONTROLDEP_CALLINV" /\ MznEdgeType[6] = "CONTROLDEP_OTHER"
      /\ MznEdgeType[8] = "DATA_DEF_USE" /\ MznEdgeType[13] = "DATA_ALIAS"
      /\ MznEdgeType[20] = "PARAMETER_IN" /\ MznEdgeType[22] = "PARAMETER_FIELD"
      /\ MznEdgeType[25] = "ANNO_GLOBAL" /\ MznEdgeType[27] = "ANNO_OTHER"
      /\ MznEdgeType[28] = "Anno"
  BY DEF MznEdgeType
<1> QED
  BY <1>1, <1>2

\* A collated type is the types from one place to another.
LEMMA NodeKindPlaces ==
    ASSUME NEW p \in 1 .. 21
    PROVE  /\ MznNodeType[p] \in NodeKinds.Inst <=> p \in 1 .. 4
           /\ MznNodeType[p] \in NodeKinds.VarNode <=> p \in 6 .. 9
           /\ MznNodeType[p] \in NodeKinds.Param <=> p \in 12 .. 15
           /\ MznNodeType[p] \in NodeKinds.Annotation <=> p \in 17 .. 19
           /\ MznNodeType[p] \in GraphNodeType => p \in 1 .. 20
<1>1. MznNodeType[p] \in NodeKinds.Inst <=> p \in 1 .. 4
  BY DEF MznNodeType, NodeKinds, Insts
<1>2. MznNodeType[p] \in NodeKinds.VarNode <=> p \in 6 .. 9
  BY DEF MznNodeType, NodeKinds
<1>3. MznNodeType[p] \in NodeKinds.Param <=> p \in 12 .. 15
  BY DEF MznNodeType, NodeKinds, Params
<1>4. MznNodeType[p] \in NodeKinds.Annotation <=> p \in 17 .. 19
  BY DEF MznNodeType, NodeKinds
<1>5. MznNodeType[p] \in GraphNodeType => p \in 1 .. 20
  BY DEF MznNodeType, GraphNodeType, NodeCollations
<1> QED
  BY <1>1, <1>2, <1>3, <1>4, <1>5

LEMMA EdgeKindPlaces ==
    ASSUME NEW p \in 1 .. 29
    PROVE  /\ MznEdgeType[p] \in EdgeKinds.ControlDep <=> p \in 1 .. 6
           /\ MznEdgeType[p] \in EdgeKinds.Parameter <=> p \in 20 .. 22
           /\ MznEdgeType[p] \in EdgeKinds.Anno <=> p \in 25 .. 27
           /\ MznEdgeType[p] \in EdgeKinds.DataDepEdge <=> p \in 8 .. 13
           /\ MznEdgeType[p] \in EdgeType => p \in 1 .. 28
<1>1. MznEdgeType[p] \in EdgeKinds.ControlDep <=> p \in 1 .. 6
  BY DEF MznEdgeType, EdgeKinds
<1>2. MznEdgeType[p] \in EdgeKinds.Parameter <=> p \in 20 .. 22
  BY DEF MznEdgeType, EdgeKinds
<1>3. MznEdgeType[p] \in EdgeKinds.Anno <=> p \in 25 .. 27
  BY DEF MznEdgeType, EdgeKinds
<1>4. MznEdgeType[p] \in EdgeType => p \in 1 .. 28
  BY DEF MznEdgeType, EdgeType, EdgeCollations
<1>5. MznEdgeType[p] \in EdgeKinds.DataDepEdge <=> p \in 8 .. 13
  BY DEF MznEdgeType, EdgeKinds
<1> QED
  BY <1>1, <1>2, <1>3, <1>4, <1>5


-----------------------------------------------------------------------------
(* Grouping. *)

LEMMA AppendIs ==
    ASSUME NEW X, NEW s \in Seq(X), NEW x \in X
    PROVE  /\ Append(s, x) \in Seq(X)
           /\ Range(Append(s, x)) = Range(s) \cup {x}
           /\ IsInjective(s) /\ x \notin Range(s) => IsInjective(Append(s, x))
<1> DEFINE t == Append(s, x)
<1>1. /\ t \in Seq(X) /\ Len(s) \in Nat /\ DOMAIN s = 1 .. Len(s) /\ DOMAIN t = 1 .. Len(s) + 1
      /\ \A i \in 1 .. Len(s) : t[i] = s[i]
      /\ t[Len(s) + 1] = x
  BY AppendProperties, LenProperties
<1> HIDE DEF t
<1>2. Range(t) = Range(s) \cup {x}
  BY <1>1 DEF Range
<1>3. IsInjective(s) /\ x \notin Range(s) => IsInjective(t)
  BY <1>1 DEF IsInjective, Range
<1> QED
  BY <1>1, <1>2, <1>3 DEF t

LEMMA ConcatIs ==
    ASSUME NEW X, NEW s \in Seq(X), NEW r \in Seq(X)
    PROVE  /\ s \o r \in Seq(X) /\ Len(s \o r) = Len(s) + Len(r)
           /\ \A i \in 1 .. Len(s) + Len(r) :
                 (s \o r)[i] = IF i <= Len(s) THEN s[i] ELSE r[i - Len(s)]
           /\ Range(s \o r) = Range(s) \cup Range(r)
           /\ IsInjective(s) /\ IsInjective(r) /\ Range(s) \cap Range(r) = {} => IsInjective(s \o r)
<1> DEFINE t == s \o r
           m == Len(s)
           n == Len(r)
<1>1. /\ t \in Seq(X) /\ m \in Nat /\ n \in Nat /\ DOMAIN s = 1 .. m /\ DOMAIN r = 1 .. n
      /\ Len(t) = m + n /\ DOMAIN t = 1 .. m + n
      /\ \A i \in 1 .. m + n : t[i] = IF i <= m THEN s[i] ELSE r[i - m]
  BY ConcatProperties, LenProperties
<1> HIDE DEF t, m, n
<1>2. \A i \in 1 .. m : i \in 1 .. m + n /\ t[i] = s[i]
  BY <1>1
<1>3. \A j \in 1 .. n : j + m \in 1 .. m + n /\ t[j + m] = r[j]
  BY <1>1
<1>4. \A i \in 1 .. m + n : i \in 1 .. m \/ (i - m \in 1 .. n /\ i = (i - m) + m)
  BY <1>1
<1>5. Range(t) = Range(s) \cup Range(r)
  <2>1. \A i \in DOMAIN t : t[i] \in Range(s) \cup Range(r)
    BY <1>1, <1>2, <1>3, <1>4 DEF Range
  <2>2. \A i \in DOMAIN s : s[i] \in Range(t)
    BY <1>1, <1>2 DEF Range
  <2>3. \A j \in DOMAIN r : r[j] \in Range(t)
    BY <1>1, <1>3 DEF Range
  <2> QED
    BY <2>1, <2>2, <2>3 DEF Range
<1>6. ASSUME IsInjective(s), IsInjective(r), Range(s) \cap Range(r) = {}
      PROVE  IsInjective(t)
  <2>1. \A i \in 1 .. m, j \in 1 .. n : s[i] # r[j]
    BY <1>1, <1>6 DEF Range
  <2> SUFFICES ASSUME NEW i \in 1 .. m + n, NEW j \in 1 .. m + n, t[i] = t[j] PROVE i = j
    BY <1>1 DEF IsInjective
  <2>2. CASE i \in 1 .. m /\ j \in 1 .. m
    BY <1>1, <1>2, <1>6, <2>2 DEF IsInjective
  <2>3. CASE i \in 1 .. m /\ j \notin 1 .. m
    BY <1>2, <1>3, <1>4, <2>1, <2>3
  <2>4. CASE i \notin 1 .. m /\ j \in 1 .. m
    BY <1>2, <1>3, <1>4, <2>1, <2>4
  <2>5. CASE i \notin 1 .. m /\ j \notin 1 .. m
    <3>1. i - m \in 1 .. n /\ j - m \in 1 .. n /\ r[i - m] = r[j - m]
      BY <1>3, <1>4, <2>5
    <3>2. i - m = j - m
      BY <1>1, <1>6, <3>1 DEF IsInjective
    <3> QED
      BY <1>1, <3>2
  <2> QED
    BY <2>2, <2>3, <2>4, <2>5
<1> QED
  BY <1>1, <1>5, <1>6 DEF t, m, n

Pcs == {"groupNodes", "groupEdges", "numberNodes", "numberEdges", "mzn", "data", "fnArgs",
        "oneway", "llid", "done"}

Typed ==
    /\ graph \in Graphs /\ pc \in Pcs /\ at \in Nat \ {0}
    /\ pc \in {"groupNodes", "groupEdges"} => at \in DOMAIN graph.order

\* The nodes put into a group, and those whose out edges are.
Seen(n) == \E i \in DOMAIN graph.order :
               graph.order[i] = n /\ (pc = "groupNodes" => i < at)
Left(n) == \E i \in DOMAIN graph.order :
               graph.order[i] = n /\ pc # "groupNodes" /\ (pc = "groupEdges" => i < at)

OnAnno(n, e) == "ANNO_VAR" \in {graph.ntype[n], graph.ntype[graph.dst[e]]}

\* The groups hold the nodes and edges passed so far, each once.
NodeGroups ==
    /\ nodesBy \in [GraphNodeType -> Seq(Node)]
    /\ \A t \in GraphNodeType : IsInjective(nodesBy[t])
    /\ \A t \in GraphNodeType : \A n \in Node :
          n \in Range(nodesBy[t]) <=> Seen(n) /\ graph.ntype[n] = t

EdgeTypes ==
    /\ etype \in [Edge -> EdgeType]
    /\ \A n \in Node : \A e \in Range(graph.out[n]) :
          etype[e] = IF Left(n) /\ OnAnno(n, e) THEN "ANNO_VAR" ELSE graph.etype[e]

EdgeGroups ==
    /\ edgesBy \in [EdgeType -> Seq(Edge)]
    /\ \A t \in EdgeType : IsInjective(edgesBy[t])
    /\ \A t \in EdgeType : \A e \in Edge :
          e \in Range(edgesBy[t]) <=>
              etype[e] = t /\ \E n \in Node : Left(n) /\ e \in Range(graph.out[n])

Groups == Typed /\ NodeGroups /\ EdgeTypes /\ EdgeGroups

LEMMA GroupsFirst == Init => Groups
<1> SUFFICES ASSUME Init PROVE Groups
  OBVIOUS
<1>1. graph \in Graphs /\ graph.order \in Seq(Node) /\ graph.order # <<>>
      /\ graph.etype \in [Edge -> EdgeType]
  BY GraphIs DEF Init
<1>2. 1 \in DOMAIN graph.order
  BY <1>1, LenProperties, EmptySeq
<1>3. Typed
  BY <1>1, <1>2 DEF Typed, Init, Pcs
<1>4. \A n : ~Seen(n) /\ ~Left(n)
  <2>1. \A i \in DOMAIN graph.order : ~(i < 1)
    BY <1>1, LenProperties
  <2> QED
    BY <2>1 DEF Seen, Left, Init
<1>5. Range(<<>>) = {} /\ IsInjective(<<>>) /\ <<>> \in Seq(Node) /\ <<>> \in Seq(Edge)
  BY DEF Range, IsInjective
<1>6. NodeGroups
  BY <1>4, <1>5 DEF NodeGroups, Init
<1>7. EdgeTypes
  BY <1>1, <1>4 DEF EdgeTypes, Init
<1>8. EdgeGroups
  BY <1>4, <1>5 DEF EdgeGroups, Init
<1> QED
  BY <1>3, <1>6, <1>7, <1>8 DEF Groups


\* A round of a loop over the nodes passes one node more.
LEMMA NodePassed ==
    ASSUME Typed, pc = "groupNodes", Step(Len(graph.order), "groupEdges"), graph' = graph
    PROVE  /\ Typed' /\ graph.order[at] \in Node
           /\ \A n : Seen(n)' <=> Seen(n) \/ n = graph.order[at]
           /\ ~Seen(graph.order[at])
           /\ \A n : ~Left(n) /\ ~Left(n)'
<1> DEFINE s == graph.order
           n0 == s[at]
<1>1. s \in Seq(Node) /\ IsInjective(s) /\ at \in DOMAIN s /\ Len(s) \in Nat /\ DOMAIN s = 1 .. Len(s)
  BY GraphIs, LenProperties DEF Typed
<1>2. n0 \in Node
  BY <1>1, ElementOfSeq
<1>3. CASE at < Len(s)
  <2>1. at' = at + 1 /\ pc' = pc
    BY <1>3 DEF Step
  <2>2. Typed'
    BY <1>1, <1>3, <2>1 DEF Typed
  <2>3. \A i \in DOMAIN s : i < at + 1 <=> i < at \/ i = at
    BY <1>1
  <2>4. \A n : Seen(n)' <=> Seen(n) \/ n = n0
    BY <1>1, <2>1, <2>3 DEF Seen
  <2>5. \A n : ~Left(n) /\ ~Left(n)'
    BY <2>1 DEF Left
  <2>6. ~Seen(n0)
    <3>1. \A i \in DOMAIN s : s[i] = n0 => i = at
      BY <1>1 DEF IsInjective
    <3> QED
      BY <1>1, <3>1 DEF Seen
  <2> QED
    BY <1>2, <2>2, <2>4, <2>5, <2>6
<1>4. CASE ~(at < Len(s))
  <2>1. at' = 1 /\ pc' = "groupEdges" /\ at = Len(s)
    BY <1>1, <1>4 DEF Step
  <2>2. Typed'
    BY <1>1, <2>1 DEF Typed, Pcs
  <2>3. \A i \in DOMAIN s : i < at \/ i = at
    BY <1>1, <2>1
  <2>4. \A n : Seen(n)' <=> Seen(n) \/ n = n0
    BY <1>1, <2>1, <2>3 DEF Seen
  <2>5. \A n : ~Left(n) /\ ~Left(n)'
    <3>1. \A i \in DOMAIN s : ~(i < 1)
      BY <1>1
    <3> QED
      BY <2>1, <3>1 DEF Left
  <2>6. ~Seen(n0)
    <3>1. \A i \in DOMAIN s : s[i] = n0 => i = at
      BY <1>1 DEF IsInjective
    <3> QED
      BY <1>1, <3>1 DEF Seen
  <2> QED
    BY <1>2, <2>2, <2>4, <2>5, <2>6
<1> QED
  BY <1>3, <1>4

LEMMA EdgesPassed ==
    ASSUME Typed, pc = "groupEdges", Step(Len(graph.order), "numberNodes"), graph' = graph
    PROVE  /\ Typed' /\ graph.order[at] \in Node
           /\ \A n : Left(n)' <=> Left(n) \/ n = graph.order[at]
           /\ ~Left(graph.order[at])
           /\ \A n : Seen(n)' <=> Seen(n)
<1> DEFINE s == graph.order
           n0 == s[at]
<1>1. s \in Seq(Node) /\ IsInjective(s) /\ at \in DOMAIN s /\ Len(s) \in Nat /\ DOMAIN s = 1 .. Len(s)
  BY GraphIs, LenProperties DEF Typed
<1>2. n0 \in Node
  BY <1>1, ElementOfSeq
<1>3. ~Left(n0)
  <2>1. \A i \in DOMAIN s : s[i] = n0 => i = at
    BY <1>1 DEF IsInjective
  <2> QED
    BY <1>1, <2>1 DEF Left
<1>4. CASE at < Len(s)
  <2>1. at' = at + 1 /\ pc' = pc
    BY <1>4 DEF Step
  <2>2. Typed'
    BY <1>1, <1>4, <2>1 DEF Typed
  <2>3. \A i \in DOMAIN s : i < at + 1 <=> i < at \/ i = at
    BY <1>1
  <2>4. \A n : Left(n)' <=> Left(n) \/ n = n0
    BY <1>1, <2>1, <2>3 DEF Left
  <2>5. \A n : Seen(n)' <=> Seen(n)
    BY <2>1 DEF Seen
  <2> QED
    BY <1>2, <1>3, <2>2, <2>4, <2>5
<1>5. CASE ~(at < Len(s))
  <2>1. at' = 1 /\ pc' = "numberNodes" /\ at = Len(s)
    BY <1>1, <1>5 DEF Step
  <2>2. Typed'
    BY <1>1, <2>1 DEF Typed, Pcs
  <2>3. \A i \in DOMAIN s : i < at \/ i = at
    BY <1>1, <2>1
  <2>4. \A n : Left(n)' <=> Left(n) \/ n = n0
    BY <1>1, <2>1, <2>3 DEF Left
  <2>5. \A n : Seen(n)' <=> Seen(n)
    BY <2>1 DEF Seen
  <2> QED
    BY <1>2, <1>3, <2>2, <2>4, <2>5
<1> QED
  BY <1>4, <1>5

LEMMA GroupNodeKeeps == Groups /\ GroupNode => Groups'
<1> SUFFICES ASSUME Groups, GroupNode PROVE Groups'
  OBVIOUS
<1> DEFINE n0 == graph.order[at]
           t0 == graph.ntype[n0]
<1>1. /\ pc = "groupNodes" /\ nodesBy' = [nodesBy EXCEPT ![t0] = Append(@, n0)]
      /\ Step(Len(graph.order), "groupEdges")
      /\ graph' = graph /\ etype' = etype /\ edgesBy' = edgesBy
  BY DEF GroupNode
<1>2. /\ Typed' /\ n0 \in Node
      /\ \A n : Seen(n)' <=> Seen(n) \/ n = n0
      /\ ~Seen(n0)
      /\ \A n : ~Left(n) /\ ~Left(n)'
  BY <1>1, NodePassed DEF Groups
<1>3. graph.ntype \in [Node -> GraphNodeType]
  BY GraphIs DEF Groups, Typed
<1>4. t0 \in GraphNodeType
  BY <1>2, <1>3
<1> HIDE DEF n0, t0
<1>5. NodeGroups
  BY DEF Groups
<1>6. /\ Append(nodesBy[t0], n0) \in Seq(Node)
      /\ Range(Append(nodesBy[t0], n0)) = Range(nodesBy[t0]) \cup {n0}
      /\ IsInjective(Append(nodesBy[t0], n0))
  <2>1. nodesBy[t0] \in Seq(Node) /\ IsInjective(nodesBy[t0]) /\ n0 \notin Range(nodesBy[t0])
    BY <1>2, <1>4, <1>5 DEF NodeGroups
  <2> QED
    BY <1>2, <2>1, AppendIs
<1>7. /\ nodesBy' \in [GraphNodeType -> Seq(Node)]
      /\ nodesBy'[t0] = Append(nodesBy[t0], n0)
      /\ \A t \in GraphNodeType : t # t0 => nodesBy'[t] = nodesBy[t]
  BY <1>1, <1>4, <1>5, <1>6 DEF NodeGroups
<1>8. \A t \in GraphNodeType : IsInjective(nodesBy'[t])
  BY <1>5, <1>6, <1>7 DEF NodeGroups
<1>9. ASSUME NEW t \in GraphNodeType, NEW n \in Node
      PROVE  n \in Range(nodesBy'[t]) <=> Seen(n)' /\ graph'.ntype[n] = t
  <2>1. n \in Range(nodesBy[t]) <=> Seen(n) /\ graph.ntype[n] = t
    BY <1>5 DEF NodeGroups
  <2>2. CASE t = t0
    BY <1>1, <1>2, <1>6, <1>7, <2>1, <2>2 DEF t0
  <2>3. CASE t # t0
    BY <1>1, <1>2, <1>7, <2>1, <2>3 DEF t0
  <2> QED
    BY <2>2, <2>3
<1>10. NodeGroups'
  BY <1>7, <1>8, <1>9 DEF NodeGroups
<1>11. EdgeTypes' /\ EdgeGroups'
  BY <1>1, <1>2 DEF Groups, EdgeTypes, EdgeGroups, OnAnno
<1> QED
  BY <1>2, <1>10, <1>11 DEF Groups


LEMMA GroupEdgesKeeps == Groups /\ GroupEdges => Groups'
<1> SUFFICES ASSUME Groups, GroupEdges PROVE Groups'
  OBVIOUS
<1> DEFINE n0 == graph.order[at]
           own(t) == {e \in Edge : etype'[e] = t}
           new(t) == Kept(graph.out[n0], own(t))
<1>1. /\ pc = "groupEdges" /\ etype' = Relabelled(n0)
      /\ edgesBy' = [t \in EdgeType |-> edgesBy[t] \o new(t)]
      /\ Step(Len(graph.order), "numberNodes")
      /\ graph' = graph /\ nodesBy' = nodesBy
  BY DEF GroupEdges
<1>2. /\ Typed' /\ n0 \in Node
      /\ \A n : Left(n)' <=> Left(n) \/ n = n0
      /\ ~Left(n0)
      /\ \A n : Seen(n)' <=> Seen(n)
  BY <1>1, EdgesPassed DEF Groups
<1>3. /\ graph.out \in [Node -> Seq(Edge)]
      /\ \A n \in Node : IsInjective(graph.out[n])
      /\ \A m, n \in Node : \A e \in Range(graph.out[m]) : e \in Range(graph.out[n]) => m = n
  BY GraphIs DEF Groups, Typed
<1>4. graph.out[n0] \in Seq(Edge) /\ IsInjective(graph.out[n0])
  BY <1>2, <1>3
<1>5. \A n \in Node : Range(graph.out[n]) \subseteq Edge
  BY <1>3, ElementOfSeq, LenProperties DEF Range
<1> HIDE DEF n0
<1>6. EdgeTypes /\ EdgeGroups
  BY DEF Groups
<1>7. /\ etype' \in [Edge -> EdgeType]
      /\ \A e \in Edge : etype'[e] = IF e \in Range(graph.out[n0]) /\ OnAnno(n0, e)
                                     THEN "ANNO_VAR" ELSE etype[e]
  <2>1. "ANNO_VAR" \in EdgeType
    <3>1. MznEdgeType[26] = "ANNO_VAR" /\ 26 \in DOMAIN MznEdgeType
      BY DEF MznEdgeType
    <3>2. "ANNO_VAR" \in Range(MznEdgeType)
      BY <3>1 DEF Range
    <3> QED
      BY <3>2 DEF EdgeType, EdgeCollations
  <2>2. etype' = [e \in Edge |-> IF e \in Range(graph.out[n0]) /\ OnAnno(n0, e)
                                 THEN "ANNO_VAR" ELSE etype[e]]
    BY <1>1 DEF Relabelled, OnAnno
  <2> QED
    BY <1>6, <2>1, <2>2 DEF EdgeTypes
<1>8. ASSUME NEW n \in Node, NEW e \in Range(graph.out[n])
      PROVE  etype'[e] = IF Left(n)' /\ OnAnno(n, e)' THEN "ANNO_VAR" ELSE graph'.etype[e]
  <2>1. e \in Edge /\ (e \in Range(graph.out[n0]) <=> n = n0)
    BY <1>2, <1>3, <1>5
  <2>2. etype[e] = IF Left(n) /\ OnAnno(n, e) THEN "ANNO_VAR" ELSE graph.etype[e]
    BY <1>6 DEF EdgeTypes
  <2>3. OnAnno(n, e)' <=> OnAnno(n, e)
    BY <1>1 DEF OnAnno
  <2> QED
    BY <1>1, <1>2, <1>7, <2>1, <2>2, <2>3
<1>9. EdgeTypes'
  BY <1>1, <1>7, <1>8 DEF EdgeTypes
<1>10. ASSUME NEW t \in EdgeType
       PROVE  /\ new(t) \in Seq(Edge) /\ IsInjective(new(t))
              /\ \A e \in Edge : e \in Range(new(t)) <=> e \in Range(graph.out[n0]) /\ etype'[e] = t
  <2> DEFINE S == own(t)
  <2>1. \A e \in Edge : e \in S <=> etype'[e] = t
    OBVIOUS
  <2> HIDE DEF S
  <2>2. /\ Kept(graph.out[n0], S) \in Seq(Edge)
        /\ Range(Kept(graph.out[n0], S)) = Range(graph.out[n0]) \cap S
        /\ IsInjective(Kept(graph.out[n0], S))
    BY <1>4, KeptIs
  <2>3. \A e \in Edge : e \in Range(Kept(graph.out[n0], S)) <=>
            e \in Range(graph.out[n0]) /\ etype'[e] = t
    BY <2>1, <2>2
  <2> QED
    BY <2>2, <2>3 DEF S
<1>11. \A t \in EdgeType : edgesBy'[t] = edgesBy[t] \o new(t)
  BY <1>1
<1>12. DOMAIN edgesBy' = EdgeType /\ edgesBy' = [t \in EdgeType |-> edgesBy'[t]]
  BY <1>1
<1> HIDE DEF new, own
<1>13. ASSUME NEW t \in EdgeType
       PROVE  /\ edgesBy'[t] \in Seq(Edge) /\ IsInjective(edgesBy'[t])
              /\ \A e \in Edge : e \in Range(edgesBy'[t]) <=>
                    etype'[e] = t /\ \E n \in Node : Left(n)' /\ e \in Range(graph.out[n])
  <2>1. /\ edgesBy[t] \in Seq(Edge) /\ IsInjective(edgesBy[t])
        /\ \A e \in Edge : e \in Range(edgesBy[t]) <=>
              etype[e] = t /\ \E n \in Node : Left(n) /\ e \in Range(graph.out[n])
    BY <1>6 DEF EdgeGroups
  <2>2. ASSUME NEW e \in Edge PROVE ~(e \in Range(edgesBy[t]) /\ e \in Range(new(t)))
    <3>1. ~\E n \in Node : Left(n) /\ e \in Range(graph.out[n]) /\ e \in Range(graph.out[n0])
      BY <1>2, <1>3
    <3>2. e \in Range(edgesBy[t]) => \E n \in Node : Left(n) /\ e \in Range(graph.out[n])
      BY <2>1
    <3>3. e \in Range(new(t)) => e \in Range(graph.out[n0])
      BY <1>10
    <3> QED
      BY <3>1, <3>2, <3>3
  <2>3. Range(edgesBy[t]) \subseteq Edge
    BY <2>1, ElementOfSeq, LenProperties DEF Range
  <2>4. Range(edgesBy[t]) \cap Range(new(t)) = {}
    BY <2>2, <2>3
  <2>5. /\ edgesBy[t] \o new(t) \in Seq(Edge)
        /\ Range(edgesBy[t] \o new(t)) = Range(edgesBy[t]) \cup Range(new(t))
        /\ IsInjective(edgesBy[t] \o new(t))
    BY <1>10, <2>1, <2>4, ConcatIs
  <2>6. ASSUME NEW e \in Edge
        PROVE  e \in Range(edgesBy'[t]) <=>
                   etype'[e] = t /\ \E n \in Node : Left(n)' /\ e \in Range(graph.out[n])
    <3>1. e \in Range(edgesBy'[t]) <=>
              \/ etype[e] = t /\ \E n \in Node : Left(n) /\ e \in Range(graph.out[n])
              \/ e \in Range(graph.out[n0]) /\ etype'[e] = t
      BY <1>10, <1>11, <2>1, <2>5
    <3>2. (\E n \in Node : Left(n) /\ e \in Range(graph.out[n])) => etype'[e] = etype[e]
      BY <1>2, <1>3, <1>7
    <3>3. (\E n \in Node : Left(n)' /\ e \in Range(graph.out[n])) <=>
              \/ \E n \in Node : Left(n) /\ e \in Range(graph.out[n])
              \/ e \in Range(graph.out[n0])
      BY <1>2
    <3> QED
      BY <3>1, <3>2, <3>3
  <2> QED
    BY <1>11, <2>5, <2>6
<1>14. edgesBy' \in [EdgeType -> Seq(Edge)]
  BY <1>12, <1>13
<1>15. EdgeGroups'
  BY <1>1, <1>13, <1>14 DEF EdgeGroups
<1>16. NodeGroups'
  BY <1>1, <1>2, <1>6 DEF Groups, NodeGroups
<1> QED
  BY <1>2, <1>9, <1>15, <1>16 DEF Groups


-----------------------------------------------------------------------------
(* Numbering. *)

\* The groups of a table: every element of by[t] is of type t.
Grouped(by, type, X, T) ==
    /\ by \in [T -> Seq(X)]
    /\ \A t \in T : IsInjective(by[t]) /\ \A x \in Range(by[t]) : type[x] = t

Low(tab, p)  == tab.range[p][1]
High(tab, p) == tab.range[p][2]

\* Each range is the stretch of its group, and the stretches follow each other.
Stretch(tab, p, group) ==
    /\ Low(tab, p) \in Nat /\ High(tab, p) \in Nat /\ Low(tab, p) < High(tab, p)
    /\ High(tab, p) = Low(tab, p) + Len(group) /\ High(tab, p) <= Len(tab.ordered)
    /\ \A j \in 1 .. Len(group) : tab.ordered[Low(tab, p) + j] = group[j]

Stretches(tab, by, enum, X) ==
    /\ tab.ordered \in Seq(X)
    /\ \A p \in DOMAIN tab.range : Stretch(tab, p, by[enum[p]])
    /\ \A p, q \in DOMAIN tab.range : p < q => High(tab, p) <= Low(tab, q)
    /\ \A i \in DOMAIN tab.ordered :
          \E p \in DOMAIN tab.range : i \in Low(tab, p) + 1 .. High(tab, p)

Ids(tab) ==
    /\ DOMAIN tab.ids = Range(tab.ordered)
    /\ \A i \in DOMAIN tab.ordered : tab.ids[tab.ordered[i]] = i - 1

HasGroup(by, enum, p) == enum[p] \in DOMAIN by /\ by[enum[p]] # <<>>

\* A table that has numbered the groups of the places before k.
Upto(tab, by, enum, X, k) ==
    /\ Stretches(tab, by, enum, X)
    /\ Ids(tab)
    /\ \A p : p \in DOMAIN tab.range <=> p \in DOMAIN enum /\ p < k /\ HasGroup(by, enum, p)

LEMMA EmptyUpto ==
    ASSUME NEW by, NEW enum, NEW X, DOMAIN enum \subseteq Nat \ {0}
    PROVE  Upto(Empty, by, enum, X, 1)
<1>1. /\ Empty.range = <<>> /\ Empty.ids = <<>> /\ Empty.ordered = <<>>
      /\ DOMAIN <<>> = {} /\ Range(<<>>) = {} /\ <<>> \in Seq(X)
  BY DEF Empty, Range
<1>2. Stretches(Empty, by, enum, X)
  BY <1>1 DEF Stretches
<1>3. Ids(Empty)
  BY <1>1 DEF Ids
<1>4. \A p \in DOMAIN enum : ~(p < 1)
  OBVIOUS
<1> QED
  BY <1>1, <1>2, <1>3, <1>4 DEF Upto

\* A place that no group has can be passed.
LEMMA UptoPasses ==
    ASSUME NEW by, NEW enum, NEW X, DOMAIN enum \subseteq Nat, NEW tab,
           NEW k \in Nat, NEW m \in Nat, Upto(tab, by, enum, X, k), k <= m,
           \A q \in DOMAIN enum : k <= q /\ q < m => ~HasGroup(by, enum, q)
    PROVE  Upto(tab, by, enum, X, m)
<1>1. \A q \in DOMAIN enum : q < m /\ HasGroup(by, enum, q) <=> q < k /\ HasGroup(by, enum, q)
  OBVIOUS
<1> QED
  BY <1>1 DEF Upto

\* The element at a number is of the type whose stretch the number is in.
LEMMA StretchTypes ==
    ASSUME NEW X, NEW T, NEW type, NEW by, Grouped(by, type, X, T), NEW enum, NEW k, NEW tab,
           Upto(tab, by, enum, X, k),
           NEW i \in DOMAIN tab.ordered, NEW p \in DOMAIN tab.range,
           i \in Low(tab, p) + 1 .. High(tab, p)
    PROVE  /\ p \in DOMAIN enum /\ enum[p] \in T /\ type[tab.ordered[i]] = enum[p]
           /\ tab.ordered[i] \in Range(by[enum[p]])
<1>1. p \in DOMAIN enum /\ enum[p] \in T
  BY DEF Upto, HasGroup, Grouped
<1> DEFINE group == by[enum[p]]
<1>2. Stretch(tab, p, group)
  BY DEF Upto, Stretches
<1>3. group \in Seq(X) /\ \A x \in Range(group) : type[x] = enum[p]
  BY <1>1 DEF Grouped
<1> HIDE DEF group
<1>4. Len(group) \in Nat /\ DOMAIN group = 1 .. Len(group)
  BY <1>3, LenProperties
<1>5. Low(tab, p) \in Nat /\ High(tab, p) = Low(tab, p) + Len(group)
  BY <1>2 DEF Stretch
<1>6. i - Low(tab, p) \in 1 .. Len(group) /\ Low(tab, p) + (i - Low(tab, p)) = i
  BY <1>4, <1>5
<1>7. tab.ordered[i] = group[i - Low(tab, p)]
  BY <1>2, <1>6 DEF Stretch
<1>8. tab.ordered[i] \in Range(group)
  BY <1>4, <1>6, <1>7 DEF Range
<1> QED
  BY <1>1, <1>3, <1>8 DEF group


\* A round puts the group of the next place behind the others.
LEMMA NumberedKeeps ==
    ASSUME NEW X, NEW T, NEW type, NEW by, Grouped(by, type, X, T),
           NEW enum, IsInjective(enum), DOMAIN enum \subseteq Nat,
           NEW k \in Nat, NEW tab, Upto(tab, by, enum, X, k),
           NEW p \in DOMAIN enum, k <= p, HasGroup(by, enum, p),
           \A q \in DOMAIN enum : k <= q /\ q < p => ~HasGroup(by, enum, q)
    PROVE  Upto(Numbered(tab, p, by[enum[p]]), by, enum, X, p + 1)
<1> DEFINE g == by[enum[p]]
           new == Numbered(tab, p, g)
           D == DOMAIN tab.range
           l == Len(tab.ordered)
           m == Len(g)
<1>1. enum[p] \in T /\ g \in Seq(X) /\ g # <<>> /\ IsInjective(g)
      /\ \A x \in Range(g) : type[x] = enum[p]
  BY DEF HasGroup, Grouped
<1>2. tab.ordered \in Seq(X) /\ Stretches(tab, by, enum, X) /\ Ids(tab)
      /\ \A q : q \in D <=> q \in DOMAIN enum /\ q < k /\ HasGroup(by, enum, q)
  BY DEF Upto, Stretches
<1>3. l \in Nat /\ DOMAIN tab.ordered = 1 .. l /\ m \in Nat \ {0} /\ DOMAIN g = 1 .. m
  BY <1>1, <1>2, LenProperties, EmptySeq
<1>4. /\ new.ordered \in Seq(X) /\ Len(new.ordered) = l + m /\ DOMAIN new.ordered = 1 .. l + m
      /\ \A i \in 1 .. l + m : new.ordered[i] = IF i <= l THEN tab.ordered[i] ELSE g[i - l]
      /\ Range(new.ordered) = Range(tab.ordered) \cup Range(g)
  <2>1. new.ordered = tab.ordered \o g
    BY DEF Numbered
  <2> DEFINE o == tab.ordered
  <2>2. o \in Seq(X) /\ g \in Seq(X)
    BY <1>1, <1>2
  <2> HIDE DEF o, g
  <2>3. /\ o \o g \in Seq(X) /\ Len(o \o g) = Len(o) + Len(g)
        /\ \A i \in 1 .. Len(o) + Len(g) : (o \o g)[i] = IF i <= Len(o) THEN o[i] ELSE g[i - Len(o)]
        /\ Range(o \o g) = Range(o) \cup Range(g)
    BY <2>2, ConcatIs
  <2>4. DOMAIN (o \o g) = 1 .. Len(o) + Len(g)
    BY <2>3, LenProperties
  <2> QED
    BY <2>1, <2>3, <2>4 DEF o
<1>5. p \in Nat /\ p \notin D /\ \A q \in D : q \in Nat /\ q < p
  BY <1>2
<1>6. /\ DOMAIN new.range = D \cup {p}
      /\ new.range[p] = <<l, l + m>>
      /\ \A q \in D : new.range[q] = tab.range[q]
  BY <1>5 DEF Numbered
<1>7. /\ DOMAIN new.ids = DOMAIN tab.ids \cup Range(g)
      /\ \A x \in DOMAIN new.ids :
            new.ids[x] = IF x \in Range(g) THEN l + Place(g, x) - 1 ELSE tab.ids[x]
  BY DEF Numbered
<1> HIDE DEF new, D, l, m
<1>8. /\ Low(new, p) = l /\ High(new, p) = l + m
      /\ \A q \in D : Low(new, q) = Low(tab, q) /\ High(new, q) = High(tab, q)
  BY <1>6 DEF Low, High
<1>9. ASSUME NEW q \in D PROVE Stretch(new, q, by[enum[q]]) /\ High(new, q) <= l
  <2> DEFINE h == by[enum[q]]
  <2>1. Stretch(tab, q, h)
    BY <1>2 DEF Stretches, D
  <2>2. h \in Seq(X)
    BY <1>2 DEF HasGroup, Grouped
  <2> HIDE DEF h
  <2>3. Len(h) \in Nat
    BY <2>2, LenProperties
  <2>4. /\ Low(tab, q) \in Nat /\ High(tab, q) \in Nat /\ Low(tab, q) < High(tab, q)
        /\ High(tab, q) = Low(tab, q) + Len(h) /\ High(tab, q) <= l
        /\ \A j \in 1 .. Len(h) : tab.ordered[Low(tab, q) + j] = h[j]
    BY <2>1 DEF Stretch, l
  <2>5. \A j \in 1 .. Len(h) : Low(tab, q) + j \in 1 .. l /\ Low(tab, q) + j \in 1 .. l + m
    BY <1>3, <2>3, <2>4
  <2>6. ASSUME NEW j \in 1 .. Len(h) PROVE new.ordered[Low(tab, q) + j] = h[j]
    <3>1. Low(tab, q) + j \in 1 .. l + m /\ Low(tab, q) + j <= l
      BY <2>5
    <3>2. new.ordered[Low(tab, q) + j] = tab.ordered[Low(tab, q) + j]
      BY <1>4, <3>1
    <3> QED
      BY <2>4, <3>2
  <2>7. High(tab, q) <= Len(new.ordered)
    BY <1>3, <1>4, <2>4
  <2>8. Stretch(new, q, h)
    BY <1>8, <2>4, <2>6, <2>7 DEF Stretch
  <2> QED
    BY <1>8, <2>4, <2>8 DEF h
<1>10. Stretch(new, p, g)
  <2>1. \A j \in 1 .. m : l + j \in 1 .. l + m /\ ~(l + j <= l) /\ (l + j) - l = j
    BY <1>3
  <2>2. \A j \in 1 .. m : new.ordered[l + j] = g[j]
    BY <1>4, <2>1
  <2>3. l \in Nat /\ l + m \in Nat /\ l < l + m /\ l + m <= Len(new.ordered)
    BY <1>3, <1>4
  <2> QED
    BY <1>8, <2>2, <2>3 DEF Stretch, m
<1>11. \A q, r \in DOMAIN new.range : q < r => High(new, q) <= Low(new, r)
  <2> SUFFICES ASSUME NEW q \in D \cup {p}, NEW r \in D \cup {p}, q < r
               PROVE  High(new, q) <= Low(new, r)
    BY <1>6
  <2>1. CASE q \in D /\ r \in D
    BY <1>2, <1>8, <2>1 DEF Stretches, D
  <2>2. CASE q \in D /\ r = p
    BY <1>8, <1>9, <2>2
  <2>3. CASE q = p
    BY <1>5, <2>3
  <2> QED
    BY <2>1, <2>2, <2>3
<1>12. \A i \in DOMAIN new.ordered :
           \E q \in DOMAIN new.range : i \in Low(new, q) + 1 .. High(new, q)
  <2> SUFFICES ASSUME NEW i \in 1 .. l + m
               PROVE  \E q \in D \cup {p} : i \in Low(new, q) + 1 .. High(new, q)
    BY <1>4, <1>6
  <2>1. CASE i \in 1 .. l
    <3>1. PICK q \in D : i \in Low(tab, q) + 1 .. High(tab, q)
      BY <1>2, <1>3, <2>1 DEF Stretches, D
    <3> QED
      BY <1>8, <3>1
  <2>2. CASE i \notin 1 .. l
    <3>1. i \in l + 1 .. l + m
      BY <1>3, <2>2
    <3> QED
      BY <1>8, <3>1
  <2> QED
    BY <2>1, <2>2
<1>13. Stretches(new, by, enum, X)
  BY <1>4, <1>6, <1>9, <1>10, <1>11, <1>12 DEF Stretches
<1>14. ASSUME NEW i \in 1 .. l PROVE tab.ordered[i] \notin Range(g)
  <2>1. PICK q \in D : i \in Low(tab, q) + 1 .. High(tab, q)
    BY <1>2, <1>3 DEF Stretches, D
  <2>2. type[tab.ordered[i]] = enum[q] /\ q \in DOMAIN enum
    BY <1>3, <2>1, StretchTypes DEF D
  <2>3. enum[q] # enum[p]
    BY <1>5, <2>2 DEF IsInjective
  <2> QED
    BY <1>1, <2>2, <2>3
<1>15. Ids(new)
  <2>1. DOMAIN new.ids = Range(new.ordered)
    BY <1>2, <1>4, <1>7 DEF Ids
  <2>2. ASSUME NEW i \in 1 .. l PROVE new.ids[new.ordered[i]] = i - 1
    <3>1. i \in 1 .. l + m /\ i <= l /\ i \in DOMAIN tab.ordered
      BY <1>3
    <3>2. new.ordered[i] = tab.ordered[i] /\ tab.ordered[i] \notin Range(g)
      BY <1>4, <1>14, <3>1
    <3>3. tab.ordered[i] \in DOMAIN tab.ids /\ tab.ids[tab.ordered[i]] = i - 1
      BY <1>2, <3>1 DEF Ids, Range
    <3> QED
      BY <1>7, <3>2, <3>3
  <2>3. ASSUME NEW i \in l + 1 .. l + m PROVE new.ids[new.ordered[i]] = i - 1
    <3>1. i \in 1 .. l + m /\ ~(i <= l) /\ i - l \in 1 .. m
      BY <1>3
    <3>2. new.ordered[i] = g[i - l]
      BY <1>4, <3>1
    <3>3. Place(g, g[i - l]) = i - l /\ g[i - l] \in Range(g)
      BY <1>1, <1>3, <3>1, PlaceIs DEF Range
    <3>4. new.ids[g[i - l]] = l + (i - l) - 1
      BY <1>7, <3>3
    <3> QED
      BY <1>3, <3>2, <3>4
  <2>4. \A i \in DOMAIN new.ordered : i \in 1 .. l \/ i \in l + 1 .. l + m
    BY <1>3, <1>4
  <2> QED
    BY <2>1, <2>2, <2>3, <2>4 DEF Ids
<1>16. \A q : q \in DOMAIN new.range <=> q \in DOMAIN enum /\ q < p + 1 /\ HasGroup(by, enum, q)
  <2>1. ASSUME NEW q \in DOMAIN enum, HasGroup(by, enum, q) PROVE q < p + 1 <=> q < k \/ q = p
    <3>1. ~(k <= q /\ q < p)
      BY <2>1
    <3> QED
      BY <3>1, <1>5
  <2> QED
    BY <1>2, <1>6, <2>1
<1> QED
  BY <1>13, <1>15, <1>16 DEF Upto, new


Grouping == {"groupNodes", "groupEdges"}

\* The tables hold the groups of the places passed so far.
Numbering ==
    /\ pc \in Grouping => nodeTab = Empty
    /\ pc \in Grouping \cup {"numberNodes"} => edgeTab = Empty
    /\ pc = "numberNodes" => Upto(nodeTab, nodesBy, MznNodeType, Node, at)
    /\ pc \notin Grouping \cup {"numberNodes"} => Upto(nodeTab, nodesBy, MznNodeType, Node, 22)
    /\ pc = "numberEdges" => Upto(edgeTab, edgesBy, MznEdgeType, Edge, at)
    /\ pc \notin Grouping \cup {"numberNodes", "numberEdges"} =>
          Upto(edgeTab, edgesBy, MznEdgeType, Edge, 30)

LEMMA NumberingFirst == Init => Numbering
BY DEF Init, Numbering, Grouping

\* The groups stay as they are once they are made.
LEMMA GroupsStay ==
    ASSUME Groups, pc \notin Grouping, pc' \in Pcs \ Grouping, at' \in Nat \ {0},
           UNCHANGED <<graph, etype, nodesBy, edgesBy>>
    PROVE  Groups'
<1>1. graph' = graph /\ etype' = etype /\ nodesBy' = nodesBy /\ edgesBy' = edgesBy
  OBVIOUS
<1>2. pc \notin {"groupNodes", "groupEdges"} /\ pc' \notin {"groupNodes", "groupEdges"}
  BY DEF Grouping
<1>3. Typed'
  BY <1>1, <1>2 DEF Groups, Typed
<1>4. \A n : (Seen(n)' <=> Seen(n)) /\ (Left(n)' <=> Left(n))
  BY <1>1, <1>2 DEF Seen, Left
<1>5. NodeGroups'
  BY <1>1, <1>4 DEF Groups, NodeGroups
<1>6. EdgeTypes'
  BY <1>1, <1>4 DEF Groups, EdgeTypes, OnAnno
<1>7. EdgeGroups'
  BY <1>1, <1>4 DEF Groups, EdgeGroups
<1> QED
  BY <1>3, <1>5, <1>6, <1>7 DEF Groups

LEMMA GroupedNodes == Groups => Grouped(nodesBy, graph.ntype, Node, GraphNodeType)
<1> SUFFICES ASSUME Groups PROVE Grouped(nodesBy, graph.ntype, Node, GraphNodeType)
  OBVIOUS
<1>1. NodeGroups
  BY DEF Groups
<1>2. \A t \in GraphNodeType : Range(nodesBy[t]) \subseteq Node
  BY <1>1, ElementOfSeq, LenProperties DEF NodeGroups, Range
<1> QED
  BY <1>1, <1>2 DEF NodeGroups, Grouped

LEMMA GroupedEdges == Groups => Grouped(edgesBy, etype, Edge, EdgeType)
<1> SUFFICES ASSUME Groups PROVE Grouped(edgesBy, etype, Edge, EdgeType)
  OBVIOUS
<1>1. EdgeGroups
  BY DEF Groups
<1>2. \A t \in EdgeType : Range(edgesBy[t]) \subseteq Edge
  BY <1>1, ElementOfSeq, LenProperties DEF EdgeGroups, Range
<1> QED
  BY <1>1, <1>2 DEF EdgeGroups, Grouped

\* A round of toRangesAndIds, and the last of them.
LEMMA NumberKeeps ==
    ASSUME NEW X, NEW T, NEW type, NEW by, Grouped(by, type, X, T),
           NEW enum, IsInjective(enum), NEW n \in Nat, DOMAIN enum = 1 .. n,
           at \in Nat \ {0}, NEW tab, NEW new, Upto(tab, by, enum, X, at),
           NEW p \in Filled(by, enum), \A q \in Filled(by, enum) : p <= q,
           new = Numbered(tab, p, by[enum[p]])
    PROVE  /\ p \in 1 .. n /\ Upto(new, by, enum, X, p + 1)
           /\ Filled(by, enum) = {p} => Upto(new, by, enum, X, n + 1)
<1>1. p \in DOMAIN enum /\ at <= p /\ HasGroup(by, enum, p) /\ p \in 1 .. n
  BY DEF Filled, HasGroup
<1>2. ASSUME NEW q \in DOMAIN enum, at <= q, q < p PROVE ~HasGroup(by, enum, q)
  <2>1. q \in Nat /\ p \in Nat /\ q >= at /\ ~(p <= q)
    BY <1>1, <1>2
  <2> QED
    BY <2>1 DEF Filled, HasGroup
<1>3. DOMAIN enum \subseteq Nat /\ at \in Nat
  OBVIOUS
<1>4. Upto(new, by, enum, X, p + 1)
  BY <1>1, <1>2, <1>3, NumberedKeeps
<1>5. ASSUME Filled(by, enum) = {p} PROVE Upto(new, by, enum, X, n + 1)
  <2>1. ASSUME NEW q \in DOMAIN enum, p + 1 <= q PROVE ~HasGroup(by, enum, q)
    <3>1. q >= at /\ q # p
      BY <1>1, <2>1
    <3> QED
      BY <1>5, <3>1 DEF Filled, HasGroup
  <2>2. p + 1 \in Nat /\ n + 1 \in Nat /\ p + 1 <= n + 1
    BY <1>1
  <2> QED
    BY <1>3, <1>4, <2>1, <2>2, UptoPasses
<1> QED
  BY <1>1, <1>4, <1>5

LEMMA NumberNodesKeeps == Groups /\ Numbering /\ NumberNodes => Groups' /\ Numbering'
<1> SUFFICES ASSUME Groups, Numbering, NumberNodes PROVE Groups' /\ Numbering'
  OBVIOUS
<1>1. /\ pc = "numberNodes" /\ UNCHANGED <<graph, etype, nodesBy, edgesBy>> /\ edgeTab' = edgeTab
      /\ Number(nodesBy, MznNodeType, nodeTab, "numberEdges")
  BY DEF NumberNodes
<1>2. at \in Nat \ {0} /\ Upto(nodeTab, nodesBy, MznNodeType, Node, at) /\ edgeTab = Empty
  BY <1>1 DEF Groups, Typed, Numbering, Grouping
<1>3. PICK p \in Filled(nodesBy, MznNodeType) :
          /\ \A q \in Filled(nodesBy, MznNodeType) : p <= q
          /\ nodeTab' = Numbered(nodeTab, p, nodesBy[MznNodeType[p]])
          /\ IF Filled(nodesBy, MznNodeType) = {p} THEN at' = 1 /\ pc' = "numberEdges"
                                                   ELSE at' = p + 1 /\ pc' = pc
  BY <1>1 DEF Number
<1>4. /\ p \in 1 .. 21 /\ Upto(nodeTab', nodesBy, MznNodeType, Node, p + 1)
      /\ Filled(nodesBy, MznNodeType) = {p} => Upto(nodeTab', nodesBy, MznNodeType, Node, 21 + 1)
  BY <1>2, <1>3, GroupedNodes, NodeEnum, NumberKeeps
<1>5. at' \in Nat \ {0} /\ pc' \in {"numberNodes", "numberEdges"}
  BY <1>1, <1>3, <1>4
<1>6. Groups'
  BY <1>1, <1>5, GroupsStay DEF Pcs, Grouping
<1>7. CASE Filled(nodesBy, MznNodeType) = {p}
  <2>1. Upto(edgeTab, edgesBy, MznEdgeType, Edge, 1)
    BY <1>2, EdgeEnum, EmptyUpto
  <2> QED
    BY <1>1, <1>3, <1>4, <1>6, <1>7, <2>1 DEF Numbering, Grouping
<1>8. CASE Filled(nodesBy, MznNodeType) # {p}
  BY <1>1, <1>2, <1>3, <1>4, <1>6, <1>8 DEF Numbering, Grouping
<1> QED
  BY <1>7, <1>8

LEMMA NumberEdgesKeeps == Groups /\ Numbering /\ NumberEdges => Groups' /\ Numbering'
<1> SUFFICES ASSUME Groups, Numbering, NumberEdges PROVE Groups' /\ Numbering'
  OBVIOUS
<1>1. /\ pc = "numberEdges" /\ UNCHANGED <<graph, etype, nodesBy, edgesBy>> /\ nodeTab' = nodeTab
      /\ IF Filled(edgesBy, MznEdgeType) = {}
         THEN pc' = "mzn" /\ at' = at /\ edgeTab' = edgeTab
         ELSE Number(edgesBy, MznEdgeType, edgeTab, "mzn")
  BY DEF NumberEdges
<1>2. /\ at \in Nat \ {0} /\ Upto(edgeTab, edgesBy, MznEdgeType, Edge, at)
      /\ Upto(nodeTab, nodesBy, MznNodeType, Node, 22)
  BY <1>1 DEF Groups, Typed, Numbering, Grouping
<1>3. CASE Filled(edgesBy, MznEdgeType) = {}
  <2>1. Groups'
    BY <1>1, <1>2, <1>3, GroupsStay DEF Pcs, Grouping
  <2>2. ASSUME NEW q \in DOMAIN MznEdgeType, at <= q PROVE ~HasGroup(edgesBy, MznEdgeType, q)
    <3>1. q >= at
      BY <1>2, <2>2, EdgeEnum
    <3> QED
      BY <1>3, <3>1 DEF Filled, HasGroup
  <2>3. \A q \in DOMAIN MznEdgeType : q < 30 /\ q \in Nat
    BY EdgeEnum
  <2>4. \A q : q \in DOMAIN edgeTab.range <=>
                  q \in DOMAIN MznEdgeType /\ q < 30 /\ HasGroup(edgesBy, MznEdgeType, q)
    <3>1. \A q \in DOMAIN MznEdgeType : HasGroup(edgesBy, MznEdgeType, q) => q < at
      BY <1>2, <2>2, <2>3
    <3> QED
      BY <1>2, <2>3, <3>1 DEF Upto
  <2>5. Upto(edgeTab, edgesBy, MznEdgeType, Edge, 30)
    BY <1>2, <2>4 DEF Upto
  <2> QED
    BY <1>1, <1>2, <1>3, <2>1, <2>5 DEF Numbering, Grouping
<1>4. CASE Filled(edgesBy, MznEdgeType) # {}
  <2>1. PICK p \in Filled(edgesBy, MznEdgeType) :
            /\ \A q \in Filled(edgesBy, MznEdgeType) : p <= q
            /\ edgeTab' = Numbered(edgeTab, p, edgesBy[MznEdgeType[p]])
            /\ IF Filled(edgesBy, MznEdgeType) = {p} THEN at' = 1 /\ pc' = "mzn"
                                                     ELSE at' = p + 1 /\ pc' = pc
    BY <1>1, <1>4 DEF Number
  <2>2. /\ p \in 1 .. 29 /\ Upto(edgeTab', edgesBy, MznEdgeType, Edge, p + 1)
        /\ Filled(edgesBy, MznEdgeType) = {p} => Upto(edgeTab', edgesBy, MznEdgeType, Edge, 29 + 1)
    BY <1>2, <2>1, GroupedEdges, EdgeEnum, NumberKeeps
  <2>3. at' \in Nat \ {0} /\ pc' \in {"numberEdges", "mzn"}
    BY <1>1, <2>1, <2>2
  <2>4. Groups'
    BY <1>1, <2>3, GroupsStay DEF Pcs, Grouping
  <2>5. CASE Filled(edgesBy, MznEdgeType) = {p}
    BY <1>1, <1>2, <2>1, <2>2, <2>4, <2>5 DEF Numbering, Grouping
  <2>6. CASE Filled(edgesBy, MznEdgeType) # {p}
    BY <1>1, <1>2, <2>1, <2>2, <2>4, <2>6 DEF Numbering, Grouping
  <2> QED
    BY <2>5, <2>6
<1> QED
  BY <1>3, <1>4


-----------------------------------------------------------------------------
(* What the files say. *)

MznFile ==
    [nodes |-> StartEnd(nodeTab.range, MznNodeType, NodeCollations),
     edges |-> StartEnd(edgeTab.range, MznEdgeType, EdgeCollations),
     hasFunction |-> HasFunction, hasSource |-> HasSource, hasDest |-> HasDest,
     hasParamIdx |-> HasParamIdx, userAnnotated |-> UserAnnotated,
     maxFuncParams |-> MaxFnParams, taints |-> Taints]

DataFile == [nodes |-> DataNodes, edges |-> DataEdges]

FnArgsFile ==
    [i \in DOMAIN AnnotatedEntries |->
        LET n == AnnotatedEntries[i]
        IN [fn |-> n, anno |-> graph.anno[n], args |-> graph.arity[n]]]

OnewayFile ==
    [i \in DOMAIN AnnotatedEntries |->
        LET n == AnnotatedEntries[i]
        IN [fn |-> n, anno |-> graph.anno[n], used |-> n \in FnResultUsed]]

\* Nothing a file was made from changes after it was written.
LEMMA FilesStay ==
    ASSUME graph' = graph, etype' = etype, nodeTab' = nodeTab, edgeTab' = edgeTab
    PROVE  /\ MznFile' = MznFile /\ DataFile' = DataFile
           /\ FnArgsFile' = FnArgsFile /\ OnewayFile' = OnewayFile
           /\ \A n, g : Row(n, g)' = Row(n, g)
<1>1. \A n : Id(n)' = Id(n) /\ (HasFn(n)' <=> HasFn(n)) 
  BY DEF Id, HasFn
<1>2. \A e : Src(e)' = Src(e)
  BY DEF Src
<1>3. Nodes' = Nodes /\ Edges' = Edges
  BY DEF Nodes, Edges
<1>4. HasFunction' = HasFunction /\ HasSource' = HasSource /\ HasDest' = HasDest
  BY <1>1, <1>2, <1>3 DEF HasFunction, HasSource, HasDest
<1>5. \A T : NodesOf(T)' = NodesOf(T)
  BY <1>3 DEF NodesOf
<1>6. HasParamIdx' = HasParamIdx
  BY <1>5 DEF HasParamIdx, ParamIdx
<1>7. UserAnnotated' = UserAnnotated
  BY <1>5 DEF UserAnnotated, Entries
<1>8. MaxFnParams' = MaxFnParams
  BY DEF MaxFnParams
<1>9. Taints' = Taints
  BY <1>3 DEF Taints
<1>10. DataNodes' = DataNodes /\ DataEdges' = DataEdges
  BY <1>1, <1>2, <1>3 DEF DataNodes, DataEdges, DataRow
<1>11. AnnotatedEntries' = AnnotatedEntries
  BY <1>3 DEF AnnotatedEntries
<1>12. FnResultUsed' = FnResultUsed
  BY <1>2, <1>3 DEF FnResultUsed, EdgeID
<1>13. MznFile' = MznFile
  BY <1>4, <1>6, <1>7, <1>8, <1>9 DEF MznFile
<1>14. DataFile' = DataFile
  BY <1>10 DEF DataFile
<1>15. FnArgsFile' = FnArgsFile
  BY <1>11 DEF FnArgsFile
<1>16. OnewayFile' = OnewayFile
  BY <1>11, <1>12 DEF OnewayFile
<1>17. \A n, g : Row(n, g)' = Row(n, g)
  BY <1>1, <1>3 DEF Row
<1> QED
  BY <1>13, <1>14, <1>15, <1>16, <1>17


-----------------------------------------------------------------------------
(* What a finished table says. *)

LEMMA IdsInjective ==
    ASSUME NEW X, NEW tab, tab.ordered \in Seq(X), Ids(tab) PROVE IsInjective(tab.ordered)
<1>1. \A i \in DOMAIN tab.ordered : i \in Nat
  BY LenProperties
<1> SUFFICES ASSUME NEW i \in DOMAIN tab.ordered, NEW j \in DOMAIN tab.ordered,
                    tab.ordered[i] = tab.ordered[j]
             PROVE  i = j
  BY DEF IsInjective
<1>2. i - 1 = j - 1
  BY DEF Ids
<1> QED
  BY <1>1, <1>2

\* Every number is of an element of a group, and every element of a group whose
\* place was passed has a number.
LEMMA TableTyped ==
    ASSUME NEW X, NEW T, NEW type, NEW by, Grouped(by, type, X, T), NEW enum, NEW k, NEW tab,
           Upto(tab, by, enum, X, k), NEW i \in DOMAIN tab.ordered
    PROVE  \E t \in T : tab.ordered[i] \in Range(by[t])
<1>1. PICK p \in DOMAIN tab.range : i \in Low(tab, p) + 1 .. High(tab, p)
  BY DEF Upto, Stretches
<1> QED
  BY <1>1, StretchTypes

LEMMA TableReaches ==
    ASSUME NEW X, NEW T, NEW type, NEW by, Grouped(by, type, X, T), NEW enum, NEW k, NEW tab,
           Upto(tab, by, enum, X, k), NEW p \in DOMAIN enum, p < k, enum[p] \in T,
           NEW x \in Range(by[enum[p]])
    PROVE  x \in Range(tab.ordered)
<1>1. Stretches(tab, by, enum, X)
  BY DEF Upto
<1> DEFINE g == by[enum[p]]
<1>2. g \in Seq(X)
  BY DEF Grouped
<1>3. PICK j \in DOMAIN g : g[j] = x
  BY DEF Range
<1>4. Len(g) \in Nat /\ DOMAIN g = 1 .. Len(g)
  BY <1>2, LenProperties
<1>5. HasGroup(by, enum, p)
  BY <1>3 DEF HasGroup, Grouped
<1>6. p \in DOMAIN tab.range
  BY <1>5 DEF Upto
<1>7. Stretch(tab, p, g)
  BY <1>1, <1>6 DEF Stretches
<1> HIDE DEF g
<1>8. Low(tab, p) + j \in 1 .. Len(tab.ordered)
  <2>1. Len(tab.ordered) \in Nat
    BY <1>1, LenProperties DEF Stretches
  <2> QED
    BY <1>3, <1>4, <1>7, <2>1 DEF Stretch
<1>9. tab.ordered[Low(tab, p) + j] = x
  BY <1>3, <1>4, <1>7 DEF Stretch
<1>10. Low(tab, p) + j \in DOMAIN tab.ordered
  BY <1>1, <1>8, LenProperties DEF Stretches
<1> QED
  BY <1>9, <1>10 DEF Range

\* The elements are in the order of their types.
LEMMA TableSorted ==
    ASSUME NEW X, NEW T, NEW type, NEW by, Grouped(by, type, X, T),
           NEW enum, IsInjective(enum), NEW k \in Nat, DOMAIN enum \subseteq Nat,
           NEW tab, Upto(tab, by, enum, X, k),
           NEW i \in DOMAIN tab.ordered, NEW j \in DOMAIN tab.ordered, i < j
    PROVE  Place(enum, type[tab.ordered[i]]) <= Place(enum, type[tab.ordered[j]])
<1>1. Stretches(tab, by, enum, X) /\ i \in Nat /\ j \in Nat
  BY LenProperties DEF Upto, Stretches
<1>2. PICK p \in DOMAIN tab.range : i \in Low(tab, p) + 1 .. High(tab, p)
  BY <1>1 DEF Stretches
<1>3. PICK q \in DOMAIN tab.range : j \in Low(tab, q) + 1 .. High(tab, q)
  BY <1>1 DEF Stretches
<1>4. p \in DOMAIN enum /\ q \in DOMAIN enum
      /\ type[tab.ordered[i]] = enum[p] /\ type[tab.ordered[j]] = enum[q]
  BY <1>2, <1>3, StretchTypes
<1>5. Place(enum, enum[p]) = p /\ Place(enum, enum[q]) = q /\ p \in Nat /\ q \in Nat
  BY <1>4, PlaceIs
<1>6. Low(tab, p) \in Nat /\ High(tab, q) \in Nat
  BY <1>1 DEF Stretches, Stretch
<1>7. ~(q < p)
  <2>1. q < p => High(tab, q) <= Low(tab, p)
    BY <1>1 DEF Stretches
  <2> QED
    BY <1>1, <1>2, <1>3, <1>6, <2>1
<1> QED
  BY <1>4, <1>5, <1>7

LEMMA NodesNumbered ==
    ASSUME Groups, Numbering, pc \notin Grouping \cup {"numberNodes"}
    PROVE  /\ Nodes \in Seq(Node) /\ IsInjective(Nodes) /\ Len(Nodes) \in Nat \ {0}
           /\ Range(Nodes) = Members(graph)
           /\ \A i \in DOMAIN Nodes : nodeTab.ids[Nodes[i]] = i - 1
           /\ \A n \in Members(graph) : Id(n) + 1 \in DOMAIN Nodes /\ Nodes[Id(n) + 1] = n
           /\ \A i, j \in DOMAIN Nodes : i < j =>
                 Place(MznNodeType, graph.ntype[Nodes[i]]) <= Place(MznNodeType, graph.ntype[Nodes[j]])
<1>1. Upto(nodeTab, nodesBy, MznNodeType, Node, 22)
  BY DEF Numbering
<1>2. Grouped(nodesBy, graph.ntype, Node, GraphNodeType)
  BY GroupedNodes
<1>3. Nodes \in Seq(Node) /\ Ids(nodeTab)
  BY <1>1 DEF Upto, Stretches, Nodes
<1>4. IsInjective(Nodes)
  BY <1>3, IdsInjective DEF Nodes
<1>5. Range(Nodes) = Members(graph)
  <2>1. \A i \in DOMAIN Nodes : \E t \in GraphNodeType : Nodes[i] \in Range(nodesBy[t])
    BY <1>1, <1>2, TableTyped DEF Nodes
  <2>2. ASSUME NEW t \in GraphNodeType, NEW n \in Range(nodesBy[t]) PROVE n \in Range(Nodes)
    <3>1. PICK p \in DOMAIN MznNodeType : MznNodeType[p] = t
      BY DEF GraphNodeType, Range
    <3>2. p < 22
      BY NodeEnum
    <3> QED
      BY <1>1, <1>2, <3>1, <3>2, TableReaches DEF Nodes
  <2>3. \A n : Seen(n) <=> n \in Members(graph)
    BY DEF Seen, Members, Range, Grouping
  <2>4. \A t \in GraphNodeType : \A n \in Node :
            n \in Range(nodesBy[t]) <=> n \in Members(graph) /\ graph.ntype[n] = t
    BY <2>3 DEF Groups, NodeGroups
  <2>5. Range(Nodes) \subseteq Node
    BY <1>3, ElementOfSeq, LenProperties DEF Range
  <2>6. Members(graph) \subseteq Node /\ graph.ntype \in [Node -> GraphNodeType]
    BY GraphIs DEF Groups, Typed
  <2>7. ASSUME NEW n \in Range(Nodes) PROVE n \in Members(graph)
    BY <2>1, <2>4, <2>5 DEF Range
  <2>8. ASSUME NEW n \in Members(graph) PROVE n \in Range(Nodes)
    <3>1. n \in Node /\ graph.ntype[n] \in GraphNodeType
      BY <2>6
    <3>2. n \in Range(nodesBy[graph.ntype[n]])
      BY <2>4, <3>1
    <3> QED
      BY <2>2, <3>1, <3>2
  <2> QED
    BY <2>7, <2>8
<1>6. \A i \in DOMAIN Nodes : nodeTab.ids[Nodes[i]] = i - 1
  BY <1>3 DEF Ids, Nodes
<1>7. ASSUME NEW n \in Members(graph) PROVE Id(n) + 1 \in DOMAIN Nodes /\ Nodes[Id(n) + 1] = n
  <2>1. PICK i \in DOMAIN Nodes : Nodes[i] = n
    BY <1>5 DEF Range
  <2>2. n \in DOMAIN nodeTab.ids /\ i \in Nat
    BY <1>3, <1>5, LenProperties DEF Ids, Nodes
  <2>3. Id(n) = i - 1
    BY <1>6, <2>1, <2>2 DEF Id
  <2> QED
    BY <2>1, <2>2, <2>3
<1>8. Len(Nodes) \in Nat \ {0}
  <2>1. graph.order \in Seq(Node) /\ graph.order # <<>>
    BY GraphIs DEF Groups, Typed
  <2>2. 1 \in DOMAIN graph.order
    BY <2>1, EmptySeq, LenProperties
  <2>3. Nodes # <<>>
    <3>1. graph.order[1] \in Range(Nodes)
      BY <1>5, <2>2 DEF Members, Range
    <3> QED
      BY <3>1 DEF Range
  <2> QED
    BY <1>3, <2>3, LenProperties, EmptySeq
<1>9. \A i, j \in DOMAIN Nodes : i < j =>
         Place(MznNodeType, graph.ntype[Nodes[i]]) <= Place(MznNodeType, graph.ntype[Nodes[j]])
  <2>1. 22 \in Nat /\ DOMAIN MznNodeType \subseteq Nat
    BY NodeEnum
  <2> QED
    BY <1>1, <1>2, <2>1, NodeEnum, TableSorted DEF Nodes
<1> QED
  BY <1>3, <1>4, <1>5, <1>6, <1>7, <1>8, <1>9


LEMMA EdgesNumbered ==
    ASSUME Groups, Numbering, pc \notin Grouping \cup {"numberNodes", "numberEdges"}
    PROVE  /\ Edges \in Seq(Edge) /\ IsInjective(Edges)
           /\ \A e : e \in Range(Edges) <=> \E n \in Members(graph) : e \in Range(graph.out[n])
           /\ \A i \in DOMAIN Edges : edgeTab.ids[Edges[i]] = i - 1
           /\ \A n \in Members(graph) : \A e \in Range(graph.out[n]) :
                 /\ e \in Edge
                 /\ etype[e] = IF OnAnno(n, e) THEN "ANNO_VAR" ELSE graph.etype[e]
<1>1. Upto(edgeTab, edgesBy, MznEdgeType, Edge, 30)
  BY DEF Numbering
<1>2. Grouped(edgesBy, etype, Edge, EdgeType)
  BY GroupedEdges
<1>3. Edges \in Seq(Edge) /\ Ids(edgeTab)
  BY <1>1 DEF Upto, Stretches, Edges
<1>4. IsInjective(Edges)
  BY <1>3, IdsInjective DEF Edges
<1>5. \A n : Left(n) <=> n \in Members(graph)
  BY DEF Left, Members, Range, Grouping
<1>6. Members(graph) \subseteq Node /\ graph.out \in [Node -> Seq(Edge)]
  BY GraphIs DEF Groups, Typed
<1>7. \A n \in Node : Range(graph.out[n]) \subseteq Edge
  BY <1>6, ElementOfSeq, LenProperties DEF Range
<1>8. \A t \in EdgeType : \A e \in Edge : e \in Range(edgesBy[t]) <=>
          etype[e] = t /\ \E n \in Node : Left(n) /\ e \in Range(graph.out[n])
  BY DEF Groups, EdgeGroups
<1>9. ASSUME NEW e \in Range(Edges) PROVE \E n \in Members(graph) : e \in Range(graph.out[n])
  <2>1. \A i \in DOMAIN Edges : \E t \in EdgeType : Edges[i] \in Range(edgesBy[t])
    BY <1>1, <1>2, TableTyped DEF Edges
  <2>2. e \in Edge
    BY <1>3, ElementOfSeq, LenProperties DEF Range
  <2>3. \E t \in EdgeType : e \in Range(edgesBy[t])
    BY <2>1 DEF Range
  <2> QED
    BY <1>5, <1>8, <2>2, <2>3
<1>10. ASSUME NEW n \in Members(graph), NEW e \in Range(graph.out[n]) PROVE e \in Range(Edges)
  <2>1. e \in Edge /\ n \in Node
    BY <1>6, <1>7
  <2>2. etype[e] \in EdgeType
    BY <2>1 DEF Groups, EdgeTypes
  <2>3. e \in Range(edgesBy[etype[e]])
    BY <1>5, <1>8, <2>1, <2>2
  <2>4. PICK p \in DOMAIN MznEdgeType : MznEdgeType[p] = etype[e]
    BY <2>2 DEF EdgeType, Range
  <2>5. p < 30
    BY EdgeEnum
  <2> QED
    BY <1>1, <1>2, <2>2, <2>3, <2>4, <2>5, TableReaches DEF Edges
<1>11. \A i \in DOMAIN Edges : edgeTab.ids[Edges[i]] = i - 1
  BY <1>3 DEF Ids, Edges
<1>12. ASSUME NEW n \in Members(graph), NEW e \in Range(graph.out[n])
       PROVE  /\ e \in Edge
              /\ etype[e] = IF OnAnno(n, e) THEN "ANNO_VAR" ELSE graph.etype[e]
  BY <1>5, <1>6, <1>7 DEF Groups, EdgeTypes
<1> QED
  BY <1>3, <1>4, <1>9, <1>10, <1>11, <1>12

-----------------------------------------------------------------------------
(* The rows of pdg_node_to_llid.csv. *)

RowRecord ==
    [kind : {"global", "inst", "param", "fn", "none"}, of : Node \cup {None}, place : Int]

\* The row was made with the node itself as the global, exactly if it is one.
Made(i) ==
    LET n == Nodes[i]
    IN llid[i] = Row(n, IF graph.ntype[n] \in Globals THEN n ELSE None)

RowsMade ==
    /\ llid \in Seq(RowRecord)
    /\ pc \notin {"llid", "done"} => llid = <<>> /\ glob = None
    /\ pc = "llid" => at \in DOMAIN Nodes /\ Len(llid) = at - 1
    /\ pc = "llid" /\ glob # None => at - 1 \in DOMAIN Nodes /\ graph.ntype[Nodes[at - 1]] \in Globals
    /\ pc = "done" => Len(llid) = Len(Nodes)
    /\ \A i \in DOMAIN llid : Made(i)

Standing ==
    /\ pc = "numberEdges" => at = 1 \/ Filled(edgesBy, MznEdgeType) # {}
    /\ pc \in {"mzn", "data", "fnArgs", "oneway"} => at = 1

FilesMade ==
    /\ Written => mzn = MznFile
    /\ pc \in {"fnArgs", "oneway", "llid", "done"} => data = DataFile
    /\ pc \in {"oneway", "llid", "done"} => fnArgs = FnArgsFile
    /\ pc \in {"llid", "done"} => oneway = OnewayFile
    /\ pc \notin {"oneway", "llid", "done"} => fnArgs = <<>>
    /\ pc \notin {"llid", "done"} => oneway = <<>>

IInv == Groups /\ Numbering /\ Standing /\ FilesMade /\ RowsMade


LEMMA IInvFirst == Init => IInv
<1> SUFFICES ASSUME Init PROVE IInv
  OBVIOUS
<1>1. pc = "groupNodes" /\ llid = <<>> /\ fnArgs = <<>> /\ oneway = <<>> /\ glob = None
  BY DEF Init
<1>2. Standing
  BY <1>1 DEF Standing
<1>3. FilesMade
  BY <1>1 DEF FilesMade, Written
<1>4. RowsMade
  BY <1>1 DEF RowsMade
<1> QED
  BY <1>2, <1>3, <1>4, GroupsFirst, NumberingFirst DEF IInv

\* Nothing is written before the tables are finished.
LEMMA NothingWritten ==
    ASSUME IInv, pc \in Grouping \cup {"numberNodes", "numberEdges"},
           pc' \in Grouping \cup {"numberNodes", "numberEdges", "mzn"}, UNCHANGED <<glob, files>>
    PROVE  FilesMade' /\ RowsMade'
<1>1. /\ llid' = <<>> /\ fnArgs' = <<>> /\ oneway' = <<>> /\ glob' = None
      /\ pc' \notin {"data", "fnArgs", "oneway", "llid", "done"}
  BY DEF IInv, FilesMade, RowsMade, files, Grouping
<1>2. FilesMade'
  BY <1>1 DEF FilesMade, Written
<1>3. RowsMade'
  BY <1>1 DEF RowsMade
<1> QED
  BY <1>2, <1>3

LEMMA GroupNodeIInv == IInv /\ GroupNode => IInv'
<1> SUFFICES ASSUME IInv, GroupNode PROVE IInv'
  OBVIOUS
<1>1. /\ pc = "groupNodes" /\ Step(Len(graph.order), "groupEdges")
      /\ UNCHANGED <<nodeTab, edgeTab, glob, files>>
  BY DEF GroupNode
<1>2. pc' \in Grouping
  BY <1>1 DEF Step, Grouping
<1>3. Groups'
  BY GroupNodeKeeps DEF IInv
<1>4. Numbering'
  BY <1>1, <1>2 DEF IInv, Numbering, Grouping
<1>5. Standing'
  BY <1>2 DEF Standing, Grouping
<1>6. FilesMade' /\ RowsMade'
  BY <1>1, <1>2, NothingWritten DEF Grouping
<1> QED
  BY <1>3, <1>4, <1>5, <1>6 DEF IInv

LEMMA GroupEdgesIInv == IInv /\ GroupEdges => IInv'
<1> SUFFICES ASSUME IInv, GroupEdges PROVE IInv'
  OBVIOUS
<1>1. /\ pc = "groupEdges" /\ Step(Len(graph.order), "numberNodes")
      /\ UNCHANGED <<nodeTab, edgeTab, glob, files>>
  BY DEF GroupEdges
<1>2. pc' = "groupEdges" \/ (pc' = "numberNodes" /\ at' = 1)
  BY <1>1 DEF Step
<1>3. Groups'
  BY GroupEdgesKeeps DEF IInv
<1>4. nodeTab' = Empty /\ edgeTab' = Empty
  BY <1>1 DEF IInv, Numbering, Grouping
<1>5. Upto(Empty, nodesBy', MznNodeType, Node, 1)
  BY NodeEnum, EmptyUpto
<1>6. Numbering'
  BY <1>2, <1>4, <1>5 DEF Numbering, Grouping
<1>7. Standing'
  BY <1>2 DEF Standing
<1>8. FilesMade' /\ RowsMade'
  BY <1>1, <1>2, NothingWritten DEF Grouping
<1> QED
  BY <1>3, <1>6, <1>7, <1>8 DEF IInv

LEMMA NumberNodesIInv == IInv /\ NumberNodes => IInv'
<1> SUFFICES ASSUME IInv, NumberNodes PROVE IInv'
  OBVIOUS
<1>1. /\ pc = "numberNodes" /\ UNCHANGED <<glob, files>>
      /\ pc' = "numberNodes" \/ (pc' = "numberEdges" /\ at' = 1)
  BY DEF NumberNodes, Number
<1>2. Groups' /\ Numbering'
  BY NumberNodesKeeps DEF IInv
<1>3. Standing'
  BY <1>1 DEF Standing
<1>4. FilesMade' /\ RowsMade'
  BY <1>1, NothingWritten DEF Grouping
<1> QED
  BY <1>2, <1>3, <1>4 DEF IInv

LEMMA NumberEdgesIInv == IInv /\ NumberEdges => IInv'
<1> SUFFICES ASSUME IInv, NumberEdges PROVE IInv'
  OBVIOUS
<1>1. /\ pc = "numberEdges" /\ UNCHANGED <<edgesBy, glob, files>>
      /\ IF Filled(edgesBy, MznEdgeType) = {}
         THEN pc' = "mzn" /\ at' = at
         ELSE Number(edgesBy, MznEdgeType, edgeTab, "mzn")
  BY DEF NumberEdges
<1>2. Groups' /\ Numbering'
  BY NumberEdgesKeeps DEF IInv
<1>3. CASE Filled(edgesBy, MznEdgeType) = {}
  <2>1. pc' = "mzn" /\ at' = 1
    BY <1>1, <1>3 DEF IInv, Standing
  <2>2. Standing'
    BY <2>1 DEF Standing
  <2>3. FilesMade' /\ RowsMade'
    BY <1>1, <2>1, NothingWritten DEF Grouping
  <2> QED
    BY <1>2, <2>2, <2>3 DEF IInv
<1>4. CASE Filled(edgesBy, MznEdgeType) # {}
  <2>1. PICK p \in Filled(edgesBy, MznEdgeType) :
            /\ \A q \in Filled(edgesBy, MznEdgeType) : p <= q
            /\ IF Filled(edgesBy, MznEdgeType) = {p} THEN at' = 1 /\ pc' = "mzn"
                                                     ELSE at' = p + 1 /\ pc' = pc
    BY <1>1, <1>4 DEF Number
  <2>2. pc' \in {"numberEdges", "mzn"}
    BY <1>1, <2>1
  <2>3. FilesMade' /\ RowsMade'
    BY <1>1, <2>2, NothingWritten DEF Grouping
  <2>4. CASE Filled(edgesBy, MznEdgeType) = {p}
    <3>1. Standing'
      BY <2>1, <2>4 DEF Standing
    <3> QED
      BY <1>2, <2>3, <3>1 DEF IInv
  <2>5. CASE Filled(edgesBy, MznEdgeType) # {p}
    <3>1. PICK q \in Filled(edgesBy, MznEdgeType) : q # p
      BY <2>1, <2>5
    <3>2. q \in DOMAIN MznEdgeType /\ p \in DOMAIN MznEdgeType /\ p <= q
      BY <2>1, <3>1 DEF Filled
    <3>3. q >= p + 1
      BY <3>1, <3>2, EdgeEnum
    <3>4. q \in Filled(edgesBy, MznEdgeType)'
      BY <1>1, <2>1, <2>5, <3>1, <3>3 DEF Filled
    <3>5. Standing'
      BY <1>1, <2>1, <2>5, <3>4 DEF Standing
    <3> QED
      BY <1>2, <2>3, <3>5 DEF IInv
  <2> QED
    BY <2>4, <2>5
<1> QED
  BY <1>3, <1>4


LEMMA MadeThen ==
    ASSUME graph' = graph, etype' = etype, nodeTab' = nodeTab, edgeTab' = edgeTab, NEW i,
           llid'[i] = Row(Nodes[i], IF graph.ntype[Nodes[i]] \in Globals THEN Nodes[i] ELSE None)
    PROVE  Made(i)'
<1> DEFINE n == Nodes[i]
           g == IF graph.ntype[n] \in Globals THEN n ELSE None
<1>1. Nodes' = Nodes
  BY DEF Nodes
<1>2. Row(n, g)' = Row(n, g) /\ n' = n /\ g' = g
  BY <1>1, FilesStay
<1> QED
  BY <1>1, <1>2 DEF Made

\* What writing a file leaves alone.
LEMMA WritingKeeps ==
    ASSUME IInv, pc \notin Grouping \cup {"numberNodes", "numberEdges"},
           pc' \in Pcs \ (Grouping \cup {"numberNodes", "numberEdges"}), at' \in Nat \ {0},
           UNCHANGED <<graph, etype, nodesBy, edgesBy, nodeTab, edgeTab>>
    PROVE  Groups' /\ Numbering' /\ MznFile' = MznFile /\ DataFile' = DataFile
           /\ FnArgsFile' = FnArgsFile /\ OnewayFile' = OnewayFile
<1>1. pc' \in Pcs \ Grouping /\ pc \notin Grouping
  OBVIOUS
<1>2. Groups'
  BY <1>1, GroupsStay DEF IInv
<1>3. Numbering'
  BY DEF IInv, Numbering
<1> QED
  BY <1>2, <1>3, FilesStay

LEMMA ExportMznIInv == IInv /\ ExportMzn => IInv'
<1> SUFFICES ASSUME IInv, ExportMzn PROVE IInv'
  OBVIOUS
<1>1. /\ pc = "mzn" /\ mzn' = MznFile /\ pc' = "data" /\ at' = at
      /\ UNCHANGED <<graph, etype, nodesBy, edgesBy, nodeTab, edgeTab>>
      /\ UNCHANGED <<glob, data, fnArgs, oneway, llid>>
  BY DEF ExportMzn, MznFile
<1>2. at = 1 /\ at' \in Nat \ {0}
  BY <1>1 DEF IInv, Standing
<1>3. Groups' /\ Numbering' /\ MznFile' = MznFile
  BY <1>1, <1>2, WritingKeeps DEF Pcs, Grouping
<1>4. Standing'
  BY <1>1, <1>2 DEF Standing
<1>5. FilesMade'
  BY <1>1, <1>3 DEF IInv, FilesMade
<1>6. llid = <<>> /\ glob = None
  BY <1>1 DEF IInv, RowsMade
<1>7. RowsMade'
  BY <1>1, <1>6 DEF RowsMade
<1> QED
  BY <1>3, <1>4, <1>5, <1>7 DEF IInv

LEMMA ExportDebugIInv == IInv /\ ExportDebug => IInv'
<1> SUFFICES ASSUME IInv, ExportDebug PROVE IInv'
  OBVIOUS
<1>1. /\ pc = "data" /\ data' = DataFile /\ pc' = "fnArgs" /\ at' = at
      /\ UNCHANGED <<graph, etype, nodesBy, edgesBy, nodeTab, edgeTab>>
      /\ UNCHANGED <<glob, mzn, fnArgs, oneway, llid>>
  BY DEF ExportDebug, DataFile
<1>2. at = 1 /\ at' \in Nat \ {0}
  BY <1>1 DEF IInv, Standing
<1>3. Groups' /\ Numbering' /\ MznFile' = MznFile /\ DataFile' = DataFile
  BY <1>1, <1>2, WritingKeeps DEF Pcs, Grouping
<1>4. Standing'
  BY <1>1, <1>2 DEF Standing
<1>5. FilesMade'
  BY <1>1, <1>3 DEF IInv, FilesMade, Written
<1>6. llid = <<>> /\ glob = None
  BY <1>1 DEF IInv, RowsMade
<1>7. RowsMade'
  BY <1>1, <1>6 DEF RowsMade
<1> QED
  BY <1>3, <1>4, <1>5, <1>7 DEF IInv

LEMMA ExportFnArgsIInv == IInv /\ ExportFnArgs => IInv'
<1> SUFFICES ASSUME IInv, ExportFnArgs PROVE IInv'
  OBVIOUS
<1>1. /\ pc = "fnArgs" /\ fnArgs' = FnArgsFile /\ pc' = "oneway" /\ at' = at
      /\ UNCHANGED <<graph, etype, nodesBy, edgesBy, nodeTab, edgeTab>>
      /\ UNCHANGED <<glob, mzn, data, oneway, llid>>
  BY DEF ExportFnArgs, FnArgsFile
<1>2. at = 1 /\ at' \in Nat \ {0}
  BY <1>1 DEF IInv, Standing
<1>3. Groups' /\ Numbering' /\ MznFile' = MznFile /\ DataFile' = DataFile /\ FnArgsFile' = FnArgsFile
  BY <1>1, <1>2, WritingKeeps DEF Pcs, Grouping
<1>4. Standing'
  BY <1>1, <1>2 DEF Standing
<1>5. FilesMade'
  BY <1>1, <1>3 DEF IInv, FilesMade, Written
<1>6. llid = <<>> /\ glob = None
  BY <1>1 DEF IInv, RowsMade
<1>7. RowsMade'
  BY <1>1, <1>6 DEF RowsMade
<1> QED
  BY <1>3, <1>4, <1>5, <1>7 DEF IInv

LEMMA ExportOnewayIInv == IInv /\ ExportOneway => IInv'
<1> SUFFICES ASSUME IInv, ExportOneway PROVE IInv'
  OBVIOUS
<1>1. /\ pc = "oneway" /\ oneway' = OnewayFile /\ pc' = "llid" /\ at' = at
      /\ UNCHANGED <<graph, etype, nodesBy, edgesBy, nodeTab, edgeTab>>
      /\ UNCHANGED <<glob, mzn, data, fnArgs, llid>>
  BY DEF ExportOneway, OnewayFile
<1>2. at = 1 /\ at' \in Nat \ {0}
  BY <1>1 DEF IInv, Standing
<1>3. Groups' /\ Numbering' /\ MznFile' = MznFile /\ DataFile' = DataFile
      /\ FnArgsFile' = FnArgsFile /\ OnewayFile' = OnewayFile
  BY <1>1, <1>2, WritingKeeps DEF Pcs, Grouping
<1>4. Standing'
  BY <1>1 DEF Standing
<1>5. FilesMade'
  BY <1>1, <1>3 DEF IInv, FilesMade, Written
<1>6. llid = <<>> /\ glob = None
  BY <1>1 DEF IInv, RowsMade
<1>7. Nodes \in Seq(Node) /\ Len(Nodes) \in Nat \ {0}
  BY <1>1, NodesNumbered DEF IInv, Grouping
<1>8. 1 \in DOMAIN Nodes
  BY <1>7, LenProperties
<1>9. llid' = <<>> /\ glob' = None /\ at' = 1 /\ 1 \in DOMAIN Nodes'
  BY <1>1, <1>2, <1>6, <1>8 DEF Nodes
<1>10. RowsMade'
  <2>1. Len(<<>>) = 1 - 1 /\ <<>> \in Seq(RowRecord) /\ DOMAIN <<>> = {}
    OBVIOUS
  <2> QED
    BY <1>1, <1>9, <2>1 DEF RowsMade
<1> QED
  BY <1>3, <1>4, <1>5, <1>10 DEF IInv


LEMMA NodeTypePlace ==
    ASSUME NEW t \in GraphNodeType
    PROVE  /\ Place(MznNodeType, t) \in 1 .. 20 /\ MznNodeType[Place(MznNodeType, t)] = t
           /\ t \in Globals => Place(MznNodeType, t) \in {6, 7, 8, 18}
           /\ t \in Params => Place(MznNodeType, t) \in 12 .. 15
           /\ t = "FUNC_ENTRY" => Place(MznNodeType, t) = 11
<1>1. PICK p \in DOMAIN MznNodeType : MznNodeType[p] = t
  BY DEF GraphNodeType, Range
<1>2. p \in 1 .. 21 /\ Place(MznNodeType, t) = p
  BY <1>1, NodeEnum, PlaceIs
<1>3. p \in 1 .. 20
  BY <1>1, <1>2, NodeKindPlaces
<1>4. t \in Globals => p \in {6, 7, 8, 18}
  BY <1>1, <1>2 DEF MznNodeType, Globals
<1>5. t \in Params => p \in 12 .. 15
  BY <1>1, <1>2 DEF MznNodeType, Params
<1> QED
  BY <1>1, <1>2, <1>3, <1>4, <1>5, NodePlaces

\* The entry of a function has a number, and hasFn leads to it.
LEMMA EntryNumbered ==
    ASSUME Groups, Numbering, pc \notin Grouping \cup {"numberNodes"}, NEW n \in Node, HasFn(n)
    PROVE  LET f == graph.fn[n]
           IN  /\ f \in Members(graph) /\ f \in Node /\ graph.ntype[f] = "FUNC_ENTRY"
               /\ Id(f) + 1 \in DOMAIN Nodes /\ Nodes[Id(f) + 1] = f
<1> DEFINE f == graph.fn[n]
<1>1. /\ graph \in Graphs /\ WellFormed(graph)
      /\ graph.fn \in [Node -> Node \cup {None}]
  BY GraphIs, GraphsAssumption DEF Groups, Typed
<1>2. f \in Node /\ f # None
  BY <1>1 DEF HasFn
<1>3. graph.ntype[f] = "FUNC_ENTRY"
  BY <1>1, <1>2 DEF WellFormed
<1>4. f \in Members(graph)
  BY <1>1, <1>2, <1>3 DEF WellFormed
<1> QED
  BY <1>2, <1>3, <1>4, NodesNumbered

LEMMA RowTyped ==
    ASSUME Groups, Numbering, pc \notin Grouping \cup {"numberNodes"},
           NEW n \in Node, NEW g \in Node \cup {None}
    PROVE  Row(n, g) \in RowRecord
<1>1. graph.inst[n] \in Int /\ graph.param[n] \in Int
  BY GraphIs DEF Groups, Typed
<1>2. HasFn(n) => Nodes[Id(graph.fn[n]) + 1] \in Node
  BY EntryNumbered
<1> QED
  BY <1>1, <1>2 DEF Row, RowRecord

\* Between a global and a parameter stands the entry of the parameter's
\* function, so the pointer is null when a parameter leaves it as it is.
LEMMA NullAtParam ==
    ASSUME Groups, Numbering, pc \notin Grouping \cup {"numberNodes"},
           NEW i \in DOMAIN Nodes, NEW j \in DOMAIN Nodes, i = j + 1,
           graph.ntype[Nodes[i]] \in Params
    PROVE  graph.ntype[Nodes[j]] \notin Globals
<1> SUFFICES ASSUME graph.ntype[Nodes[j]] \in Globals PROVE FALSE
  OBVIOUS
<1>1. /\ Nodes \in Seq(Node)
      /\ \A k, l \in DOMAIN Nodes : k < l =>
            Place(MznNodeType, graph.ntype[Nodes[k]]) <= Place(MznNodeType, graph.ntype[Nodes[l]])
  BY NodesNumbered
<1>2. \A k \in DOMAIN Nodes : k \in Nat /\ Nodes[k] \in Node
  BY <1>1, ElementOfSeq, LenProperties
<1>3. WellFormed(graph) /\ graph.ntype \in [Node -> GraphNodeType]
  BY GraphIs, GraphsAssumption DEF Groups, Typed
<1>4. HasFn(Nodes[i])
  BY <1>2, <1>3 DEF WellFormed, HasFn
<1> DEFINE f == graph.fn[Nodes[i]]
           m == Id(f) + 1
           place(k) == Place(MznNodeType, graph.ntype[Nodes[k]])
<1>5. m \in DOMAIN Nodes /\ Nodes[m] = f /\ graph.ntype[f] = "FUNC_ENTRY"
  BY <1>2, <1>4, EntryNumbered
<1>6. place(m) = 11
  BY <1>5, NodePlaces
<1>7. place(i) \in 12 .. 15 /\ place(j) \in {6, 7, 8, 18}
  <2>1. graph.ntype[Nodes[i]] \in GraphNodeType /\ graph.ntype[Nodes[j]] \in GraphNodeType
    BY <1>2, <1>3
  <2> QED
    BY <2>1, NodeTypePlace
<1>8. \A k, l \in DOMAIN Nodes : k < l => place(k) <= place(l)
  BY <1>1
<1> HIDE DEF place, m
<1>9. m \in Nat /\ i \in Nat /\ j \in Nat /\ j < i
  BY <1>2, <1>5
<1>10. place(j) <= place(i)
  BY <1>8, <1>9
<1>11. place(j) < 11
  BY <1>7, <1>10
<1>12. m # j /\ m # i /\ ~(m < j) /\ ~(i < m)
  <2>1. m # j /\ m # i
    BY <1>6, <1>7, <1>11
  <2>2. ~(m < j)
    BY <1>5, <1>6, <1>7, <1>8, <1>11
  <2>3. ~(i < m)
    BY <1>5, <1>6, <1>7, <1>8
  <2> QED
    BY <2>1, <2>2, <2>3
<1> QED
  BY <1>9, <1>12

LEMMA ExportNodeToLLIDIInv == IInv /\ ExportNodeToLLID => IInv'
<1> SUFFICES ASSUME IInv, ExportNodeToLLID PROVE IInv'
  OBVIOUS
<1> DEFINE n == Nodes[at]
           own == IF graph.ntype[n] \in Globals THEN n ELSE None
<1>1. /\ pc = "llid" /\ at \in DOMAIN Nodes
      /\ \E g \in Glob(n) : glob' = g /\ llid' = Append(llid, Row(n, g))
      /\ Step(Len(Nodes), "done")
      /\ UNCHANGED <<graph, etype, nodesBy, edgesBy, nodeTab, edgeTab>>
      /\ UNCHANGED <<mzn, data, fnArgs, oneway>>
  BY DEF ExportNodeToLLID
<1>2. Groups /\ Numbering /\ pc \notin Grouping \cup {"numberNodes"}
  BY <1>1 DEF IInv, Grouping
<1>3. Nodes \in Seq(Node) /\ Len(Nodes) \in Nat /\ DOMAIN Nodes = 1 .. Len(Nodes) /\ n \in Node
  BY <1>1, <1>2, NodesNumbered, LenProperties, ElementOfSeq
<1>4. at' \in Nat \ {0} /\ pc' \in {"llid", "done"}
  BY <1>1, <1>3 DEF Step
<1>5. /\ Groups' /\ Numbering' /\ MznFile' = MznFile /\ DataFile' = DataFile
      /\ FnArgsFile' = FnArgsFile /\ OnewayFile' = OnewayFile
  BY <1>1, <1>4, WritingKeeps DEF Pcs, Grouping
<1>6. Standing'
  BY <1>4 DEF Standing
<1>7. FilesMade'
  BY <1>1, <1>4, <1>5 DEF IInv, FilesMade, Written
<1>8. RowsMade
  BY DEF IInv
<1>9. glob' = own /\ llid' = Append(llid, Row(n, own))
  <2>1. graph.ntype[n] \in Params => glob = None /\ graph.ntype[n] \notin Globals
    <3>1. graph.ntype[n] \in Params => graph.ntype[n] \notin Globals
      BY DEF Params, Globals
    <3>2. ASSUME graph.ntype[n] \in Params, glob # None PROVE FALSE
      <4>1. at - 1 \in DOMAIN Nodes /\ graph.ntype[Nodes[at - 1]] \in Globals
        BY <1>1, <1>8, <3>2 DEF RowsMade
      <4>2. at = (at - 1) + 1
        BY <1>1, <1>3
      <4> QED
        BY <1>1, <1>2, <3>2, <4>1, <4>2, NullAtParam
    <3> QED
      BY <3>1, <3>2
  <2>2. Glob(n) = {own}
    BY <2>1 DEF Glob
  <2> QED
    BY <1>1, <2>2
<1>10. Row(n, own) \in RowRecord
  BY <1>2, <1>3, RowTyped
<1> DEFINE r == Row(n, own)
<1>11. own # None => graph.ntype[n] \in Globals
  OBVIOUS
<1>12. Nodes' = Nodes /\ graph' = graph
  BY <1>1 DEF Nodes
<1> HIDE DEF r, own
<1>13. /\ llid' \in Seq(RowRecord) /\ Len(llid') = Len(llid) + 1 /\ Len(llid) = at - 1
       /\ \A i \in 1 .. Len(llid) : llid'[i] = llid[i]
       /\ llid'[Len(llid) + 1] = r
       /\ DOMAIN llid' = 1 .. at /\ DOMAIN llid = 1 .. at - 1
  <2>1. llid \in Seq(RowRecord) /\ r \in RowRecord /\ llid' = Append(llid, r) /\ Len(llid) = at - 1
    BY <1>1, <1>8, <1>9, <1>10 DEF RowsMade, r
  <2>2. /\ llid' \in Seq(RowRecord) /\ Len(llid') = Len(llid) + 1
        /\ \A i \in 1 .. Len(llid) : llid'[i] = llid[i]
        /\ llid'[Len(llid) + 1] = r
    BY <2>1, AppendProperties
  <2>3. DOMAIN llid' = 1 .. Len(llid') /\ DOMAIN llid = 1 .. Len(llid)
    BY <2>1, <2>2, LenProperties
  <2>4. Len(llid') = at
    BY <1>1, <1>3, <2>1, <2>2
  <2> QED
    BY <2>1, <2>2, <2>3, <2>4
<1>14. \A i \in DOMAIN llid' : Made(i)'
  <2>1. ASSUME NEW i \in 1 .. at PROVE Made(i)'
    <3>1. CASE i = at
      <4>1. Len(llid) + 1 = i /\ n = Nodes[i]
        BY <1>1, <1>3, <1>13, <3>1
      <4>2. llid'[i] = Row(Nodes[i], IF graph.ntype[Nodes[i]] \in Globals THEN Nodes[i] ELSE None)
        BY <1>13, <4>1 DEF r, own
      <4> QED
        BY <1>1, <4>2, MadeThen
    <3>2. CASE i # at
      <4>1. i \in DOMAIN llid /\ llid'[i] = llid[i]
        BY <1>1, <1>3, <1>13, <3>2
      <4>2. Made(i)
        BY <1>8, <4>1 DEF RowsMade
      <4> QED
        BY <1>1, <4>1, <4>2, MadeThen DEF Made
    <3> QED
      BY <3>1, <3>2
  <2> QED
    BY <1>13, <2>1
<1>15. CASE at < Len(Nodes)
  <2>1. at' = at + 1 /\ pc' = "llid"
    BY <1>1, <1>15 DEF Step
  <2>2. at' \in DOMAIN Nodes' /\ Len(llid') = at' - 1 /\ at' - 1 = at
    BY <1>1, <1>3, <1>12, <1>13, <1>15, <2>1
  <2>3. RowsMade'
    BY <1>1, <1>9, <1>11, <1>12, <1>13, <1>14, <2>1, <2>2 DEF RowsMade
  <2> QED
    BY <1>5, <1>6, <1>7, <2>3 DEF IInv
<1>16. CASE ~(at < Len(Nodes))
  <2>1. pc' = "done"
    BY <1>1, <1>16 DEF Step
  <2>2. Len(llid') = Len(Nodes')
    BY <1>1, <1>3, <1>12, <1>13, <1>16
  <2>3. RowsMade'
    BY <1>13, <1>14, <2>1, <2>2 DEF RowsMade
  <2> QED
    BY <1>5, <1>6, <1>7, <2>3 DEF IInv
<1> QED
  BY <1>15, <1>16


LEMMA IInvHolds == Spec => []IInv
<1>1. IInv /\ [Next]_vars => IInv'
  <2> SUFFICES ASSUME IInv, [Next]_vars PROVE IInv'
    OBVIOUS
  <2>1. CASE Next
    BY <2>1, GroupNodeIInv, GroupEdgesIInv, NumberNodesIInv, NumberEdgesIInv, ExportMznIInv,
       ExportDebugIInv, ExportFnArgsIInv, ExportOnewayIInv, ExportNodeToLLIDIInv DEF Next
  <2>2. CASE UNCHANGED vars
    <3>1. /\ graph' = graph /\ etype' = etype /\ pc' = pc /\ at' = at /\ nodesBy' = nodesBy
          /\ edgesBy' = edgesBy /\ nodeTab' = nodeTab /\ edgeTab' = edgeTab /\ glob' = glob
          /\ mzn' = mzn /\ data' = data /\ fnArgs' = fnArgs /\ oneway' = oneway /\ llid' = llid
      BY <2>2 DEF vars
    <3>2. Groups'
      BY <3>1 DEF IInv, Groups, Typed, NodeGroups, EdgeTypes, EdgeGroups, Seen, Left, OnAnno
    <3>3. Numbering'
      BY <3>1 DEF IInv, Numbering
    <3>4. Standing'
      BY <3>1 DEF IInv, Standing, Filled
    <3>5. FilesMade'
      BY <3>1, FilesStay DEF IInv, FilesMade, Written
    <3>6. \A i \in DOMAIN llid : Made(i)'
      <4> SUFFICES ASSUME NEW i \in DOMAIN llid PROVE Made(i)'
        OBVIOUS
      <4>1. llid'[i] = llid[i] /\ Made(i)
        BY <3>1 DEF IInv, RowsMade
      <4> QED
        BY <3>1, <4>1, MadeThen DEF Made
    <3>7. RowsMade'
      BY <3>1, <3>6 DEF IInv, RowsMade, Nodes
    <3> QED
      BY <3>2, <3>3, <3>4, <3>5, <3>7 DEF IInv
  <2> QED
    BY <2>1, <2>2
<1> QED
  BY <1>1, IInvFirst, PTL DEF Spec

-----------------------------------------------------------------------------
(* The theorems. *)

LEMMA WrittenNumbered ==
    ASSUME IInv, Written
    PROVE  /\ Groups /\ Numbering /\ mzn = MznFile
           /\ pc \notin Grouping \cup {"numberNodes", "numberEdges"}
           /\ pc \notin Grouping \cup {"numberNodes"}
BY DEF IInv, FilesMade, Written, Grouping

\* NothingLost: every node of the graph and every edge that leaves one gets one
\* number, its place in the file, whatever the order of the addresses.
THEOREM NothingIsLost == Spec => []NothingLost
<1>1. IInv => NothingLost
  <2> SUFFICES ASSUME IInv, Written PROVE NothingLost
    BY DEF NothingLost
  <2>1. /\ Nodes \in Seq(Node) /\ IsInjective(Nodes) /\ Range(Nodes) = Members(graph)
        /\ \A i \in DOMAIN Nodes : nodeTab.ids[Nodes[i]] = i - 1
    BY WrittenNumbered, NodesNumbered
  <2>2. /\ Edges \in Seq(Edge) /\ IsInjective(Edges)
        /\ \A e : e \in Range(Edges) <=> \E n \in Members(graph) : e \in Range(graph.out[n])
        /\ \A i \in DOMAIN Edges : edgeTab.ids[Edges[i]] = i - 1
    BY WrittenNumbered, EdgesNumbered
  <2>3. Range(Edges) = UNION {Range(graph.out[n]) : n \in Members(graph)}
    BY <2>2
  <2>4. \A i \in DOMAIN Nodes : nodeTab.ids[Nodes[i]] + 1 = i
    BY <2>1, LenProperties
  <2>5. \A i \in DOMAIN Edges : edgeTab.ids[Edges[i]] + 1 = i
    BY <2>2, LenProperties
  <2> QED
    BY <2>1, <2>2, <2>3, <2>4, <2>5 DEF NothingLost, Nodes, Edges
<1> QED
  BY <1>1, IInvHolds, PTL

LEMMA SrcIs ==
    ASSUME Groups, NEW n \in Node, NEW e \in Range(graph.out[n]) PROVE Src(e) = n
<1>1. \A m, l \in Node : \A d \in Range(graph.out[m]) : d \in Range(graph.out[l]) => m = l
  BY GraphIs DEF Groups, Typed
<1>2. Src(e) \in Node /\ e \in Range(graph.out[Src(e)])
  BY DEF Src
<1> QED
  BY <1>1, <1>2

\* An edge in the files leaves a node of the graph.
LEMMA EdgeEnds ==
    ASSUME IInv, Written, NEW e \in Range(Edges)
    PROVE  /\ Src(e) \in Members(graph) /\ e \in Range(graph.out[Src(e)]) /\ e \in Edge
           /\ Id(Src(e)) + 1 \in DOMAIN Nodes /\ Nodes[Id(Src(e)) + 1] = Src(e)
           /\ graph.dst[e] \in Members(graph) =>
                 Id(graph.dst[e]) + 1 \in DOMAIN Nodes /\ Nodes[Id(graph.dst[e]) + 1] = graph.dst[e]
           /\ etype[e] = IF "ANNO_VAR" \in Touches(e) THEN "ANNO_VAR" ELSE graph.etype[e]
<1>1. PICK n \in Members(graph) : e \in Range(graph.out[n])
  BY WrittenNumbered, EdgesNumbered
<1>2. Groups /\ Members(graph) \subseteq Node
  BY GraphIs DEF IInv, Groups, Typed
<1>3. Src(e) = n
  BY <1>1, <1>2, SrcIs
<1>4. \A m \in Members(graph) : Id(m) + 1 \in DOMAIN Nodes /\ Nodes[Id(m) + 1] = m
  BY WrittenNumbered, NodesNumbered
<1>5. e \in Edge /\ etype[e] = IF OnAnno(n, e) THEN "ANNO_VAR" ELSE graph.etype[e]
  BY <1>1, WrittenNumbered, EdgesNumbered
<1> QED
  BY <1>1, <1>3, <1>4, <1>5 DEF OnAnno, Touches

\* EndsDecode: hasSource and hasDest lead back to the ends of every edge.
THEOREM EndsAreRight == Spec => []EndsDecode
<1>1. IInv => EndsDecode
  <2> SUFFICES ASSUME IInv, Written, NEW i \in DOMAIN edgeTab.ordered
               PROVE  LET e == edgeTab.ordered[i]
                          Names(k, n) == k \in DOMAIN nodeTab.ordered /\ nodeTab.ordered[k] = n
                      IN /\ Names(mzn.hasSource[i], Src(e))
                         /\ graph.dst[e] \in Members(graph) => Names(mzn.hasDest[i], graph.dst[e])
    BY DEF EndsDecode
  <2> DEFINE e == Edges[i]
  <2>1. mzn = MznFile /\ i \in DOMAIN Edges /\ e \in Range(Edges)
    BY WrittenNumbered DEF Edges, Range
  <2>2. mzn.hasSource[i] = Id(Src(e)) + 1 /\ mzn.hasDest[i] = Id(graph.dst[e]) + 1
    BY <2>1 DEF MznFile, HasSource, HasDest
  <2>3. /\ Id(Src(e)) + 1 \in DOMAIN Nodes /\ Nodes[Id(Src(e)) + 1] = Src(e)
        /\ graph.dst[e] \in Members(graph) =>
              Id(graph.dst[e]) + 1 \in DOMAIN Nodes /\ Nodes[Id(graph.dst[e]) + 1] = graph.dst[e]
    BY <2>1, EdgeEnds
  <2> QED
    BY <2>2, <2>3 DEF Nodes, Edges
<1> QED
  BY <1>1, IInvHolds, PTL

\* AnnoEdges: the edges of annotated variables, and no others, are exported as
\* annotation edges, and only among them can two be alike.
THEOREM AnnotationsExact == Spec => []AnnoEdges
<1>1. IInv => AnnoEdges
  <2> SUFFICES ASSUME IInv, Written, NEW d \in Range(Edges), NEW e \in Range(Edges)
               PROVE  /\ "ANNO_VAR" \in Touches(e) => etype[e] = "ANNO_VAR"
                      /\ "ANNO_VAR" \notin Touches(e) => etype[e] = graph.etype[e]
                      /\ (d # e /\ Src(d) = Src(e) /\ graph.dst[d] = graph.dst[e]
                             /\ etype[d] = etype[e]) => "ANNO_VAR" \in Touches(e)
    BY DEF AnnoEdges, Edges
  <2>1. \A c \in {d, e} : /\ c \in Range(graph.out[Src(c)]) /\ Src(c) \in Members(graph)
                          /\ etype[c] = IF "ANNO_VAR" \in Touches(c) THEN "ANNO_VAR"
                                        ELSE graph.etype[c]
    BY EdgeEnds
  <2>2. ASSUME d # e, Src(d) = Src(e), graph.dst[d] = graph.dst[e], etype[d] = etype[e],
               "ANNO_VAR" \notin Touches(e)
        PROVE  FALSE
    <3>1. graph.etype[d] = graph.etype[e]
      BY <2>1, <2>2 DEF Touches
    <3>2. WellFormed(graph) /\ Src(d) \in Node
      BY <2>1, GraphIs, GraphsAssumption DEF IInv, Groups, Typed
    <3>3. <<graph.dst[d], graph.etype[d]>> # <<graph.dst[e], graph.etype[e]>>
      BY <2>1, <2>2, <3>2 DEF WellFormed
    <3> QED
      BY <2>2, <3>1, <3>3
  <2> QED
    BY <2>1, <2>2
<1> QED
  BY <1>1, IInvHolds, PTL

\* RowsIdentify: the row of a node in pdg_node_to_llid.csv names that node and
\* no other, although a parameter's pointer to a global is not initialized.
THEOREM RowsName == Spec => []RowsIdentify
<1>1. IInv => RowsIdentify
  <2> SUFFICES ASSUME IInv, NEW i \in DOMAIN llid
               PROVE  LET n == nodeTab.ordered[i]
                          r == llid[i]
                      IN /\ r.kind = "global" => r.of = n
                         /\ r.kind # "global" => r.of \in {graph.fn[n], None}
                         /\ graph.ntype[n] \in Globals /\ n \in graph.named =>
                               r.kind = "global"
                         /\ graph.ntype[n] \in Insts /\ graph.fn[n] \in graph.named =>
                               r.kind = "inst"
                         /\ graph.ntype[n] = "FUNC_ENTRY" /\ n \in graph.named => r.kind = "fn"
    BY DEF RowsIdentify
  <2> DEFINE n == Nodes[i]
             own == IF graph.ntype[n] \in Globals THEN n ELSE None
  <2>1. RowsMade /\ llid # <<>>
    BY DEF IInv
  <2>2. pc \in {"llid", "done"}
    BY <2>1 DEF RowsMade
  <2>3. Written /\ Groups /\ Numbering /\ pc \notin Grouping \cup {"numberNodes"}
    BY <2>2 DEF IInv, Written, Grouping
  <2>4. Nodes \in Seq(Node) /\ Len(Nodes) \in Nat /\ DOMAIN Nodes = 1 .. Len(Nodes)
    BY <2>3, NodesNumbered, LenProperties
  <2>5. i \in DOMAIN Nodes
    <3>1. llid \in Seq(RowRecord) /\ DOMAIN llid = 1 .. Len(llid) /\ Len(llid) \in Nat
      BY <2>1, LenProperties DEF RowsMade
    <3>2. Len(llid) <= Len(Nodes)
      <4>1. (at \in DOMAIN Nodes /\ Len(llid) = at - 1) \/ Len(llid) = Len(Nodes)
        BY <2>1, <2>2 DEF RowsMade
      <4>2. at \in DOMAIN Nodes => at \in Nat /\ at - 1 <= Len(Nodes)
        BY <2>4
      <4>3. Len(Nodes) <= Len(Nodes)
        BY <2>4
      <4> QED
        BY <4>1, <4>2, <4>3
    <3> QED
      BY <2>4, <3>1, <3>2
  <2>6. n \in Node
    BY <2>4, <2>5, ElementOfSeq
  <2>7. llid[i] = Row(n, own)
    BY <2>1 DEF RowsMade, Made
  <2>8. HasFn(n) => Nodes[Id(graph.fn[n]) + 1] = graph.fn[n]
    BY <2>3, <2>6, EntryNumbered
  <2>9. WellFormed(graph) /\ n # None
    BY <2>3, <2>6, GraphsAssumption, NamesAssumption DEF Groups, Typed
  <2>10. /\ graph.ntype[n] \in Insts => graph.inst[n] # -1 /\ HasFn(n)
         /\ graph.ntype[n] \notin Insts => graph.inst[n] = -1
         /\ graph.ntype[n] \notin Params => graph.param[n] = -1
         /\ graph.ntype[n] = "FUNC_ENTRY" => HasFn(n) /\ graph.fn[n] = n
    BY <2>6, <2>9, NamesAssumption DEF WellFormed, HasFn
  <2>11. "FUNC_ENTRY" \notin Insts \cup Params \cup Globals /\ Insts \cap Globals = {}
    BY DEF Insts, Params, Globals
  <2> HIDE DEF n
  <2>15. None \notin graph.named
    BY <2>9, NamesAssumption DEF WellFormed, GraphRecord
  <2>12. /\ own \in graph.named => llid[i].kind = "global" /\ llid[i].of = own
         /\ own \notin graph.named =>
               llid[i].kind # "global" /\ llid[i].of \in {graph.fn[n], None}
    BY <2>7, <2>8 DEF Row
  <2>13. graph.ntype[n] \in Insts /\ graph.fn[n] \in graph.named => llid[i].kind = "inst"
    BY <2>7, <2>8, <2>10, <2>11, <2>15 DEF Row
  <2>14. graph.ntype[n] = "FUNC_ENTRY" /\ n \in graph.named => llid[i].kind = "fn"
    BY <2>7, <2>8, <2>10, <2>11, <2>15 DEF Row
  <2> QED
    BY <2>9, <2>12, <2>13, <2>14, <2>15 DEF n, Nodes
<1> QED
  BY <1>1, IInvHolds, PTL


-----------------------------------------------------------------------------
(* The ranges. *)

LEMMA LeastOf ==
    ASSUME NEW S, S \subseteq Nat, S # {}
    PROVE  \E m \in S : \A q \in S : m <= q
<1> DEFINE Less == OpToRel(<, Nat)
<1>1. IsWellFoundedOn(Less, Nat)
  BY NatLessThanWellFounded
<1>2. \A i, j \in Nat : i < j => <<i, j>> \in Less
  BY DEF OpToRel
<1> HIDE DEF Less
<1>3. PICK m \in S : \A i \in S : <<i, m>> \notin Less
  BY <1>1, WFMin
<1>4. ASSUME NEW q \in S PROVE m <= q
  <2>1. m \in Nat /\ q \in Nat
    OBVIOUS
  <2>2. ~(q < m)
    BY <1>2, <1>3, <2>1
  <2> QED
    BY <2>1, <2>2
<1> QED
  BY <1>4

LEMMA GreatestOf ==
    ASSUME NEW S, NEW n \in Nat, S \subseteq 0 .. n, S # {}
    PROVE  \E m \in S : \A q \in S : q <= m
<1> DEFINE R == {n - q : q \in S}
<1>1. R \subseteq Nat /\ R # {}
  <2>1. \A q \in S : q \in 0 .. n
    OBVIOUS
  <2>2. \A q \in S : n - q \in Nat
    BY <2>1
  <2>3. PICK q \in S : TRUE
    OBVIOUS
  <2>4. n - q \in R
    OBVIOUS
  <2> QED
    BY <2>2, <2>4
<1>2. PICK r \in R : \A q \in R : r <= q
  BY <1>1, LeastOf
<1>3. PICK m \in S : r = n - m
  OBVIOUS
<1>4. ASSUME NEW q \in S PROVE q <= m
  <2>1. r <= n - q
    BY <1>2
  <2>2. q \in 0 .. n /\ m \in 0 .. n
    OBVIOUS
  <2> QED
    BY <1>3, <2>1, <2>2
<1> QED
  BY <1>4

\* A collated range is the numbers in the stretches of its types, although any
\* of them may have none.
LEMMA CollatedIs ==
    ASSUME NEW X, NEW by, NEW enum, DOMAIN enum \subseteq Nat, NEW k, NEW tab,
           Upto(tab, by, enum, X, k), NEW from \in Nat, NEW to \in Nat, NEW i
    PROVE  i \in Numbers(Collated(tab.range, from, to)) <=>
               /\ i \in DOMAIN tab.ordered
               /\ \E p \in DOMAIN tab.range : p \in from .. to /\ i \in Low(tab, p) + 1 .. High(tab, p)
<1> DEFINE defined == {p \in from .. to : p \in DOMAIN tab.range}
           a == CHOOSE p \in defined : \A q \in defined : p <= q
           b == CHOOSE p \in defined : \A q \in defined : p >= q
<1>1. Stretches(tab, by, enum, X) /\ \A p \in DOMAIN tab.range : p \in Nat
  BY DEF Upto
<1>2. /\ Len(tab.ordered) \in Nat /\ DOMAIN tab.ordered = 1 .. Len(tab.ordered)
      /\ \A p \in DOMAIN tab.range :
            /\ Low(tab, p) \in Nat /\ High(tab, p) \in Nat /\ Low(tab, p) < High(tab, p)
            /\ High(tab, p) <= Len(tab.ordered)
      /\ \A p, q \in DOMAIN tab.range : p < q => High(tab, p) <= Low(tab, q)
      /\ \A j \in DOMAIN tab.ordered : \E p \in DOMAIN tab.range : j \in Low(tab, p) + 1 .. High(tab, p)
  BY <1>1, LenProperties DEF Stretches, Stretch
<1>3. CASE defined = {}
  <2>1. Collated(tab.range, from, to) = <<0, -1>>
    BY <1>3 DEF Collated
  <2>2. Numbers(<<0, -1>>) = {}
    BY DEF Numbers
  <2> QED
    BY <1>3, <2>1, <2>2
<1>4. CASE defined # {}
  <2>1. defined \subseteq Nat /\ defined \subseteq 0 .. to
    OBVIOUS
  <2>2. \E p \in defined : \A q \in defined : p <= q
    BY <1>4, <2>1, LeastOf
  <2>3. \E p \in defined : \A q \in defined : p >= q
    <3>1. \E p \in defined : \A q \in defined : q <= p
      BY <1>4, <2>1, GreatestOf
    <3>2. \A p, q \in defined : q <= p => p >= q
      BY <2>1
    <3> QED
      BY <3>1, <3>2
  <2>4. Collated(tab.range, from, to) = <<Low(tab, a) + 1, High(tab, b)>>
    BY <1>4 DEF Collated, Low, High
  <2>5. a \in defined /\ \A q \in defined : a <= q
    BY <2>2
  <2>6. b \in defined /\ \A q \in defined : b >= q
    BY <2>3
  <2>7. \A p : p \in defined <=> p \in from .. to /\ p \in DOMAIN tab.range
    OBVIOUS
  <2> HIDE DEF a, b, defined
  <2>8. i \in Numbers(Collated(tab.range, from, to)) <=> i \in Low(tab, a) + 1 .. High(tab, b)
    BY <2>4 DEF Numbers
  <2>9. a \in DOMAIN tab.range /\ b \in DOMAIN tab.range /\ a \in from .. to /\ b \in from .. to
    BY <2>5, <2>6, <2>7
  <2>10. ASSUME i \in Low(tab, a) + 1 .. High(tab, b)
         PROVE  /\ i \in DOMAIN tab.ordered
                /\ \E p \in DOMAIN tab.range : p \in from .. to /\ i \in Low(tab, p) + 1 .. High(tab, p)
    <3>1. i \in DOMAIN tab.ordered
      BY <1>2, <2>9, <2>10
    <3>2. PICK p \in DOMAIN tab.range : i \in Low(tab, p) + 1 .. High(tab, p)
      BY <1>2, <3>1
    <3>3. ~(p < a)
      <4>1. p < a => High(tab, p) <= Low(tab, a)
        BY <1>2, <2>9
      <4> QED
        BY <1>2, <2>9, <2>10, <3>2, <4>1
    <3>4. ~(b < p)
      <4>1. b < p => High(tab, b) <= Low(tab, p)
        BY <1>2, <2>9
      <4> QED
        BY <1>2, <2>9, <2>10, <3>2, <4>1
    <3>5. p \in from .. to
      BY <1>1, <2>9, <3>3, <3>4
    <3> QED
      BY <3>1, <3>2, <3>5
  <2>11. ASSUME NEW p \in DOMAIN tab.range, p \in from .. to, i \in Low(tab, p) + 1 .. High(tab, p)
         PROVE  i \in Low(tab, a) + 1 .. High(tab, b)
    <3>1. a <= p /\ p <= b
      BY <2>5, <2>6, <2>7, <2>9, <2>11
    <3>2. Low(tab, a) <= Low(tab, p)
      <4>1. a < p => High(tab, a) <= Low(tab, p)
        BY <1>2, <2>9
      <4>2. a < p \/ a = p
        BY <1>1, <2>9, <3>1
      <4> QED
        BY <1>2, <2>9, <4>1, <4>2
    <3>3. High(tab, p) <= High(tab, b)
      <4>1. p < b => High(tab, p) <= Low(tab, b)
        BY <1>2, <2>9
      <4>2. p < b \/ p = b
        BY <1>1, <2>9, <3>1
      <4> QED
        BY <1>2, <2>9, <4>1, <4>2
    <3> QED
      BY <1>2, <2>9, <2>11, <3>2, <3>3
  <2> QED
    BY <2>8, <2>10, <2>11
<1> QED
  BY <1>3, <1>4

LEMMA RangeIs ==
    ASSUME NEW X, NEW T, NEW type, NEW by, Grouped(by, type, X, T),
           NEW enum, DOMAIN enum \subseteq Nat, NEW k, NEW tab, Upto(tab, by, enum, X, k),
           NEW from \in Nat, NEW to \in Nat, NEW K,
           \A p \in DOMAIN enum : enum[p] \in T => (enum[p] \in K <=> p \in from .. to)
    PROVE  Numbers(Collated(tab.range, from, to)) = NumbersOf(tab, type, K)
<1>1. ASSUME NEW i \in Numbers(Collated(tab.range, from, to)) PROVE i \in NumbersOf(tab, type, K)
  <2>1. /\ i \in DOMAIN tab.ordered
        /\ \E p \in DOMAIN tab.range : p \in from .. to /\ i \in Low(tab, p) + 1 .. High(tab, p)
    BY CollatedIs
  <2>2. PICK p \in DOMAIN tab.range : p \in from .. to /\ i \in Low(tab, p) + 1 .. High(tab, p)
    BY <2>1
  <2>3. p \in DOMAIN enum /\ enum[p] \in T /\ type[tab.ordered[i]] = enum[p]
    BY <2>1, <2>2, StretchTypes
  <2> QED
    BY <2>1, <2>2, <2>3 DEF NumbersOf
<1>2. ASSUME NEW i \in NumbersOf(tab, type, K) PROVE i \in Numbers(Collated(tab.range, from, to))
  <2>1. i \in DOMAIN tab.ordered /\ type[tab.ordered[i]] \in K
    BY DEF NumbersOf
  <2>2. PICK p \in DOMAIN tab.range : i \in Low(tab, p) + 1 .. High(tab, p)
    BY <2>1 DEF Upto, Stretches
  <2>3. p \in DOMAIN enum /\ enum[p] \in T /\ type[tab.ordered[i]] = enum[p]
    BY <2>1, <2>2, StretchTypes
  <2>4. p \in from .. to
    BY <2>1, <2>3
  <2> QED
    BY <2>1, <2>2, <2>4, CollatedIs
<1> QED
  BY <1>1, <1>2


LEMMA NodeRange ==
    ASSUME IInv, Written, NEW from \in Nat, NEW to \in Nat, NEW K,
           \A p \in 1 .. 21 : MznNodeType[p] \in GraphNodeType =>
               (MznNodeType[p] \in K <=> p \in from .. to)
    PROVE  Numbers(Collated(nodeTab.range, from, to)) = NumbersOf(nodeTab, graph.ntype, K)
<1>1. Upto(nodeTab, nodesBy, MznNodeType, Node, 22)
  BY WrittenNumbered DEF Numbering
<1>2. Grouped(nodesBy, graph.ntype, Node, GraphNodeType)
  BY WrittenNumbered, GroupedNodes
<1>3. DOMAIN MznNodeType = 1 .. 21 /\ DOMAIN MznNodeType \subseteq Nat
  BY NodeEnum
<1> QED
  BY <1>1, <1>2, <1>3, RangeIs

LEMMA EdgeRange ==
    ASSUME IInv, Written, NEW from \in Nat, NEW to \in Nat, NEW K,
           \A p \in 1 .. 29 : MznEdgeType[p] \in EdgeType =>
               (MznEdgeType[p] \in K <=> p \in from .. to)
    PROVE  Numbers(Collated(edgeTab.range, from, to)) = NumbersOf(edgeTab, etype, K)
<1>1. Upto(edgeTab, edgesBy, MznEdgeType, Edge, 30)
  BY WrittenNumbered DEF Numbering, Grouping
<1>2. Grouped(edgesBy, etype, Edge, EdgeType)
  BY WrittenNumbered, GroupedEdges
<1>3. DOMAIN MznEdgeType = 1 .. 29 /\ DOMAIN MznEdgeType \subseteq Nat
  BY EdgeEnum
<1>4. \A p \in DOMAIN MznEdgeType :
          MznEdgeType[p] \in EdgeType => (MznEdgeType[p] \in K <=> p \in from .. to)
  BY <1>3
<1>5. DOMAIN MznEdgeType \subseteq Nat
  BY EdgeEnum
<1> QED
  BY <1>1, <1>2, <1>4, <1>5, RangeIs

\* The range of a leaf type.
LEMMA NodeLeaf ==
    ASSUME IInv, Written, NEW t \in GraphNodeType
    PROVE  Numbers(mzn.nodes[t]) = NumbersOf(nodeTab, graph.ntype, {t})
<1> DEFINE q == Place(MznNodeType, t)
<1>1. q \in 1 .. 20 /\ MznNodeType[q] = t
  BY NodeTypePlace
<1> HIDE DEF q
<1>2. \A p \in 1 .. 21 : MznNodeType[p] \in {t} <=> p \in q .. q
  <2>1. \A p \in 1 .. 21 : MznNodeType[p] = t <=> p = q
    BY <1>1, NodeEnum DEF IsInjective
  <2>2. \A p \in 1 .. 21 : p \in q .. q <=> p = q
    BY <1>1
  <2> QED
    BY <2>1, <2>2
<1>3. Numbers(Collated(nodeTab.range, q, q)) = NumbersOf(nodeTab, graph.ntype, {t})
  <2>1. q \in Nat
    BY <1>1
  <2>2. \A p \in 1 .. 21 : MznNodeType[p] \in GraphNodeType =>
           (MznNodeType[p] \in {t} <=> p \in q .. q)
    BY <1>2
  <2> QED
    BY <2>1, <2>2, NodeRange, Zenon
<1>4. mzn.nodes[t] = Collated(nodeTab.range, q, q)
  <2>1. t \in Range(MznNodeType) /\ t \notin DOMAIN NodeCollations
    BY DEF GraphNodeType
  <2>2. mzn.nodes = StartEnd(nodeTab.range, MznNodeType, NodeCollations)
    BY WrittenNumbered DEF MznFile
  <2> QED
    BY <2>1, <2>2 DEF StartEnd, q
<1> QED
  BY <1>3, <1>4

LEMMA EdgeTypePlace ==
    ASSUME NEW t \in EdgeType
    PROVE  Place(MznEdgeType, t) \in 1 .. 28 /\ MznEdgeType[Place(MznEdgeType, t)] = t
<1>1. PICK p \in DOMAIN MznEdgeType : MznEdgeType[p] = t
  BY DEF EdgeType, Range
<1>2. p \in 1 .. 29 /\ Place(MznEdgeType, t) = p
  BY <1>1, EdgeEnum, PlaceIs
<1>3. p \in 1 .. 28
  BY <1>1, <1>2, EdgeKindPlaces
<1> QED
  BY <1>1, <1>2, <1>3

LEMMA EdgeLeaf ==
    ASSUME IInv, Written, NEW t \in EdgeType
    PROVE  Numbers(mzn.edges[t]) = NumbersOf(edgeTab, etype, {t})
<1> DEFINE q == Place(MznEdgeType, t)
<1>1. q \in 1 .. 28 /\ MznEdgeType[q] = t
  BY EdgeTypePlace
<1> HIDE DEF q
<1>2. \A p \in 1 .. 29 : MznEdgeType[p] \in {t} <=> p \in q .. q
  <2>1. \A p \in 1 .. 29 : MznEdgeType[p] = t <=> p = q
    BY <1>1, EdgeEnum DEF IsInjective
  <2>2. \A p \in 1 .. 29 : p \in q .. q <=> p = q
    BY <1>1
  <2> QED
    BY <2>1, <2>2
<1>3. Numbers(Collated(edgeTab.range, q, q)) = NumbersOf(edgeTab, etype, {t})
  <2>1. q \in Nat
    BY <1>1
  <2>2. \A p \in 1 .. 29 : MznEdgeType[p] \in EdgeType =>
           (MznEdgeType[p] \in {t} <=> p \in q .. q)
    BY <1>2
  <2> QED
    BY <2>1, <2>2, EdgeRange, Zenon
<1>4. mzn.edges[t] = Collated(edgeTab.range, q, q)
  <2>1. t \in Range(MznEdgeType) /\ t \notin DOMAIN EdgeCollations
    BY DEF EdgeType
  <2>2. mzn.edges = StartEnd(edgeTab.range, MznEdgeType, EdgeCollations)
    BY WrittenNumbered DEF MznFile
  <2> QED
    BY <2>1, <2>2 DEF StartEnd, q
<1> QED
  BY <1>3, <1>4

LEMMA NodeKindRange ==
    ASSUME IInv, Written, NEW k \in DOMAIN NodeKinds
    PROVE  Numbers(mzn.nodes[k]) = NumbersOf(nodeTab, graph.ntype, NodeKinds[k])
<1>1. k \in {"Inst", "VarNode", "Param", "Annotation", "PDGNode"}
  BY DEF NodeKinds
<1>2. \A p \in 1 .. 21 : MznNodeType[p] \in GraphNodeType =>
         /\ MznNodeType[p] \in NodeKinds["Inst"] <=> p \in 1 .. 4
         /\ MznNodeType[p] \in NodeKinds["VarNode"] <=> p \in 6 .. 9
         /\ MznNodeType[p] \in NodeKinds["Param"] <=> p \in 12 .. 15
         /\ MznNodeType[p] \in NodeKinds["Annotation"] <=> p \in 17 .. 19
         /\ MznNodeType[p] \in NodeKinds["PDGNode"] <=> p \in 1 .. 20
  BY NodeKindPlaces DEF NodeKinds
<1>3. k \in Range(MznNodeType)
  <2>1. /\ MznNodeType[5] = "Inst" /\ MznNodeType[10] = "VarNode" /\ MznNodeType[16] = "Param"
        /\ MznNodeType[20] = "Annotation" /\ MznNodeType[21] = "PDGNode"
    BY DEF MznNodeType
  <2> QED
    BY <1>1, <2>1, NodeEnum DEF Range
<1>4. mzn.nodes[k] = Collated(nodeTab.range, Place(MznNodeType, NodeCollations[k][1]),
                              Place(MznNodeType, NodeCollations[k][2]))
  <2>1. mzn.nodes = StartEnd(nodeTab.range, MznNodeType, NodeCollations)
    BY WrittenNumbered DEF MznFile
  <2>2. k \in DOMAIN NodeCollations
    BY <1>1 DEF NodeCollations
  <2> QED
    BY <1>3, <2>1, <2>2 DEF StartEnd
<1>5. CASE k = "Inst"
  <2>1. NodeCollations[k] = <<"INST_FUNCALL", "INST_OTHER">>
    BY <1>5 DEF NodeCollations
  <2>2. mzn.nodes[k] = Collated(nodeTab.range, 1, 4)
    BY <1>4, <2>1, NodePlaces
  <2>3. \A p \in 1 .. 21 : MznNodeType[p] \in GraphNodeType =>
            (MznNodeType[p] \in NodeKinds[k] <=> p \in 1 .. 4)
    BY <1>2, <1>5
  <2>4. 1 \in Nat /\ 4 \in Nat
    OBVIOUS
  <2>5. Numbers(Collated(nodeTab.range, 1, 4)) = NumbersOf(nodeTab, graph.ntype, NodeKinds[k])
    BY <2>3, <2>4, NodeRange
  <2> QED
    BY <2>2, <2>5
<1>6. CASE k = "VarNode"
  <2>1. NodeCollations[k] = <<"VAR_STATICALLOCGLOBALSCOPE", "VAR_OTHER">>
    BY <1>6 DEF NodeCollations
  <2>2. mzn.nodes[k] = Collated(nodeTab.range, 6, 9)
    BY <1>4, <2>1, NodePlaces
  <2>3. \A p \in 1 .. 21 : MznNodeType[p] \in GraphNodeType =>
            (MznNodeType[p] \in NodeKinds[k] <=> p \in 6 .. 9)
    BY <1>2, <1>6
  <2>4. 6 \in Nat /\ 9 \in Nat
    OBVIOUS
  <2>5. Numbers(Collated(nodeTab.range, 6, 9)) = NumbersOf(nodeTab, graph.ntype, NodeKinds[k])
    BY <2>3, <2>4, NodeRange
  <2> QED
    BY <2>2, <2>5
<1>7. CASE k = "Param"
  <2>1. NodeCollations[k] = <<"PARAM_FORMALIN", "PARAM_ACTUALOUT">>
    BY <1>7 DEF NodeCollations
  <2>2. mzn.nodes[k] = Collated(nodeTab.range, 12, 15)
    BY <1>4, <2>1, NodePlaces
  <2>3. \A p \in 1 .. 21 : MznNodeType[p] \in GraphNodeType =>
            (MznNodeType[p] \in NodeKinds[k] <=> p \in 12 .. 15)
    BY <1>2, <1>7
  <2>4. 12 \in Nat /\ 15 \in Nat
    OBVIOUS
  <2>5. Numbers(Collated(nodeTab.range, 12, 15)) = NumbersOf(nodeTab, graph.ntype, NodeKinds[k])
    BY <2>3, <2>4, NodeRange
  <2> QED
    BY <2>2, <2>5
<1>8. CASE k = "Annotation"
  <2>1. NodeCollations[k] = <<"ANNO_VAR", "ANNO_OTHER">>
    BY <1>8 DEF NodeCollations
  <2>2. mzn.nodes[k] = Collated(nodeTab.range, 17, 19)
    BY <1>4, <2>1, NodePlaces
  <2>3. \A p \in 1 .. 21 : MznNodeType[p] \in GraphNodeType =>
            (MznNodeType[p] \in NodeKinds[k] <=> p \in 17 .. 19)
    BY <1>2, <1>8
  <2>4. 17 \in Nat /\ 19 \in Nat
    OBVIOUS
  <2>5. Numbers(Collated(nodeTab.range, 17, 19)) = NumbersOf(nodeTab, graph.ntype, NodeKinds[k])
    BY <2>3, <2>4, NodeRange
  <2> QED
    BY <2>2, <2>5
<1>9. CASE k = "PDGNode"
  <2>1. NodeCollations[k] = <<"INST_FUNCALL", "Annotation">>
    BY <1>9 DEF NodeCollations
  <2>2. mzn.nodes[k] = Collated(nodeTab.range, 1, 20)
    BY <1>4, <2>1, NodePlaces
  <2>3. \A p \in 1 .. 21 : MznNodeType[p] \in GraphNodeType =>
            (MznNodeType[p] \in NodeKinds[k] <=> p \in 1 .. 20)
    BY <1>2, <1>9
  <2>4. 1 \in Nat /\ 20 \in Nat
    OBVIOUS
  <2>5. Numbers(Collated(nodeTab.range, 1, 20)) = NumbersOf(nodeTab, graph.ntype, NodeKinds[k])
    BY <2>3, <2>4, NodeRange
  <2> QED
    BY <2>2, <2>5
<1> QED
  BY <1>1, <1>5, <1>6, <1>7, <1>8, <1>9

LEMMA EdgeKindRange ==
    ASSUME IInv, Written, NEW k \in DOMAIN EdgeKinds
    PROVE  Numbers(mzn.edges[k]) = NumbersOf(edgeTab, etype, EdgeKinds[k])
<1>1. k \in {"ControlDep", "DataDepEdge", "Parameter", "Anno", "PDGEdge"}
  BY DEF EdgeKinds
<1>2. \A p \in 1 .. 29 : MznEdgeType[p] \in EdgeType =>
         /\ MznEdgeType[p] \in EdgeKinds["ControlDep"] <=> p \in 1 .. 6
         /\ MznEdgeType[p] \in EdgeKinds["DataDepEdge"] <=> p \in 8 .. 13
         /\ MznEdgeType[p] \in EdgeKinds["Parameter"] <=> p \in 20 .. 22
         /\ MznEdgeType[p] \in EdgeKinds["Anno"] <=> p \in 25 .. 27
         /\ MznEdgeType[p] \in EdgeKinds["PDGEdge"] <=> p \in 1 .. 28
  BY EdgeKindPlaces DEF EdgeKinds
<1>3. k \in Range(MznEdgeType)
  <2>1. /\ MznEdgeType[7] = "ControlDep" /\ MznEdgeType[24] = "Parameter"
        /\ MznEdgeType[19] = "DataDepEdge"
        /\ MznEdgeType[28] = "Anno" /\ MznEdgeType[29] = "PDGEdge"
    BY DEF MznEdgeType
  <2> QED
    BY <1>1, <2>1, EdgeEnum DEF Range
<1>4. mzn.edges[k] = Collated(edgeTab.range, Place(MznEdgeType, EdgeCollations[k][1]),
                              Place(MznEdgeType, EdgeCollations[k][2]))
  <2>1. mzn.edges = StartEnd(edgeTab.range, MznEdgeType, EdgeCollations)
    BY WrittenNumbered DEF MznFile
  <2>2. k \in DOMAIN EdgeCollations
    BY <1>1 DEF EdgeCollations
  <2> QED
    BY <1>3, <2>1, <2>2 DEF StartEnd
<1>5. CASE k = "ControlDep"
  <2>1. EdgeCollations[k] = <<"CONTROLDEP_CALLINV", "CONTROLDEP_OTHER">>
    BY <1>5 DEF EdgeCollations
  <2>2. mzn.edges[k] = Collated(edgeTab.range, 1, 6)
    BY <1>4, <2>1, EdgePlaces
  <2>3. \A p \in 1 .. 29 : MznEdgeType[p] \in EdgeType =>
            (MznEdgeType[p] \in EdgeKinds[k] <=> p \in 1 .. 6)
    BY <1>2, <1>5
  <2>4. 1 \in Nat /\ 6 \in Nat
    OBVIOUS
  <2>5. Numbers(Collated(edgeTab.range, 1, 6)) = NumbersOf(edgeTab, etype, EdgeKinds[k])
    BY <2>3, <2>4, EdgeRange
  <2> QED
    BY <2>2, <2>5
<1>6. CASE k = "Parameter"
  <2>1. EdgeCollations[k] = <<"PARAMETER_IN", "PARAMETER_FIELD">>
    BY <1>6 DEF EdgeCollations
  <2>2. mzn.edges[k] = Collated(edgeTab.range, 20, 22)
    BY <1>4, <2>1, EdgePlaces
  <2>3. \A p \in 1 .. 29 : MznEdgeType[p] \in EdgeType =>
            (MznEdgeType[p] \in EdgeKinds[k] <=> p \in 20 .. 22)
    BY <1>2, <1>6
  <2>4. 20 \in Nat /\ 22 \in Nat
    OBVIOUS
  <2>5. Numbers(Collated(edgeTab.range, 20, 22)) = NumbersOf(edgeTab, etype, EdgeKinds[k])
    BY <2>3, <2>4, EdgeRange
  <2> QED
    BY <2>2, <2>5
<1>7. CASE k = "Anno"
  <2>1. EdgeCollations[k] = <<"ANNO_GLOBAL", "ANNO_OTHER">>
    BY <1>7 DEF EdgeCollations
  <2>2. mzn.edges[k] = Collated(edgeTab.range, 25, 27)
    BY <1>4, <2>1, EdgePlaces
  <2>3. \A p \in 1 .. 29 : MznEdgeType[p] \in EdgeType =>
            (MznEdgeType[p] \in EdgeKinds[k] <=> p \in 25 .. 27)
    BY <1>2, <1>7
  <2>4. 25 \in Nat /\ 27 \in Nat
    OBVIOUS
  <2>5. Numbers(Collated(edgeTab.range, 25, 27)) = NumbersOf(edgeTab, etype, EdgeKinds[k])
    BY <2>3, <2>4, EdgeRange
  <2> QED
    BY <2>2, <2>5
<1>8. CASE k = "PDGEdge"
  <2>1. EdgeCollations[k] = <<"CONTROLDEP_CALLINV", "Anno">>
    BY <1>8 DEF EdgeCollations
  <2>2. mzn.edges[k] = Collated(edgeTab.range, 1, 28)
    BY <1>4, <2>1, EdgePlaces
  <2>3. \A p \in 1 .. 29 : MznEdgeType[p] \in EdgeType =>
            (MznEdgeType[p] \in EdgeKinds[k] <=> p \in 1 .. 28)
    BY <1>2, <1>8
  <2>4. 1 \in Nat /\ 28 \in Nat
    OBVIOUS
  <2>5. Numbers(Collated(edgeTab.range, 1, 28)) = NumbersOf(edgeTab, etype, EdgeKinds[k])
    BY <2>3, <2>4, EdgeRange
  <2> QED
    BY <2>2, <2>5
<1>9. CASE k = "DataDepEdge"
  <2>1. EdgeCollations[k] = <<"DATA_DEF_USE", "DATA_ALIAS">>
    BY <1>9 DEF EdgeCollations
  <2>2. mzn.edges[k] = Collated(edgeTab.range, 8, 13)
    BY <1>4, <2>1, EdgePlaces
  <2>3. \A p \in 1 .. 29 : MznEdgeType[p] \in EdgeType =>
            (MznEdgeType[p] \in EdgeKinds[k] <=> p \in 8 .. 13)
    BY <1>2, <1>9
  <2>4. 8 \in Nat /\ 13 \in Nat
    OBVIOUS
  <2>5. Numbers(Collated(edgeTab.range, 8, 13)) = NumbersOf(edgeTab, etype, EdgeKinds[k])
    BY <2>3, <2>4, EdgeRange
  <2> QED
    BY <2>2, <2>5
<1> QED
  BY <1>1, <1>5, <1>6, <1>7, <1>8, <1>9

\* RangesExact: the numbers between the start and the end of a type, leaf or
\* collated, are those of the nodes and edges of that type and no others.
THEOREM RangesAreExact == Spec => []RangesExact
<1>1. IInv => RangesExact
  BY NodeLeaf, EdgeLeaf, NodeKindRange, EdgeKindRange DEF RangesExact
<1> QED
  BY <1>1, IInvHolds, PTL


-----------------------------------------------------------------------------
(* The arrays over a range. *)

LEMMA CollatedTyped ==
    ASSUME NEW X, NEW by, NEW enum, DOMAIN enum \subseteq Nat, NEW k, NEW tab,
           Upto(tab, by, enum, X, k), NEW from \in Nat, NEW to \in Nat
    PROVE  Collated(tab.range, from, to)[1] \in Int /\ Collated(tab.range, from, to)[2] \in Int
<1> DEFINE defined == {p \in from .. to : p \in DOMAIN tab.range}
           a == CHOOSE p \in defined : \A q \in defined : p <= q
           b == CHOOSE p \in defined : \A q \in defined : p >= q
<1>1. \A p \in DOMAIN tab.range : Low(tab, p) \in Nat /\ High(tab, p) \in Nat
  BY DEF Upto, Stretches, Stretch
<1>2. CASE defined = {}
  <2>1. Collated(tab.range, from, to) = <<0, -1>>
    BY <1>2 DEF Collated
  <2> QED
    BY <2>1
<1>3. CASE defined # {}
  <2>1. defined \subseteq Nat /\ defined \subseteq 0 .. to
    OBVIOUS
  <2>2. \E p \in defined : \A q \in defined : p <= q
    BY <1>3, <2>1, LeastOf
  <2>3. \E p \in defined : \A q \in defined : p >= q
    <3>1. \E p \in defined : \A q \in defined : q <= p
      BY <1>3, <2>1, GreatestOf
    <3>2. \A p, q \in defined : q <= p => p >= q
      BY <2>1
    <3> QED
      BY <3>1, <3>2
  <2>4. Collated(tab.range, from, to) = <<Low(tab, a) + 1, High(tab, b)>>
    BY <1>3 DEF Collated, Low, High
  <2>5. a \in defined /\ b \in defined
    BY <2>2, <2>3
  <2>6. \A p \in defined : p \in DOMAIN tab.range
    OBVIOUS
  <2> HIDE DEF a, b, defined
  <2>7. Low(tab, a) \in Nat /\ High(tab, b) \in Nat
    BY <1>1, <2>5, <2>6
  <2> QED
    BY <2>4, <2>7
<1> QED
  BY <1>2, <1>3

\* The places from l to h are those of the elements in S.
Mark(s, S, l, h) == \A i : i \in l .. h <=> i \in DOMAIN s /\ s[i] \in S

\* What a range numbers is kept in the order of its numbers.
LEMMA KeptRange ==
    ASSUME NEW X, NEW s \in Seq(X), NEW S, NEW l \in Int, NEW h \in Int, Mark(s, S, l, h)
    PROVE  /\ DOMAIN Kept(s, S) = 1 .. Cardinality(l .. h)
           /\ \A j \in DOMAIN Kept(s, S) : l + j - 1 \in l .. h /\ Kept(s, S)[j] = s[l + j - 1]
           /\ \A i \in l .. h : i - l + 1 \in DOMAIN Kept(s, S) /\ Kept(s, S)[i - l + 1] = s[i]
<1>1. Len(s) \in Nat /\ DOMAIN s = 1 .. Len(s)
  BY LenProperties
<1>2. Cardinality(l .. h) = IF l > h THEN 0 ELSE h - l + 1
  BY FS_Interval
<1> USE DEF Mark
<1>3. CASE l > h
  <2>1. \A i \in DOMAIN s : s[i] \in S <=> i \in 0 + 1 .. 0
    BY <1>3
  <2>2. 0 \in Nat /\ 0 <= 0 /\ 0 <= Len(s)
    BY <1>1
  <2>3. DOMAIN Kept(s, S) = 1 .. 0 - 0
    BY <2>1, <2>2, KeptTogether
  <2>4. DOMAIN Kept(s, S) = {} /\ l .. h = {} /\ 1 .. Cardinality(l .. h) = {}
    BY <1>2, <1>3, <2>3
  <2> QED
    BY <2>4
<1>4. CASE ~(l > h)
  <2>1. l \in 1 .. Len(s) /\ h \in 1 .. Len(s)
    BY <1>1, <1>4
  <2> DEFINE a == l - 1
  <2>2. a \in Nat /\ h \in Nat /\ a <= h /\ h <= Len(s) /\ a + 1 = l
    BY <1>1, <1>4, <2>1
  <2>3. \A i \in DOMAIN s : s[i] \in S <=> i \in a + 1 .. h
    BY <2>2
  <2> HIDE DEF a
  <2>4. /\ DOMAIN Kept(s, S) = 1 .. h - a
        /\ \A k \in 1 .. h - a : Kept(s, S)[k] = s[a + k]
    BY <2>2, <2>3, KeptTogether
  <2>5. h - a = h - l + 1 /\ DOMAIN Kept(s, S) = 1 .. Cardinality(l .. h)
    BY <1>2, <1>4, <2>2, <2>4
  <2>6. ASSUME NEW j \in DOMAIN Kept(s, S)
        PROVE  l + j - 1 \in l .. h /\ Kept(s, S)[j] = s[l + j - 1]
    <3>1. j \in 1 .. h - a /\ l + j - 1 = a + j /\ l + j - 1 \in l .. h
      BY <2>2, <2>4
    <3> QED
      BY <2>4, <3>1
  <2>7. ASSUME NEW i \in l .. h
        PROVE  i - l + 1 \in DOMAIN Kept(s, S) /\ Kept(s, S)[i - l + 1] = s[i]
    <3>1. i - l + 1 \in 1 .. h - a /\ a + (i - l + 1) = i
      BY <2>2
    <3> QED
      BY <2>4, <3>1
  <2> QED
    BY <2>5, <2>6, <2>7
<1> QED
  BY <1>3, <1>4

\* The nodes of some types are those of the range of these types.
LEMMA NodesOfRange ==
    ASSUME IInv, Written, NEW T, NEW l \in Int, NEW h \in Int,
           l .. h = NumbersOf(nodeTab, graph.ntype, T)
    PROVE  /\ DOMAIN NodesOf(T) = 1 .. Cardinality(l .. h)
           /\ \A j \in DOMAIN NodesOf(T) : l + j - 1 \in l .. h /\ NodesOf(T)[j] = Nodes[l + j - 1]
           /\ \A i \in l .. h : i - l + 1 \in DOMAIN NodesOf(T) /\ NodesOf(T)[i - l + 1] = Nodes[i]
<1> DEFINE S == {n \in Node : graph.ntype[n] \in T}
<1>1. Nodes \in Seq(Node)
  BY WrittenNumbered, NodesNumbered
<1>2. \A i \in DOMAIN Nodes : Nodes[i] \in S <=> graph.ntype[Nodes[i]] \in T
  BY <1>1, ElementOfSeq, LenProperties
<1> HIDE DEF S
<1>3. Mark(Nodes, S, l, h)
  BY <1>2 DEF NumbersOf, Nodes, Mark
<1>4. /\ DOMAIN Kept(Nodes, S) = 1 .. Cardinality(l .. h)
      /\ \A j \in DOMAIN Kept(Nodes, S) :
            l + j - 1 \in l .. h /\ Kept(Nodes, S)[j] = Nodes[l + j - 1]
      /\ \A i \in l .. h : i - l + 1 \in DOMAIN Kept(Nodes, S) /\ Kept(Nodes, S)[i - l + 1] = Nodes[i]
  BY <1>1, <1>3, KeptRange
<1>5. NodesOf(T) = Kept(Nodes, S)
  BY DEF NodesOf, S
<1> QED
  BY <1>4, <1>5

\* The two ranges an array is about.
LEMMA ArrayRanges ==
    ASSUME IInv, Written
    PROVE  /\ mzn.nodes.Param[1] \in Int /\ mzn.nodes.Param[2] \in Int
           /\ mzn.nodes.FUNC_ENTRY[1] \in Int /\ mzn.nodes.FUNC_ENTRY[2] \in Int
           /\ Numbers(mzn.nodes.Param) = NumbersOf(nodeTab, graph.ntype, Params)
           /\ Numbers(mzn.nodes.FUNC_ENTRY) = NumbersOf(nodeTab, graph.ntype, {"FUNC_ENTRY"})
<1>1. Upto(nodeTab, nodesBy, MznNodeType, Node, 22) /\ DOMAIN MznNodeType \subseteq Nat
  BY WrittenNumbered, NodeEnum DEF Numbering
<1>2. /\ \A t \in Range(MznNodeType) \ DOMAIN NodeCollations :
            mzn.nodes[t] = Collated(nodeTab.range, Place(MznNodeType, t), Place(MznNodeType, t))
      /\ \A t \in Range(MznNodeType) \cap DOMAIN NodeCollations :
            mzn.nodes[t] = Collated(nodeTab.range, Place(MznNodeType, NodeCollations[t][1]),
                                    Place(MznNodeType, NodeCollations[t][2]))
  <2>1. mzn.nodes = StartEnd(nodeTab.range, MznNodeType, NodeCollations)
    BY WrittenNumbered DEF MznFile
  <2> QED
    BY <2>1 DEF StartEnd
<1>3. /\ "FUNC_ENTRY" \in GraphNodeType
      /\ "FUNC_ENTRY" \in Range(MznNodeType) \ DOMAIN NodeCollations
      /\ "Param" \in Range(MznNodeType) \cap DOMAIN NodeCollations
      /\ NodeCollations["Param"] = <<"PARAM_FORMALIN", "PARAM_ACTUALOUT">>
  <2>1. MznNodeType[11] = "FUNC_ENTRY" /\ MznNodeType[16] = "Param"
    BY DEF MznNodeType
  <2>2. "FUNC_ENTRY" \in Range(MznNodeType) /\ "Param" \in Range(MznNodeType)
    BY <2>1, NodeEnum DEF Range
  <2> QED
    BY <2>2 DEF GraphNodeType, NodeCollations
<1>4. mzn.nodes["FUNC_ENTRY"] = Collated(nodeTab.range, 11, 11)
  BY <1>2, <1>3, NodePlaces
<1>5. mzn.nodes["Param"] = Collated(nodeTab.range, 12, 15)
  BY <1>2, <1>3, NodePlaces
<1>6. \A from, to \in Nat : /\ Collated(nodeTab.range, from, to)[1] \in Int
                            /\ Collated(nodeTab.range, from, to)[2] \in Int
  BY <1>1, CollatedTyped
<1>7. 11 \in Nat /\ 12 \in Nat /\ 15 \in Nat
  OBVIOUS
<1>8. Numbers(mzn.nodes["FUNC_ENTRY"]) = NumbersOf(nodeTab, graph.ntype, {"FUNC_ENTRY"})
  BY <1>3, NodeLeaf
<1>9. Numbers(mzn.nodes["Param"]) = NumbersOf(nodeTab, graph.ntype, Params)
  <2>1. "Param" \in DOMAIN NodeKinds /\ NodeKinds["Param"] = Params
    BY DEF NodeKinds
  <2> QED
    BY <2>1, NodeKindRange
<1>10. /\ mzn.nodes["Param"][1] \in Int /\ mzn.nodes["Param"][2] \in Int
       /\ mzn.nodes["FUNC_ENTRY"][1] \in Int /\ mzn.nodes["FUNC_ENTRY"][2] \in Int
  BY <1>4, <1>5, <1>6, <1>7
<1> QED
  BY <1>8, <1>9, <1>10


LEMMA FunctionOf ==
    ASSUME IInv, Written, NEW i \in DOMAIN Nodes
    PROVE  LET n == Nodes[i]
               f == mzn.hasFunction[i]
           IN  /\ n \in Node
               /\ HasFn(n) => /\ f = Id(graph.fn[n]) + 1 /\ f \in DOMAIN Nodes /\ f # 0
                              /\ Nodes[f] = graph.fn[n]
                              /\ graph.ntype[Nodes[f]] = "FUNC_ENTRY"
               /\ ~HasFn(n) => f = 0
<1> DEFINE n == Nodes[i]
           f == mzn.hasFunction[i]
<1>1. Nodes \in Seq(Node)
  BY WrittenNumbered, NodesNumbered
<1>2. n \in Node
  BY <1>1, ElementOfSeq
<1>3. f = IF HasFn(n) THEN Id(graph.fn[n]) + 1 ELSE 0
  BY WrittenNumbered DEF MznFile, HasFunction
<1>4. HasFn(n) => /\ Id(graph.fn[n]) + 1 \in DOMAIN Nodes /\ Nodes[Id(graph.fn[n]) + 1] = graph.fn[n]
                  /\ graph.ntype[graph.fn[n]] = "FUNC_ENTRY"
  BY <1>2, WrittenNumbered, EntryNumbered
<1>5. \A k \in DOMAIN Nodes : k # 0
  BY <1>1, LenProperties
<1> QED
  BY <1>2, <1>3, <1>4, <1>5

LEMMA ParamIdxOf ==
    ASSUME IInv, Written, NEW n \in Node
    PROVE  /\ graph.param[n] \in Nat \cup {-1}
           /\ \A k \in Nat \cup {-1} :
                 (IF k >= 0 THEN k + 1 ELSE k) = (IF k = -1 THEN -1 ELSE k + 1)
<1>1. graph.param[n] \in Nat \cup {-1}
  BY GraphIs DEF IInv, Groups, Typed
<1> QED
  BY <1>1

\* ArraysAligned: the j-th entries of hasParamIdx and userAnnotated are about
\* the j-th numbers of Param and FunctionEntry, and hasFunction names function
\* entries only.
THEOREM ArraysAreAligned == Spec => []ArraysAligned
<1>1. IInv => ArraysAligned
  <2> SUFFICES ASSUME IInv, Written PROVE ArraysAligned
    BY DEF ArraysAligned
  <2> DEFINE P == mzn.nodes.Param
             F == mzn.nodes.FUNC_ENTRY
  <2>1. /\ P[1] \in Int /\ P[2] \in Int /\ F[1] \in Int /\ F[2] \in Int
        /\ Numbers(P) = NumbersOf(nodeTab, graph.ntype, Params)
        /\ Numbers(F) = NumbersOf(nodeTab, graph.ntype, {"FUNC_ENTRY"})
        /\ Numbers(P) = P[1] .. P[2] /\ Numbers(F) = F[1] .. F[2]
    BY ArrayRanges DEF Numbers
  <2>2. /\ mzn.hasParamIdx = ParamIdx(NodesOf(Params))
        /\ mzn.userAnnotated = [i \in DOMAIN Entries |-> graph.anno[Entries[i]] # None]
        /\ Entries = NodesOf({"FUNC_ENTRY"})
    BY WrittenNumbered DEF MznFile, HasParamIdx, UserAnnotated, Entries
  <2>3. Nodes \in Seq(Node)
    BY WrittenNumbered, NodesNumbered
  <2> HIDE DEF P, F
  <2>4. /\ DOMAIN NodesOf(Params) = 1 .. Cardinality(Numbers(P))
        /\ \A j \in DOMAIN NodesOf(Params) :
              P[1] + j - 1 \in Numbers(P) /\ NodesOf(Params)[j] = Nodes[P[1] + j - 1]
    <3>1. P[1] \in Int /\ P[2] \in Int /\ P[1] .. P[2] = NumbersOf(nodeTab, graph.ntype, Params)
      BY <2>1
    <3>2. /\ DOMAIN NodesOf(Params) = 1 .. Cardinality(P[1] .. P[2])
          /\ \A j \in DOMAIN NodesOf(Params) :
                P[1] + j - 1 \in P[1] .. P[2] /\ NodesOf(Params)[j] = Nodes[P[1] + j - 1]
      BY <3>1, NodesOfRange
    <3> QED
      BY <2>1, <3>2
  <2>5. /\ DOMAIN NodesOf({"FUNC_ENTRY"}) = 1 .. Cardinality(Numbers(F))
        /\ \A j \in DOMAIN NodesOf({"FUNC_ENTRY"}) :
              F[1] + j - 1 \in Numbers(F) /\ NodesOf({"FUNC_ENTRY"})[j] = Nodes[F[1] + j - 1]
    BY <2>1, NodesOfRange
  <2>6. DOMAIN mzn.hasParamIdx = 1 .. Cardinality(Numbers(P))
    BY <2>2, <2>4 DEF ParamIdx
  <2>7. ASSUME NEW j \in DOMAIN mzn.hasParamIdx
        PROVE  mzn.hasParamIdx[j] = LET k == graph.param[Nth(P, j)] IN IF k = -1 THEN -1 ELSE k + 1
    <3> DEFINE n == NodesOf(Params)[j]
    <3>1. j \in DOMAIN NodesOf(Params)
      BY <2>4, <2>6
    <3>2. n = Nth(P, j) /\ P[1] + j - 1 \in DOMAIN Nodes
      BY <2>1, <2>4, <3>1 DEF Nth, Nodes, NumbersOf
    <3>3. n \in Node
      BY <2>3, <2>4, <3>1, <3>2, ElementOfSeq
    <3>4. mzn.hasParamIdx[j] = LET k == graph.param[n] IN IF k >= 0 THEN k + 1 ELSE k
      BY <2>2, <3>1 DEF ParamIdx
    <3>5. /\ graph.param[n] \in Nat \cup {-1}
          /\ \A k \in Nat \cup {-1} :
                (IF k >= 0 THEN k + 1 ELSE k) = (IF k = -1 THEN -1 ELSE k + 1)
      BY <3>3, ParamIdxOf
    <3> HIDE DEF n
    <3> QED
      BY <3>2, <3>4, <3>5
  <2>8. DOMAIN mzn.userAnnotated = 1 .. Cardinality(Numbers(F))
    BY <2>2, <2>5
  <2>9. ASSUME NEW j \in DOMAIN mzn.userAnnotated
        PROVE  mzn.userAnnotated[j] <=> graph.anno[Nth(F, j)] # None
    <3>1. j \in DOMAIN Entries /\ Entries[j] = Nth(F, j)
      BY <2>2, <2>5 DEF Nth, Nodes
    <3>2. mzn.userAnnotated[j] = (graph.anno[Entries[j]] # None)
      BY <2>2, <3>1
    <3> QED
      BY <3>1, <3>2
  <2>10. ASSUME NEW i \in DOMAIN nodeTab.ordered
         PROVE  LET f == mzn.hasFunction[i]
                IN /\ f # 0 => f \in Numbers(F)
                   /\ graph.fn[nodeTab.ordered[i]] = IF f = 0 THEN None ELSE nodeTab.ordered[f]
    <3> DEFINE f == mzn.hasFunction[i]
    <3>1. /\ HasFn(Nodes[i]) => /\ f \in DOMAIN Nodes /\ f # 0 /\ Nodes[f] = graph.fn[Nodes[i]]
                                /\ graph.ntype[Nodes[f]] = "FUNC_ENTRY"
          /\ ~HasFn(Nodes[i]) => f = 0
      BY FunctionOf DEF Nodes
    <3>2. HasFn(Nodes[i]) => f \in Numbers(F)
      BY <2>1, <3>1 DEF NumbersOf, Nodes
    <3> QED
      BY <3>1, <3>2 DEF HasFn, Nodes
  <2> QED
    BY <2>6, <2>7, <2>8, <2>9, <2>10 DEF ArraysAligned, P, F
<1> QED
  BY <1>1, IInvHolds, PTL


-----------------------------------------------------------------------------
(* The files side by side. *)

\* A function on a sequence of places has a bound.
LEMMA Bounded ==
    ASSUME NEW n \in Nat, NEW f, \A i \in 1 .. n : f[i] \in Nat
    PROVE  \E b \in Nat : \A i \in 1 .. n : f[i] <= b
<1> DEFINE Upper(k, b) == \A i \in 1 .. k : f[i] <= b
           Bad == {k \in 0 .. n : ~\E b \in Nat : Upper(k, b)}
<1>1. SUFFICES ASSUME Bad # {} PROVE FALSE
  <2>1. n \in 0 .. n
    OBVIOUS
  <2> QED
    BY <2>1
<1>2. Bad \subseteq Nat
  OBVIOUS
<1>3. PICK k \in Bad : \A q \in Bad : k <= q
  BY <1>1, <1>2, LeastOf
<1>4. k \in 0 .. n /\ ~\E b \in Nat : Upper(k, b)
  OBVIOUS
<1>5. k # 0
  <2>1. Upper(0, 0)
    OBVIOUS
  <2> QED
    BY <1>4, <2>1
<1>6. k - 1 \in 0 .. n /\ k \in 1 .. n /\ ~(k <= k - 1)
  BY <1>4, <1>5
<1>7. k - 1 \notin Bad
  BY <1>3, <1>6
<1>8. PICK b \in Nat : Upper(k - 1, b)
  BY <1>6, <1>7
<1>9. f[k] \in Nat
  BY <1>6
<1>10. CASE f[k] <= b
  <2>1. \A i \in 1 .. k : i = k \/ i \in 1 .. k - 1
    BY <1>6
  <2>2. Upper(k, b)
    BY <1>8, <1>10, <2>1
  <2> QED
    BY <1>4, <2>2
<1>11. CASE ~(f[k] <= b)
  <2>1. \A i \in 1 .. k : i = k \/ i \in 1 .. k - 1
    BY <1>6
  <2>2. \A i \in 1 .. k - 1 : f[i] \in Nat /\ f[i] <= b
    BY <1>6, <1>8
  <2>3. \A i \in 1 .. k - 1 : f[i] <= f[k]
    BY <1>9, <1>11, <2>2
  <2>4. ASSUME NEW i \in 1 .. k PROVE f[i] <= f[k]
    <3>1. f[k] <= f[k]
      BY <1>9
    <3> QED
      BY <2>1, <2>3, <3>1
  <2> QED
    BY <1>4, <1>9, <2>4
<1> QED
  BY <1>10, <1>11

\* MaxFnParams is at least the arity of every function.
LEMMA MaxFnParamsIs ==
    ASSUME Groups
    PROVE  /\ MaxFnParams \in Nat
           /\ \A n \in Members(graph) : graph.ntype[n] = "FUNC_ENTRY" => graph.arity[n] <= MaxFnParams
<1> DEFINE entries == {n \in Members(graph) : graph.ntype[n] = "FUNC_ENTRY"}
           arities == {0} \cup {graph.arity[n] : n \in entries}
<1>1. graph.order \in Seq(Node) /\ graph.arity \in [Node -> Nat] /\ Members(graph) \subseteq Node
  BY GraphIs DEF Groups, Typed
<1>2. Len(graph.order) \in Nat /\ DOMAIN graph.order = 1 .. Len(graph.order)
      /\ \A i \in 1 .. Len(graph.order) : graph.order[i] \in Node
  BY <1>1, LenProperties, ElementOfSeq
<1> DEFINE a == [i \in 1 .. Len(graph.order) |-> graph.arity[graph.order[i]]]
<1>3. \A i \in 1 .. Len(graph.order) : a[i] \in Nat
  BY <1>1, <1>2
<1>4. \E b \in Nat : \A i \in 1 .. Len(graph.order) : a[i] <= b
  <2> HIDE DEF a
  <2> QED
    BY <1>2, <1>3, Bounded
<1>5. PICK b \in Nat : \A i \in 1 .. Len(graph.order) : a[i] <= b
  BY <1>4
<1>6. \A n \in entries : graph.arity[n] \in 0 .. b
  <2> SUFFICES ASSUME NEW n \in Members(graph) PROVE graph.arity[n] \in 0 .. b
    OBVIOUS
  <2>1. PICK i \in 1 .. Len(graph.order) : graph.order[i] = n
    BY <1>2 DEF Members, Range
  <2>2. a[i] = graph.arity[n] /\ a[i] <= b /\ a[i] \in Nat
    BY <1>3, <1>5, <2>1
  <2> QED
    BY <2>2
<1>7. arities \subseteq 0 .. b /\ arities # {}
  BY <1>6
<1>8. \E k \in arities : \A j \in arities : j <= k
  <2> HIDE DEF arities
  <2> QED
    BY <1>7, GreatestOf
<1>9. MaxFnParams = CHOOSE k \in arities : \A j \in arities : j <= k
  BY DEF MaxFnParams
<1>10. MaxFnParams \in arities /\ \A j \in arities : j <= MaxFnParams
  <2> HIDE DEF arities
  <2> QED
    BY <1>8, <1>9
<1>11. \A n \in Members(graph) : graph.ntype[n] = "FUNC_ENTRY" => graph.arity[n] \in arities
  OBVIOUS
<1> HIDE DEF arities
<1>12. MaxFnParams \in Nat
  BY <1>7, <1>10
<1> QED
  BY <1>10, <1>11, <1>12

LEMMA AnnotatedIs ==
    ASSUME IInv, Written
    PROVE  /\ \A i \in DOMAIN AnnotatedEntries :
                 LET n == AnnotatedEntries[i]
                 IN n \in Members(graph) /\ graph.ntype[n] = "FUNC_ENTRY" /\ graph.anno[n] # None
           /\ \A n \in Members(graph) : graph.ntype[n] = "FUNC_ENTRY" /\ graph.anno[n] # None =>
                 \E i \in DOMAIN AnnotatedEntries : AnnotatedEntries[i] = n
<1> DEFINE S == {n \in Node : graph.ntype[n] = "FUNC_ENTRY" /\ graph.anno[n] # None}
<1>1. Nodes \in Seq(Node) /\ Range(Nodes) = Members(graph)
  BY WrittenNumbered, NodesNumbered
<1>2. Members(graph) \subseteq Node
  BY GraphIs DEF IInv, Groups, Typed
<1>3. \A n \in Node : n \in S <=> graph.ntype[n] = "FUNC_ENTRY" /\ graph.anno[n] # None
  OBVIOUS
<1>4. AnnotatedEntries = Kept(Nodes, S)
  BY DEF AnnotatedEntries
<1> HIDE DEF S
<1>5. Range(Kept(Nodes, S)) = Range(Nodes) \cap S
  BY <1>1, KeptIs
<1>6. \A n : n \in Range(AnnotatedEntries) <=> n \in Members(graph) /\ n \in S
  BY <1>1, <1>4, <1>5
<1> QED
  BY <1>2, <1>3, <1>6 DEF Range

LEMMA TaintsAre ==
    ASSUME IInv, Written, NEW i, NEW x
    PROVE  /\ <<i, x>> \in mzn.taints <=>
                  i \in DOMAIN Nodes /\ x = graph.anno[Nodes[i]] /\ graph.anno[Nodes[i]] # None
           /\ i \in {y[1] : y \in mzn.taints} <=> i \in DOMAIN Nodes /\ graph.anno[Nodes[i]] # None
<1>1. mzn.taints = Taints
  BY WrittenNumbered DEF MznFile
<1>2. <<i, x>> \in Taints <=>
          i \in DOMAIN Nodes /\ x = graph.anno[Nodes[i]] /\ graph.anno[Nodes[i]] # None
  BY DEF Taints
<1>3. i \in {y[1] : y \in Taints} <=> i \in DOMAIN Nodes /\ graph.anno[Nodes[i]] # None
  <2>1. ASSUME NEW y \in Taints, i = y[1] PROVE i \in DOMAIN Nodes /\ graph.anno[Nodes[i]] # None
    <3>1. PICK j \in {k \in DOMAIN Nodes : graph.anno[Nodes[k]] # None} :
              y = <<j, graph.anno[Nodes[j]]>>
      BY DEF Taints
    <3>2. i = j
      BY <2>1, <3>1
    <3> QED
      BY <3>1, <3>2
  <2>2. ASSUME i \in DOMAIN Nodes, graph.anno[Nodes[i]] # None
        PROVE  i \in {y[1] : y \in Taints}
    <3>1. <<i, graph.anno[Nodes[i]]>> \in Taints
      BY <2>2 DEF Taints
    <3>2. <<i, graph.anno[Nodes[i]]>>[1] = i
      OBVIOUS
    <3> QED
      BY <3>1, <3>2
  <2> QED
    BY <2>1, <2>2
<1> QED
  BY <1>1, <1>2, <1>3


\* What pdg_data.csv and pdg_node_to_llid.csv say of a node.
NodeAgrees(i) ==
    LET d == data.nodes[i]
    IN /\ i \in Numbers(mzn.nodes[d.type])
       /\ d.fn = mzn.hasFunction[i]
       /\ d.anno # None <=> <<i, d.anno>> \in mzn.taints
       /\ d.type \in Params =>
            d.param = LET k == mzn.hasParamIdx[i - mzn.nodes.Param[1] + 1]
                      IN IF k = -1 THEN -1 ELSE k - 1
       /\ d.type \in {"PARAM_FORMALIN", "PARAM_FORMALOUT"} => d.param < mzn.maxFuncParams
       /\ llid[i].kind \in {"inst", "param", "fn"} =>
            /\ llid[i].of = nodeTab.ordered[d.fn]
            /\ llid[i].place = CASE llid[i].kind = "inst" -> d.inst
                                 [] llid[i].kind = "param" -> d.param
                                 [] OTHER -> 0

LEMMA NodesAgree ==
    ASSUME IInv, pc = "done", NEW i \in DOMAIN Nodes PROVE NodeAgrees(i)
<1> DEFINE n == Nodes[i]
           d == data.nodes[i]
<1>1. Written /\ data = DataFile /\ mzn = MznFile /\ RowsMade
  BY DEF IInv, FilesMade, Written
<1>2. Nodes \in Seq(Node) /\ Range(Nodes) = Members(graph) /\ DOMAIN Nodes = 1 .. Len(Nodes)
      /\ Len(Nodes) \in Nat
  BY <1>1, WrittenNumbered, NodesNumbered, LenProperties
<1>3. n \in Node /\ n \in Members(graph) /\ i \in 1 .. Len(Nodes)
  BY <1>2, ElementOfSeq DEF Range
<1>4. /\ d.type = graph.ntype[n] /\ d.anno = graph.anno[n] /\ d.inst = graph.inst[n]
      /\ d.param = graph.param[n] /\ d.fn = IF HasFn(n) THEN Id(graph.fn[n]) + 1 ELSE 0
  <2>1. d = DataRow(n, IF HasFn(n) THEN Id(graph.fn[n]) + 1 ELSE 0)
    BY <1>1 DEF DataFile, DataNodes
  <2> QED
    BY <2>1 DEF DataRow
<1>5. WellFormed(graph) /\ graph \in Graphs /\ graph.ntype \in [Node -> GraphNodeType]
  BY GraphIs, GraphsAssumption DEF IInv, Groups, Typed
<1>6. d.type \in GraphNodeType
  BY <1>3, <1>4, <1>5
<1>7. i \in Numbers(mzn.nodes[d.type])
  <2>1. Numbers(mzn.nodes[d.type]) = NumbersOf(nodeTab, graph.ntype, {d.type})
    BY <1>1, <1>6, NodeLeaf
  <2> QED
    BY <1>4, <2>1 DEF NumbersOf, Nodes
<1>8. /\ HasFn(n) => d.fn \in DOMAIN Nodes /\ Nodes[d.fn] = graph.fn[n]
      /\ d.fn = mzn.hasFunction[i]
  BY <1>1, <1>4, FunctionOf
<1>9. d.anno # None <=> <<i, d.anno>> \in mzn.taints
  BY <1>1, <1>4, TaintsAre
<1>10. ASSUME d.type \in Params
       PROVE  d.param = LET k == mzn.hasParamIdx[i - mzn.nodes.Param[1] + 1]
                        IN IF k = -1 THEN -1 ELSE k - 1
  <2> DEFINE P == mzn.nodes.Param
             j == i - P[1] + 1
  <2>1. /\ P[1] \in Int /\ P[2] \in Int
        /\ Numbers(P) = NumbersOf(nodeTab, graph.ntype, Params)
    BY <1>1, ArrayRanges
  <2>2. P[1] .. P[2] = NumbersOf(nodeTab, graph.ntype, Params)
    BY <2>1 DEF Numbers
  <2>3. i \in P[1] .. P[2]
    BY <1>4, <1>10, <2>2 DEF NumbersOf, Nodes
  <2>4. j \in DOMAIN NodesOf(Params) /\ NodesOf(Params)[j] = n
    BY <1>1, <2>1, <2>2, <2>3, NodesOfRange
  <2>5. mzn.hasParamIdx = ParamIdx(NodesOf(Params))
    BY <1>1 DEF MznFile, HasParamIdx
  <2> HIDE DEF j
  <2>6. mzn.hasParamIdx[j] = LET k == graph.param[n] IN IF k >= 0 THEN k + 1 ELSE k
    BY <2>4, <2>5 DEF ParamIdx
  <2>7. graph.param[n] \in Nat \cup {-1}
    BY <1>1, <1>3, ParamIdxOf
  <2> HIDE DEF n, d
  <2>8. graph.param[n] = IF mzn.hasParamIdx[j] = -1 THEN -1 ELSE mzn.hasParamIdx[j] - 1
    <3>1. CASE graph.param[n] = -1
      BY <2>6, <3>1
    <3>2. CASE graph.param[n] \in Nat
      <4>1. mzn.hasParamIdx[j] = graph.param[n] + 1
        BY <2>6, <3>2
      <4> QED
        BY <3>2, <4>1
    <3> QED
      BY <2>7, <3>1, <3>2
  <2> QED
    BY <1>4, <2>8 DEF j
<1>11. d.type \in {"PARAM_FORMALIN", "PARAM_FORMALOUT"} => d.param < mzn.maxFuncParams
  <2> SUFFICES ASSUME graph.ntype[n] \in {"PARAM_FORMALIN", "PARAM_FORMALOUT"}
               PROVE  graph.param[n] < mzn.maxFuncParams
    BY <1>4
  <2> DEFINE f == graph.fn[n]
  <2>1. graph.param[n] < graph.arity[f] /\ HasFn(n)
    BY <1>3, <1>5 DEF WellFormed, HasFn, Params
  <2>2. f \in Members(graph) /\ f \in Node /\ graph.ntype[f] = "FUNC_ENTRY"
    BY <1>1, <1>3, <2>1, WrittenNumbered, EntryNumbered
  <2>3. graph.arity[f] <= MaxFnParams /\ MaxFnParams \in Nat
    BY <2>2, MaxFnParamsIs DEF IInv
  <2>4. graph.arity[f] \in Nat /\ graph.param[n] \in Nat \cup {-1}
    BY <1>3, <1>5, <2>2, GraphIs
  <2>5. mzn.maxFuncParams = MaxFnParams
    BY <1>1 DEF MznFile
  <2> HIDE DEF n, f
  <2>6. graph.param[n] \in Int /\ graph.arity[f] \in Int /\ MaxFnParams \in Int
    BY <2>3, <2>4
  <2>7. graph.param[n] < MaxFnParams
    BY <2>1, <2>3, <2>6
  <2> QED
    BY <2>5, <2>7
<1>12. i \in DOMAIN llid
  <2>1. llid \in Seq(RowRecord) /\ Len(llid) = Len(Nodes)
    BY <1>1 DEF RowsMade
  <2>2. DOMAIN llid = 1 .. Len(llid)
    BY <2>1, LenProperties
  <2> QED
    BY <1>3, <2>1, <2>2
<1>13. ASSUME llid[i].kind \in {"inst", "param", "fn"}
       PROVE  /\ llid[i].of = Nodes[d.fn]
              /\ llid[i].place = CASE llid[i].kind = "inst" -> d.inst
                                   [] llid[i].kind = "param" -> d.param
                                   [] OTHER -> 0
  <2> DEFINE own == IF graph.ntype[n] \in Globals THEN n ELSE None
  <2>1. llid[i] = Row(n, own)
    BY <1>1, <1>12 DEF RowsMade, Made
  <2> HIDE DEF own, n, d
  <2>2. /\ HasFn(n) /\ llid[i].of = Nodes[Id(graph.fn[n]) + 1]
        /\ llid[i].kind = "inst" => llid[i].place = graph.inst[n]
        /\ llid[i].kind = "param" => llid[i].place = graph.param[n]
        /\ llid[i].kind = "fn" => llid[i].place = 0
    BY <1>13, <2>1 DEF Row
  <2>3. llid[i].of = Nodes[d.fn]
    BY <1>4, <2>2
  <2> QED
    BY <1>4, <1>13, <2>2, <2>3
<1> QED
  BY <1>7, <1>8, <1>9, <1>10, <1>11, <1>13 DEF NodeAgrees, Nodes

LEMMA EdgesAgree ==
    ASSUME IInv, pc = "done", NEW i \in DOMAIN Edges
    PROVE  LET d == data.edges[i]
           IN /\ i \in Numbers(mzn.edges[d.type])
              /\ d.src = mzn.hasSource[i] /\ d.dst = mzn.hasDest[i]
<1> DEFINE e == Edges[i]
           d == data.edges[i]
<1>1. Written /\ data = DataFile /\ mzn = MznFile
  BY DEF IInv, FilesMade, Written
<1>2. Edges \in Seq(Edge)
  BY <1>1, WrittenNumbered, EdgesNumbered
<1>3. e \in Edge
  BY <1>2, ElementOfSeq
<1>4. d.type = etype[e] /\ d.src = Id(Src(e)) + 1 /\ d.dst = Id(graph.dst[e]) + 1
  BY <1>1 DEF DataFile, DataEdges
<1>5. mzn.hasSource[i] = Id(Src(e)) + 1 /\ mzn.hasDest[i] = Id(graph.dst[e]) + 1
  BY <1>1 DEF MznFile, HasSource, HasDest
<1>6. etype[e] \in EdgeType
  BY <1>3 DEF IInv, Groups, EdgeTypes
<1>7. Numbers(mzn.edges[etype[e]]) = NumbersOf(edgeTab, etype, {etype[e]})
  BY <1>1, <1>6, EdgeLeaf
<1>8. i \in Numbers(mzn.edges[d.type])
  BY <1>4, <1>7 DEF NumbersOf, Edges
<1> QED
  BY <1>4, <1>5, <1>8

\* FilesAgree: joined by the numbers, the files say the same of every node, of
\* every edge and of every labelled function.
THEOREM FilesDoAgree == Spec => []FilesAgree
<1>1. IInv => FilesAgree
  <2> SUFFICES ASSUME IInv, pc = "done" PROVE FilesAgree
    BY DEF FilesAgree
  <2>1. /\ Written /\ data = DataFile /\ mzn = MznFile /\ fnArgs = FnArgsFile
        /\ oneway = OnewayFile /\ RowsMade /\ Groups
    BY DEF IInv, FilesMade, Written
  <2>2. Nodes \in Seq(Node) /\ Range(Nodes) = Members(graph)
        /\ \A i \in DOMAIN Nodes : nodeTab.ids[Nodes[i]] = i - 1
    BY <2>1, WrittenNumbered, NodesNumbered
  <2>3. DOMAIN data.nodes = DOMAIN Nodes /\ DOMAIN mzn.hasFunction = DOMAIN Nodes
    BY <2>1 DEF DataFile, DataNodes, MznFile, HasFunction
  <2>4. DOMAIN llid = DOMAIN Nodes
    <3>1. llid \in Seq(RowRecord) /\ Len(llid) = Len(Nodes)
      BY <2>1 DEF RowsMade
    <3> QED
      BY <2>2, <3>1, LenProperties
  <2>5. DOMAIN data.edges = DOMAIN Edges /\ DOMAIN mzn.hasSource = DOMAIN Edges
    BY <2>1 DEF DataFile, DataEdges, MznFile, HasSource
  <2>6. \A i \in DOMAIN data.nodes : NodeAgrees(i)
    BY <2>3, NodesAgree
  <2>7. \A i \in DOMAIN data.edges :
            LET d == data.edges[i]
            IN /\ i \in Numbers(mzn.edges[d.type])
               /\ d.src = mzn.hasSource[i] /\ d.dst = mzn.hasDest[i]
    BY <2>5, EdgesAgree
  <2>8. DOMAIN fnArgs = DOMAIN AnnotatedEntries /\ DOMAIN oneway = DOMAIN AnnotatedEntries
        /\ \A i \in DOMAIN AnnotatedEntries :
              LET n == AnnotatedEntries[i]
              IN /\ fnArgs[i].fn = n /\ fnArgs[i].anno = graph.anno[n]
                 /\ fnArgs[i].args = graph.arity[n]
                 /\ oneway[i].fn = n /\ oneway[i].anno = graph.anno[n]
    BY <2>1 DEF FnArgsFile, OnewayFile
  <2>9. ASSUME NEW i \in DOMAIN fnArgs \cup DOMAIN oneway
        PROVE  /\ fnArgs[i].fn = oneway[i].fn /\ fnArgs[i].anno = oneway[i].anno
               /\ fnArgs[i].args <= mzn.maxFuncParams
    <3>1. i \in DOMAIN AnnotatedEntries
      BY <2>8
    <3>2. AnnotatedEntries[i] \in Members(graph) /\ graph.ntype[AnnotatedEntries[i]] = "FUNC_ENTRY"
      BY <2>1, <3>1, AnnotatedIs
    <3>3. graph.arity[AnnotatedEntries[i]] <= MaxFnParams
      BY <2>1, <3>2, MaxFnParamsIs
    <3>4. mzn.maxFuncParams = MaxFnParams
      BY <2>1 DEF MznFile
    <3> QED
      BY <2>8, <3>1, <3>3, <3>4
  <2> DEFINE listed == {nodeTab.ids[fnArgs[i].fn] + 1 : i \in DOMAIN fnArgs}
             tainted == {x[1] : x \in mzn.taints} \cap Numbers(mzn.nodes.FUNC_ENTRY)
  <2>10. \A k : k \in tainted <=>
             /\ k \in DOMAIN Nodes /\ graph.anno[Nodes[k]] # None
             /\ graph.ntype[Nodes[k]] = "FUNC_ENTRY"
    <3>1. \A k : k \in {x[1] : x \in mzn.taints} <=>
              k \in DOMAIN Nodes /\ graph.anno[Nodes[k]] # None
      BY <2>1, TaintsAre
    <3>2. \A k : k \in Numbers(mzn.nodes.FUNC_ENTRY) <=>
              k \in DOMAIN Nodes /\ graph.ntype[Nodes[k]] = "FUNC_ENTRY"
      BY <2>1, ArrayRanges DEF NumbersOf, Nodes
    <3> QED
      BY <3>1, <3>2
  <2>11. \A i \in DOMAIN Nodes : i \in Nat /\ nodeTab.ids[Nodes[i]] + 1 = i
    BY <2>2, LenProperties
  <2>12. ASSUME NEW i \in DOMAIN fnArgs PROVE nodeTab.ids[fnArgs[i].fn] + 1 \in tainted
    <3> DEFINE n == AnnotatedEntries[i]
    <3>1. fnArgs[i].fn = n /\ i \in DOMAIN AnnotatedEntries
      BY <2>8
    <3>2. n \in Members(graph) /\ graph.ntype[n] = "FUNC_ENTRY" /\ graph.anno[n] # None
      BY <2>1, <3>1, AnnotatedIs
    <3>3. PICK k \in DOMAIN Nodes : Nodes[k] = n
      BY <2>2, <3>2 DEF Range
    <3>4. nodeTab.ids[n] + 1 = k
      BY <2>11, <3>3
    <3> HIDE DEF tainted, n
    <3> QED
      BY <2>10, <3>1, <3>2, <3>3, <3>4
  <2>13. ASSUME NEW k \in tainted PROVE \E i \in DOMAIN fnArgs : nodeTab.ids[fnArgs[i].fn] + 1 = k
    <3>1. k \in DOMAIN Nodes /\ graph.anno[Nodes[k]] # None /\ graph.ntype[Nodes[k]] = "FUNC_ENTRY"
      BY <2>10
    <3>2. Nodes[k] \in Members(graph)
      BY <2>2, <3>1 DEF Range
    <3>3. PICK i \in DOMAIN AnnotatedEntries : AnnotatedEntries[i] = Nodes[k]
      BY <2>1, <3>1, <3>2, AnnotatedIs
    <3>4. fnArgs[i].fn = Nodes[k] /\ i \in DOMAIN fnArgs
      BY <2>8, <3>3
    <3>5. nodeTab.ids[Nodes[k]] + 1 = k
      BY <2>11, <3>1
    <3> QED
      BY <3>4, <3>5
  <2>14. listed = tainted
    <3> HIDE DEF tainted
    <3> QED
      BY <2>12, <2>13
  <2> QED
    BY <2>3, <2>4, <2>5, <2>6, <2>7, <2>9, <2>14 DEF FilesAgree, NodeAgrees
<1> QED
  BY <1>1, IInvHolds, PTL
=============================================================================
