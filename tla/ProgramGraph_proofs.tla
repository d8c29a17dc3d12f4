-------------------------- MODULE ProgramGraph_proofs --------------------------
(***************************************************************************)
(* What the program graph answers once it is built, proved: whether one    *)
(* node reaches another, and of which type of the source each value is.    *)
(*                                                                         *)
(* The searches.  Soundness: src reaches whatever is visited or waits in   *)
(* the work list.  Completeness: until the answer is found, what an edge   *)
(* leads to from a visited node is visited or waits; so when nothing waits *)
(* any more, the visited nodes are closed under the edges followed, and    *)
(* dst is not one of them.                                                 *)
(*                                                                         *)
(* The debug types.  A type lowers to the type of the value it is bound    *)
(* to, or to what that points to where the code strips a pointer; this is  *)
(* kept from operand to user, and an instruction once bound has what its   *)
(* operand gives it.  The recursive walks along base types are handled by  *)
(* the set of types a walk goes through (Chain).                           *)
(***************************************************************************)
EXTENDS GraphSearch, DITypes, SequenceTheorems, FiniteSetTheorems,
        WellFoundedInduction, TLAPS

(***************************************************************************)
(*                             The searches                                *)
(***************************************************************************)

Waiting == {work[i] : i \in 1 .. Len(work)}

\* Nothing is visited or waits that src does not reach.
SoundInv == \A n \in visited \cup Waiting : Reaches(src, n)

\* Until dst is found, visited nodes lead to visited or waiting nodes only.
FrontierInv ==
    answer # "yes" =>
        /\ src \in visited \cup Waiting
        /\ dst \notin visited
        /\ \A e \in graph : e[1] \in visited /\ e[3] \notin excluded
                               => e[2] \in visited \cup Waiting

\* How the search ended.
AnswerInv ==
    /\ answer = "yes" => Reaches(src, dst)
    /\ answer = "no" => work = <<>>

SearchInv == TypeOK /\ SoundInv /\ FrontierInv /\ AnswerInv

-----------------------------------------------------------------------------
(* Sets of edges and the sequences of their destinations. *)

\* What is taken from and what stays in a nonempty work list.
LEMMA HeadAndTail ==
    ASSUME TypeOK, work # <<>>
    PROVE  /\ Head(work) \in Node
           /\ Head(work) \in Waiting
           /\ Tail(work) \in Seq(Node)
           /\ \A i \in 1 .. Len(Tail(work)) : Tail(work)[i] \in Waiting
           /\ \A n \in Waiting : n = Head(work) \/ \E i \in 1 .. Len(Tail(work)) : Tail(work)[i] = n
<1>1. work \in Seq(Node) /\ Len(work) \in Nat /\ Len(work) > 0 /\ Head(work) = work[1]
  BY DEF TypeOK
<1>2. Tail(work) \in Seq(Node) /\ Len(Tail(work)) = Len(work) - 1
  BY <1>1
<1>3. \A i \in 1 .. Len(Tail(work)) : Tail(work)[i] = work[i + 1] /\ i + 1 \in 1 .. Len(work)
  BY <1>1, <1>2
<1>4. \A i \in 1 .. Len(work) : i = 1 \/ (i - 1 \in 1 .. Len(Tail(work)) /\ Tail(work)[i - 1] = work[i])
  BY <1>1, <1>2
<1>5. Head(work) \in Node /\ 1 \in 1 .. Len(work)
  BY <1>1
<1>6. \A n \in Waiting : n = Head(work) \/ \E i \in 1 .. Len(Tail(work)) : Tail(work)[i] = n
  BY <1>1, <1>4 DEF Waiting
<1> QED
  BY <1>1, <1>2, <1>3, <1>5, <1>6 DEF Waiting

\* The order in which destinations are pushed is a sequence of just these.
LEMMA OrderOfEdges ==
    ASSUME TypeOK, NEW n \in Node, NEW s \in Orders(Followed(n))
    PROVE  /\ s \in Seq(Node)
           /\ \A i \in 1 .. Len(s) : \E e \in Followed(n) : s[i] = e[2]
           /\ \A e \in Followed(n) : \E i \in 1 .. Len(s) : s[i] = e[2]
<1>1. \A e \in Followed(n) : e[2] \in Node
  BY DEF TypeOK, Followed
<1>2. IsFiniteSet(Followed(n))
  <2>1. Followed(n) \in SUBSET graph
    BY DEF Followed
  <2> QED
    BY <2>1, FS_Subset DEF TypeOK
<1>3. Cardinality(Followed(n)) \in Nat
  BY <1>2, FS_CardinalityType
<1>4. s \in [1 .. Cardinality(Followed(n)) -> {e[2] : e \in Followed(n)}]
  BY DEF Orders
<1>5. \A e \in Followed(n) : \E i \in 1 .. Cardinality(Followed(n)) : s[i] = e[2]
  BY DEF Orders
<1>6. s \in [1 .. Cardinality(Followed(n)) -> Node]
  BY <1>1, <1>4
<1>7. s \in Seq(Node) /\ Len(s) = Cardinality(Followed(n))
  BY <1>3, <1>6
<1> QED
  BY <1>4, <1>5, <1>7

\* The head is replaced by the pushed nodes, in front or at the back.
LEMMA PushedNodes ==
    ASSUME TypeOK, work # <<>>, NEW s \in Seq(Node), work' = Pushed(s)
    PROVE  /\ work' \in Seq(Node)
           /\ \A m \in Waiting' : m \in Waiting \/ \E i \in 1 .. Len(s) : s[i] = m
           /\ \A m \in Waiting : m = Head(work) \/ m \in Waiting'
           /\ \A i \in 1 .. Len(s) : s[i] \in Waiting'
<1>1. PICK a, b \in Seq(Node) : {a, b} = {s, Tail(work)} /\ work' = a \o b
  BY HeadAndTail DEF Pushed
<1>2. /\ work' \in Seq(Node)
      /\ Len(work') = Len(a) + Len(b)
      /\ \A i \in 1 .. Len(work') : work'[i] = IF i <= Len(a) THEN a[i] ELSE b[i - Len(a)]
  BY <1>1
<1>3. \A m \in Waiting' : (\E i \in 1 .. Len(a) : a[i] = m) \/ (\E i \in 1 .. Len(b) : b[i] = m)
  <2>1. SUFFICES ASSUME NEW i \in 1 .. Len(work')
                 PROVE  \/ \E j \in 1 .. Len(a) : a[j] = work'[i]
                        \/ \E j \in 1 .. Len(b) : b[j] = work'[i]
    BY DEF Waiting
  <2>2. CASE i <= Len(a)
    <3>1. i \in 1 .. Len(a) /\ work'[i] = a[i]
      BY <1>1, <1>2, <2>2
    <3> QED
      BY <3>1
  <2>3. CASE ~(i <= Len(a))
    <3>1. i - Len(a) \in 1 .. Len(b)
      BY <1>1, <1>2, <2>3
    <3> QED
      BY <1>2, <2>3, <3>1
  <2> QED
    BY <2>2, <2>3
<1>4. \A i \in 1 .. Len(a) : a[i] \in Waiting'
  BY <1>1, <1>2 DEF Waiting
<1>5. \A i \in 1 .. Len(b) : b[i] \in Waiting'
  <2>1. SUFFICES ASSUME NEW i \in 1 .. Len(b)
                 PROVE  b[i] \in Waiting'
    OBVIOUS
  <2>2. i + Len(a) \in 1 .. Len(work') /\ ~(i + Len(a) <= Len(a)) /\ i + Len(a) - Len(a) = i
    BY <1>1, <1>2
  <2>3. work'[i + Len(a)] = b[i]
    BY <1>2, <2>2
  <2> QED
    BY <2>2, <2>3 DEF Waiting
<1>6. \A m \in Waiting : m = Head(work) \/ \E i \in 1 .. Len(Tail(work)) : Tail(work)[i] = m
  BY HeadAndTail
<1>7. \A i \in 1 .. Len(Tail(work)) : Tail(work)[i] \in Waiting
  BY HeadAndTail
<1>8. CASE a = s /\ b = Tail(work)
  BY <1>2, <1>3, <1>4, <1>5, <1>6, <1>7, <1>8
<1>9. CASE a = Tail(work) /\ b = s
  BY <1>2, <1>3, <1>4, <1>5, <1>6, <1>7, <1>9
<1> QED
  BY <1>1, <1>8, <1>9

-----------------------------------------------------------------------------
(* Reachability. *)

\* A node reaches itself, and whatever an edge leads to from a node it reaches.
LEMMA ReachesStep ==
    /\ \A n \in Node : Reaches(n, n)
    /\ \A n \in Node, e \in graph :
          e[3] \notin excluded /\ Reaches(n, e[1]) => Reaches(n, e[2])
BY DEF Reaches, Closed

\* The searched graph stays, and so does what reaches what.
LEMMA ReachesStable ==
    ASSUME UNCHANGED <<graph, excluded>>
    PROVE  \A a, b : Reaches(a, b)' <=> Reaches(a, b)
BY DEF Reaches, Closed

-----------------------------------------------------------------------------
LEMMA SearchInit == Init => SearchInv
<1> SUFFICES ASSUME Init PROVE SearchInv
  OBVIOUS
<1>1. TypeOK
  BY GraphsAssumption DEF Init, TypeOK
<1>2. Waiting = {src} /\ visited = {} /\ answer = "none"
  BY DEF Init, Waiting
<1>3. SoundInv
  BY <1>1, <1>2, ReachesStep DEF SoundInv, TypeOK
<1> QED
  BY <1>1, <1>2, <1>3 DEF SearchInv, FrontierInv, AnswerInv

LEMMA SearchNext == SearchInv /\ [Next]_vars => SearchInv'
<1> SUFFICES ASSUME SearchInv, [Next]_vars PROVE SearchInv'
  OBVIOUS
<1> USE DEF SearchInv
<1>1. CASE Skip
  <2>1. UNCHANGED <<graph, src, dst, excluded, lifo, visited, answer>> /\ answer = "none"
        /\ work # <<>> /\ work' = Tail(work) /\ Head(work) \in visited
    BY <1>1 DEF Skip, Searching, Seen
  <2>2. work' \in Seq(Node)
    BY <2>1, HeadAndTail
  <2>3. TypeOK'
    BY <2>1, <2>2 DEF TypeOK
  <2>4. Waiting' \subseteq Waiting /\ Waiting \subseteq Waiting' \cup visited
    BY <2>1, HeadAndTail DEF Waiting
  <2>5. SoundInv'
    BY <2>1, <2>4, ReachesStable DEF SoundInv
  <2>6. FrontierInv' /\ AnswerInv'
    BY <2>1, <2>4 DEF FrontierInv, AnswerInv
  <2> QED
    BY <2>3, <2>5, <2>6
<1>2. CASE Find
  <2>1. UNCHANGED <<graph, src, dst, excluded, lifo>> /\ answer' = "yes" /\ work # <<>>
        /\ work' = Tail(work) /\ Head(work) = dst /\ visited' \subseteq visited \cup {dst}
    BY <1>2 DEF Find, Searching
  <2>2. Reaches(src, dst) /\ dst \in Waiting
    BY <2>1, HeadAndTail DEF SoundInv
  <2>3. TypeOK'
    BY <2>1, HeadAndTail DEF TypeOK
  <2>4. Waiting' \subseteq Waiting
    BY <2>1, HeadAndTail DEF Waiting
  <2>5. SoundInv'
    BY <2>1, <2>2, <2>4, ReachesStable DEF SoundInv
  <2>6. AnswerInv'
    BY <2>1, <2>2, ReachesStable DEF AnswerInv
  <2> QED
    BY <2>1, <2>3, <2>5, <2>6 DEF FrontierInv
<1>3. CASE Expand
  <2>1. UNCHANGED <<graph, src, dst, excluded, lifo, answer>> /\ answer = "none"
        /\ work # <<>> /\ Head(work) # dst /\ visited' = visited \cup {Head(work)}
    BY <1>3 DEF Expand, Searching
  <2>2. Head(work) \in Node /\ Head(work) \in Waiting
    BY <2>1, HeadAndTail
  <2>3. PICK s \in Orders(Followed(Head(work))) : work' = Pushed(s)
    BY <1>3 DEF Expand
  <2>4. /\ s \in Seq(Node)
        /\ \A i \in 1 .. Len(s) : \E e \in Followed(Head(work)) : s[i] = e[2]
        /\ \A e \in Followed(Head(work)) : \E i \in 1 .. Len(s) : s[i] = e[2]
    BY <2>2, <2>3, OrderOfEdges
  <2>5. /\ work' \in Seq(Node)
        /\ \A m \in Waiting' : m \in Waiting \/ \E i \in 1 .. Len(s) : s[i] = m
        /\ \A m \in Waiting : m = Head(work) \/ m \in Waiting'
        /\ \A i \in 1 .. Len(s) : s[i] \in Waiting'
    BY <2>1, <2>3, <2>4, PushedNodes
  <2>6. TypeOK'
    BY <2>1, <2>2, <2>5 DEF TypeOK
  <2>7. SoundInv'
    <3>1. Reaches(src, Head(work))
      BY <2>2 DEF SoundInv
    <3>2. \A e \in Followed(Head(work)) : Reaches(src, e[2])
      BY <3>1, ReachesStep DEF Followed, TypeOK
    <3>3. \A n \in visited' \cup Waiting' : Reaches(src, n)
      BY <2>1, <2>4, <2>5, <3>1, <3>2 DEF SoundInv
    <3> QED
      BY <2>1, <3>3, ReachesStable DEF SoundInv
  <2>8. FrontierInv'
    <3>1. src \in visited' \cup Waiting' /\ dst \notin visited'
      BY <2>1, <2>5 DEF FrontierInv
    <3>2. ASSUME NEW e \in graph, e[1] \in visited', e[3] \notin excluded
          PROVE  e[2] \in visited' \cup Waiting'
      <4>1. CASE e[1] = Head(work)
        <5>1. e \in Followed(Head(work))
          BY <3>2, <4>1 DEF Followed
        <5> QED
          BY <2>4, <2>5, <5>1
      <4>2. CASE e[1] \in visited
        BY <2>1, <2>5, <3>2, <4>2 DEF FrontierInv
      <4> QED
        BY <2>1, <3>2, <4>1, <4>2
    <3> QED
      BY <2>1, <3>1, <3>2 DEF FrontierInv
  <2>9. AnswerInv'
    BY <2>1 DEF AnswerInv
  <2> QED
    BY <2>6, <2>7, <2>8, <2>9
<1>4. CASE GiveUp
  <2>1. UNCHANGED <<graph, src, dst, excluded, lifo, work, visited>> /\ work = <<>>
        /\ answer = "none" /\ answer' = "no"
    BY <1>4 DEF GiveUp
  <2>2. TypeOK'
    BY <2>1 DEF TypeOK
  <2>3. Waiting' = Waiting
    BY <2>1 DEF Waiting
  <2>4. SoundInv'
    BY <2>1, <2>3, ReachesStable DEF SoundInv
  <2> QED
    BY <2>1, <2>2, <2>3, <2>4 DEF FrontierInv, AnswerInv
<1>5. CASE UNCHANGED vars
  <2>1. UNCHANGED <<graph, src, dst, excluded, lifo, work, visited, answer>>
    BY <1>5 DEF vars
  <2>2. TypeOK' /\ Waiting' = Waiting
    BY <2>1 DEF TypeOK, Waiting
  <2>3. SoundInv'
    BY <2>1, <2>2, ReachesStable DEF SoundInv
  <2> QED
    BY <2>1, <2>2, <2>3, ReachesStable DEF FrontierInv, AnswerInv
<1> QED
  BY <1>1, <1>2, <1>3, <1>4, <1>5 DEF Next

\* When nothing waits the visited nodes are closed, and dst is outside.
LEMMA NoIsRight == SearchInv => AnswerRight
<1> SUFFICES ASSUME SearchInv, answer = "no" PROVE ~Reaches(src, dst)
  BY DEF SearchInv, AnswerInv, AnswerRight
<1>1. Waiting = {}
  BY DEF SearchInv, AnswerInv, Waiting
<1>2. src \in visited /\ dst \notin visited /\ Closed(visited)
  BY <1>1 DEF SearchInv, FrontierInv, Closed
<1>3. visited \in SUBSET Node
  BY DEF SearchInv, TypeOK
<1> QED
  BY <1>2, <1>3 DEF Reaches

-----------------------------------------------------------------------------
\* The work list holds nodes of the graph and nothing else, in both searches.
THEOREM SearchTypeCorrect == Spec => []TypeOK
<1>1. Spec => []SearchInv
  BY SearchInit, SearchNext, PTL DEF Spec
<1>2. SearchInv => TypeOK
  BY DEF SearchInv
<1> QED
  BY <1>1, <1>2, PTL

\* Both canReach answer true exactly when there is a way from the source to the
\* destination along the edges they follow, for every finite graph, any set of
\* excluded edge types and any order of the edges.
THEOREM SearchIsRight == Spec => []AnswerRight
<1>1. Spec => []SearchInv
  BY SearchInit, SearchNext, PTL DEF Spec
<1> QED
  BY <1>1, NoIsRight, PTL

(***************************************************************************)
(*                            The debug types                              *)
(***************************************************************************)

\* What is reached from t along base, through the types in D.
Chain(X, D, base, t) ==
    {u \in X : \A S \in SUBSET X :
        t \in S /\ (\A x \in S \cap D : base[x] \in S) => u \in S}

\* base leads from the types in D to types of X, and not around in a circle.
Leads(X, D, base) ==
    /\ D \in SUBSET X
    /\ \A x \in D : base[x] \in X
    /\ \A S \in (SUBSET D) \ {{}} : \E x \in S : base[x] \notin S

LEMMA ChainNext ==
    ASSUME NEW X, NEW D, NEW base, Leads(X, D, base), NEW t \in X
    PROVE  /\ t \notin D => Chain(X, D, base, t) = {t}
           /\ t \in D => Chain(X, D, base, t) = {t} \cup Chain(X, D, base, base[t])
<1>0. /\ D \subseteq X /\ \A x \in D : base[x] \in X
      /\ \A S \in (SUBSET D) \ {{}} : \E x \in S : base[x] \notin S
  BY DEF Leads
<1> USE <1>0
<1>1. t \in Chain(X, D, base, t)
  BY DEF Chain
<1>2. CASE t \notin D
  <2>1. {t} \in SUBSET X /\ \A x \in {t} \cap D : base[x] \in {t}
    BY <1>2
  <2>2. Chain(X, D, base, t) \subseteq {t}
    BY <2>1 DEF Chain
  <2> QED
    BY <1>1, <1>2, <2>2
<1>3. CASE t \in D
  <2> DEFINE C == Chain(X, D, base, base[t])
  <2>1. C \in SUBSET X /\ base[t] \in C
    BY <1>3 DEF Chain
  <2>2. \A x \in C \cap D : base[x] \in C
    BY <1>3 DEF Chain
  <2>3. Chain(X, D, base, t) \subseteq {t} \cup C
    <3>1. {t} \cup C \in SUBSET X /\ \A x \in ({t} \cup C) \cap D : base[x] \in {t} \cup C
      BY <2>1, <2>2
    <3> QED
      BY <3>1 DEF Chain
  <2>4. C \subseteq Chain(X, D, base, t)
    <3> SUFFICES ASSUME NEW u \in C, NEW S \in SUBSET X, t \in S,
                        \A x \in S \cap D : base[x] \in S
                 PROVE  u \in S
      BY <2>1 DEF Chain
    <3>1. base[t] \in S
      BY <1>3
    <3> QED
      BY <3>1 DEF Chain
  <2> QED
    BY <1>1, <1>3, <2>3, <2>4
<1> QED
  BY <1>2, <1>3

\* So every chain has one end.
LEMMA ChainEnd ==
    ASSUME NEW X, NEW D, NEW base, Leads(X, D, base)
    PROVE  \A t \in X : \E e \in X : Chain(X, D, base, t) \ D = {e}
<1>0. /\ D \subseteq X /\ \A x \in D : base[x] \in X
      /\ \A S \in (SUBSET D) \ {{}} : \E x \in S : base[x] \notin S
  BY DEF Leads
<1> USE <1>0
<1> DEFINE Good(t) == \E e \in X : Chain(X, D, base, t) \ D = {e}
           Bad == {t \in X : ~Good(t)}
<1>1. \A t \in X : t \notin D => Good(t)
  BY ChainNext
<1>2. \A t \in D : Good(base[t]) => Good(t)
  <2> SUFFICES ASSUME NEW t \in D, Good(base[t]) PROVE Good(t)
    OBVIOUS
  <2>1. Chain(X, D, base, t) \ D = Chain(X, D, base, base[t]) \ D
    BY ChainNext
  <2> QED
    BY <2>1
<1> HIDE DEF Good
<1>3. Bad \in SUBSET D
  BY <1>1
<1>4. \A x \in Bad : base[x] \in Bad
  BY <1>2, <1>3
<1>5. Bad = {}
  BY <1>3, <1>4
<1> QED
  BY <1>5 DEF Good

\* A walk along base comes to an end, and the recursion is defined.
LEMMA WalkDefined ==
    ASSUME NEW X, NEW D, NEW base, Leads(X, D, base)
    PROVE  \E f : f = [t \in X |-> IF t \in D THEN f[base[t]] ELSE t]
<1>0. /\ D \subseteq X /\ \A x \in D : base[x] \in X
      /\ \A S \in (SUBSET D) \ {{}} : \E x \in S : base[x] \notin S
  BY DEF Leads
<1> USE <1>0
<1> DEFINE f == [t \in X |-> CHOOSE e \in X : Chain(X, D, base, t) \ D = {e}]
<1>1. \A t \in X : \E e \in X : Chain(X, D, base, t) \ D = {e}
  BY ChainEnd
<1>2. \A t \in X : Chain(X, D, base, t) \ D = {f[t]}
  BY <1>1
<1>3. \A t \in D : f[t] = f[base[t]]
  <2> SUFFICES ASSUME NEW t \in D PROVE f[t] = f[base[t]]
    OBVIOUS
  <2>1. Chain(X, D, base, t) \ D = Chain(X, D, base, base[t]) \ D
    BY ChainNext
  <2> HIDE DEF f
  <2> QED
    BY <1>2, <2>1
<1>4. \A t \in X \ D : f[t] = t
  <2> SUFFICES ASSUME NEW t \in X \ D PROVE f[t] = t
    OBVIOUS
  <2>1. Chain(X, D, base, t) \ D = {t}
    BY ChainNext
  <2> HIDE DEF f
  <2> QED
    BY <1>2, <2>1
<1>5. f = [t \in X |-> IF t \in D THEN f[base[t]] ELSE t]
  <2>1. f = [t \in X |-> f[t]]
    OBVIOUS
  <2> HIDE DEF f
  <2> QED
    BY <1>3, <1>4, <2>1
<1> QED
  BY <1>5

\* Where it ends is not a type of D.
LEMMA WalkTyped ==
    ASSUME NEW X, NEW D, NEW base, Leads(X, D, base),
           NEW f, f = [t \in X |-> IF t \in D THEN f[base[t]] ELSE t]
    PROVE  \A t \in X : f[t] \in X \ D
<1>0. /\ D \subseteq X /\ \A x \in D : base[x] \in X
      /\ \A S \in (SUBSET D) \ {{}} : \E x \in S : base[x] \notin S
  BY DEF Leads
<1> USE <1>0
<1> DEFINE Bad == {t \in D : f[t] \notin X \ D}
<1>1. \A t \in D : f[t] = f[base[t]]
  OBVIOUS
<1>2. \A t \in X \ D : f[t] = t
  OBVIOUS
<1>3. \A t \in Bad : base[t] \in Bad
  BY <1>1, <1>2
<1>4. Bad = {}
  BY <1>3
<1> QED
  BY <1>2, <1>4

\* What holds where a walk ends, and is handed down along base, holds throughout.
LEMMA WalkInduct ==
    ASSUME NEW X, NEW D, NEW base, Leads(X, D, base), NEW G,
           X \ D \subseteq G, \A x \in D : base[x] \in G => x \in G
    PROVE  X \subseteq G
<1>0. /\ D \subseteq X /\ \A x \in D : base[x] \in X
      /\ \A S \in (SUBSET D) \ {{}} : \E x \in S : base[x] \notin S
  BY DEF Leads
<1> DEFINE Bad == D \ G
<1>1. \A x \in Bad : base[x] \in Bad
  BY <1>0
<1>2. Bad = {}
  BY <1>0, <1>1
<1> QED
  BY <1>2

-----------------------------------------------------------------------------
(* Debug types. *)

MaybeType == DIType \cup {Null}

LEMMA TypeIs ==
    /\ Null \notin DIType /\ Null \notin LType /\ Layout[Null] = <<>>
    /\ \A t \in DIType :
          /\ Base[t] \in MaybeType /\ Lowered[t] \in LType /\ Elements[t] \in Seq(DIType)
          /\ Tag[t] \in {"pointer", "typedef", "const", "member", "struct", "base"}
BY TypesAssumption DEF TypesTyped, MaybeType

\* The base of a derived type, in the types of the IR.
LEMMA BaseIs ==
    ASSUME NEW t \in DIType, Base[t] # Null
    PROVE  /\ Base[t] \in DIType /\ Derived(t) /\ Tag[Base[t]] # "member"
           /\ Tag[t] = "pointer" => Lowered[Base[t]] = PointsTo[Lowered[t]]
           /\ Tag[t] # "pointer" => Lowered[Base[t]] = Lowered[t]
<1>1. Base[t] \in DIType
  BY TypeIs DEF MaybeType
<1>2. /\ Derived(t) /\ Tag[Base[t]] # "member"
      /\ Lowered[Base[t]] = IF Tag[t] = "pointer" THEN PointsTo[Lowered[t]] ELSE Lowered[t]
  BY TypesAssumption DEF TypesFit
<1> QED
  BY <1>1, <1>2

Names == {t \in DIType : Tag[t] \in {"typedef", "const"}}
AllDerived == {t \in DIType : Derived(t)}

LEMMA TypesLead == Leads(MaybeType, Names, Base) /\ Leads(MaybeType, AllDerived, Base)
<1>1. Names \subseteq AllDerived /\ AllDerived \subseteq MaybeType
  BY DEF Names, AllDerived, Derived, MaybeType
<1>2. \A x \in AllDerived : Base[x] \in MaybeType
  BY TypeIs DEF AllDerived
<1>3. \A S \in (SUBSET AllDerived) \ {{}} : \E x \in S : Base[x] \notin S
  BY TypesAssumption DEF TypesFit, AllDerived
<1>4. \A S \in (SUBSET Names) \ {{}} : \E x \in S : Base[x] \notin S
  BY <1>1, <1>3
<1> QED
  BY <1>1, <1>2, <1>3, <1>4 DEF Leads

LEMMA StripDefined ==
    StripAttributes = [t \in MaybeType |-> IF t \in Names THEN StripAttributes[Base[t]] ELSE t]
<1>1. PICK f : f = [t \in MaybeType |-> IF t \in Names THEN f[Base[t]] ELSE t]
  BY TypesLead, WalkDefined
<1>2. \A t \in MaybeType : t \in Names <=> t # Null /\ Tag[t] \in {"typedef", "const"}
  BY TypeIs DEF Names, MaybeType
<1>3. f = [t \in MaybeType |-> IF t # Null /\ Tag[t] \in {"typedef", "const"} THEN f[Base[t]] ELSE t]
  BY <1>1, <1>2
<1>4. StripAttributes = [t \in MaybeType |->
          IF t # Null /\ Tag[t] \in {"typedef", "const"} THEN StripAttributes[Base[t]] ELSE t]
  BY <1>3 DEF StripAttributes, MaybeType
<1> QED
  BY <1>2, <1>4

LEMMA LowestDefined ==
    Lowest = [t \in MaybeType |-> IF t \in AllDerived THEN Lowest[Base[t]] ELSE t]
<1>1. PICK f : f = [t \in MaybeType |-> IF t \in AllDerived THEN f[Base[t]] ELSE t]
  BY TypesLead, WalkDefined
<1>2. \A t \in MaybeType : t \in AllDerived <=> t # Null /\ Derived(t)
  BY TypeIs DEF AllDerived, MaybeType
<1>3. f = [t \in MaybeType |-> IF t # Null /\ Derived(t) THEN f[Base[t]] ELSE t]
  BY <1>1, <1>2
<1>4. Lowest = [t \in MaybeType |-> IF t # Null /\ Derived(t) THEN Lowest[Base[t]] ELSE t]
  BY <1>3 DEF Lowest, MaybeType
<1> QED
  BY <1>2, <1>4

\* Without its names and qualifiers a type describes the same values.
LEMMA StripIs ==
    /\ StripAttributes[Null] = Null
    /\ \A t \in MaybeType : StripAttributes[t] \in MaybeType
    /\ \A t \in DIType : StripAttributes[t] # Null =>
          /\ Lowered[StripAttributes[t]] = Lowered[t]
          /\ Tag[StripAttributes[t]] \notin {"typedef", "const"}
          /\ Tag[t] # "member" => Tag[StripAttributes[t]] # "member"
<1> DEFINE Fits(t, r) ==
              r # Null => /\ Lowered[r] = Lowered[t] /\ Tag[r] \notin {"typedef", "const"}
                          /\ Tag[t] # "member" => Tag[r] # "member"
           G == {t \in MaybeType : t # Null => Fits(t, StripAttributes[t])}
<1>1. \A t \in MaybeType \ Names : StripAttributes[t] = t
  BY StripDefined
<1>2. \A t \in Names : StripAttributes[t] = StripAttributes[Base[t]]
  BY StripDefined DEF Names, MaybeType
<1>3. Null \notin Names /\ Null \in MaybeType
  BY TypeIs DEF Names, MaybeType
<1>4. MaybeType \ Names \subseteq G
  BY <1>1 DEF Names, MaybeType
<1>5. ASSUME NEW t \in Names, Base[t] \in G PROVE t \in G
  <2>1. t \in DIType /\ t \in MaybeType /\ Tag[t] \in {"typedef", "const"}
    BY DEF Names, MaybeType
  <2>2. CASE Base[t] = Null
    <3>1. StripAttributes[t] = Null
      BY <1>1, <1>2, <1>3, <2>2
    <3> QED
      BY <2>1, <3>1
  <2>3. CASE Base[t] # Null
    <3>1. Lowered[Base[t]] = Lowered[t] /\ Tag[Base[t]] # "member"
      BY <2>1, <2>3, BaseIs
    <3>2. Fits(Base[t], StripAttributes[Base[t]])
      BY <1>5, <2>3
    <3>3. Fits(t, StripAttributes[t])
      BY <1>2, <3>1, <3>2
    <3> QED
      BY <2>1, <3>3
  <2> QED
    BY <2>2, <2>3
<1>6. MaybeType \subseteq G
  <2> HIDE DEF G
  <2> QED
    BY <1>4, <1>5, TypesLead, WalkInduct
<1>7. \A t \in MaybeType : StripAttributes[t] \in MaybeType
  BY StripDefined, TypesLead, WalkTyped
<1> QED
  BY <1>1, <1>3, <1>6, <1>7 DEF MaybeType

\* The type of a structure, or of a pointer to one, leads down to the structure.
LEMMA LowestIs ==
    /\ \A t \in MaybeType : Lowest[t] \in MaybeType
    /\ \A t \in DIType : \A l : Layout[l] # <<>> /\ l \in {Lowered[t], PointsTo[Lowered[t]]} =>
          Lowest[t] \in DIType /\ Tag[Lowest[t]] = "struct" /\ Lowered[Lowest[t]] = l
<1> DEFINE Fits(t, r) == \A l : Layout[l] # <<>> /\ l \in {Lowered[t], PointsTo[Lowered[t]]} =>
                             r \in DIType /\ Tag[r] = "struct" /\ Lowered[r] = l
           G == {t \in MaybeType : t # Null => Fits(t, Lowest[t])}
<1>1. \A t \in MaybeType \ AllDerived : Lowest[t] = t
  BY LowestDefined
<1>2. \A t \in AllDerived : Lowest[t] = Lowest[Base[t]]
  BY LowestDefined DEF AllDerived, MaybeType
<1>4. ASSUME NEW t \in MaybeType \ AllDerived PROVE t \in G
  <2> SUFFICES ASSUME t # Null PROVE Fits(t, Lowest[t])
    OBVIOUS
  <2>1. t \in DIType /\ ~Derived(t) /\ Lowest[t] = t
    BY <1>1 DEF MaybeType, AllDerived
  <2>2. Tag[t] \in {"struct", "base"}
    BY <2>1, TypeIs DEF Derived
  <2>3. PointsTo[Lowered[t]] = Null /\ (Tag[t] = "base" => Layout[Lowered[t]] = <<>>)
    BY <2>1, TypesAssumption DEF TypesFit
  <2> QED
    BY <2>1, <2>2, <2>3, TypeIs
<1>5. ASSUME NEW t \in AllDerived, Base[t] \in G PROVE t \in G
  <2>1. t \in DIType /\ t \in MaybeType /\ Derived(t)
    BY DEF AllDerived, MaybeType
  <2>2. CASE Base[t] = Null
    <3>1. Layout[Lowered[t]] = <<>> /\ Layout[PointsTo[Lowered[t]]] = <<>>
      BY <2>1, <2>2, TypesAssumption DEF TypesFit
    <3> QED
      BY <2>1, <3>1
  <2>3. CASE Base[t] # Null
    <3>1. /\ Tag[t] = "pointer" => Lowered[Base[t]] = PointsTo[Lowered[t]]
          /\ Tag[t] # "pointer" => Lowered[Base[t]] = Lowered[t]
      BY <2>1, <2>3, BaseIs
    <3>2. Tag[t] = "pointer" => Layout[Lowered[t]] = <<>>
      BY <2>1, TypesAssumption DEF TypesFit
    <3>3. Fits(Base[t], Lowest[Base[t]])
      BY <1>5, <2>3
    <3>4. Fits(t, Lowest[t])
      BY <1>2, <3>1, <3>2, <3>3
    <3> QED
      BY <2>1, <3>4
  <2> QED
    BY <2>2, <2>3
<1>6. MaybeType \subseteq G
  <2> HIDE DEF G
  <2> QED
    BY <1>4, <1>5, TypesLead, WalkInduct
<1>7. \A t \in MaybeType : Lowest[t] \in MaybeType
  BY LowestDefined, TypesLead, WalkTyped
<1> QED
  BY <1>6, <1>7, TypeIs DEF MaybeType

-----------------------------------------------------------------------------
(* Binding: the invariant. *)

\* t describes what v points to or, with no name or qualifier to take off, v.
Told(t, v) ==
    \/ Lowered[t] = PointsTo[prog.type[v]]
    \/ /\ Lowered[t] = prog.type[v]
       /\ Tag[t] \notin {"typedef", "const", "member"} \/ NamedTwice(v)

Instrs == Insts(prog)

\* The operand of i is an instruction behind it in the text.
Later(i) == prog.operand[i] \in Instrs /\ prog.operand[i] > i

Bound(i) == pc \in {"globals", "done"} \/ (pc = "insts" /\ i \notin left)

BindTyped ==
    /\ prog \in Programs
    /\ pc \in {"declares", "insts", "globals", "done"}
    /\ pos \in 0 .. Len(prog.declared)
    /\ pc = "insts" => left \subseteq Instrs
    /\ pc = "globals" => left \subseteq prog.global
    /\ Instrs \subseteq DOMAIN ditype /\ DOMAIN ditype \subseteq Instrs \cup prog.global
    /\ ditype = [v \in DOMAIN ditype |-> ditype[v]] /\ \A v \in DOMAIN ditype : ditype[v] \in MaybeType

AllTold == \A i \in Instrs : ditype[i] # Null /\ Direct(i) => Told(ditype[i], i)

InOrder == pc = "insts" => \A i \in Instrs \ left, j \in left : i < j

AllSettled == \A i \in Instrs : Bound(i) => Later(i) \/ ditype[i] = ComputeNodeDIType(i)

BindInv == BindTyped /\ AllTold /\ InOrder /\ AllSettled

-----------------------------------------------------------------------------
(* Binding: what the program says. *)

LEMMA SecondIs ==
    ASSUME NEW V, NEW W, NEW s \in Seq(V \X W)
    PROVE  \A n \in 1 .. Len(s) : s[n][2] \in W
<1> TAKE n \in 1 .. Len(s)
<1>1. s[n] \in V \X W
  BY ElementOfSeq
<1> QED
  BY <1>1

LEMMA ProgramIs ==
    ASSUME prog \in Programs
    PROVE  /\ Instrs \subseteq Nat /\ Instrs \cap prog.global = {}
           /\ \A n \in 1 .. Len(prog.declared) :
                 /\ prog.declared[n][2] \in DIType
                 /\ PointsTo[prog.type[prog.declared[n][1]]] = Lowered[prog.declared[n][2]]
           /\ Len(prog.declared) \in Nat
           /\ \A g \in prog.global : prog.globalType[g] # Null =>
                 /\ prog.globalType[g] \in DIType
                 /\ PointsTo[prog.type[g]] = Lowered[prog.globalType[g]]
<1>1. WellTyped(prog)
  BY ProgramsAssumption
<1>2. prog.declared \in Seq((DOMAIN prog.type) \X DIType)
  BY <1>1 DEF WellTyped
<1>3. DOMAIN prog.declared = 1 .. Len(prog.declared) /\ Len(prog.declared) \in Nat
  BY <1>2, LenProperties
<1>5. \A n \in 1 .. Len(prog.declared) : prog.declared[n][2] \in DIType
  BY <1>2, SecondIs
<1> QED
  BY <1>1, <1>3, <1>5 DEF WellTyped, Instrs

LEMMA InstructionIs ==
    ASSUME prog \in Programs, NEW i \in Instrs
    PROVE  /\ prog.operand[i] # i
           /\ prog.op[i] = "load" => prog.type[i] = GepStruct(i)
           /\ prog.op[i] \in {"gep", "cast"} => prog.operand[i] \notin prog.global
           /\ prog.op[i] = "gep" /\ prog.indices[i] = 2 /\ Layout[GepStruct(i)] # <<>> =>
                 /\ prog.last[i] # Unknown /\ prog.last[i] + 1 \in DOMAIN Layout[GepStruct(i)]
                 /\ PointsTo[prog.type[i]] = Fields[GepStruct(i)][prog.last[i] + 1]
<1>1. WellTyped(prog)
  BY ProgramsAssumption
<1> QED
  BY <1>1 DEF WellTyped, Instrs, GepStruct

LEMMA DirectIs ==
    ASSUME NEW i, Direct(i)
    PROVE  /\ i \in Instrs /\ prog.op[i] # "cast"
           /\ prog.op[i] = "gep" => prog.indices[i] = 2
           /\ prog.op[i] = "load" => ~NamedTwice(prog.operand[i])
           /\ prog.op[i] # "alloca" /\ prog.operand[i] \in Instrs => Direct(prog.operand[i])
BY DEF Direct, Instrs

-----------------------------------------------------------------------------
(* Binding: one instruction. *)

LEMMA LoadedToo ==
    ASSUME prog \in Programs, NEW i \in Instrs, prog.op[i] = "load", Direct(i),
           NEW d \in DIType, Told(d, prog.operand[i]), prog.operand[i] \in Instrs,
           NEW r, r = StripAttributes[GetBaseDIType(d)], r # Null
    PROVE  Told(r, i)
<1> DEFINE a == prog.operand[i]
           b == Base[d]
<1>1. prog.type[i] = PointsTo[prog.type[a]] /\ ~NamedTwice(a)
  BY InstructionIs, DirectIs DEF GepStruct
<1>2. GetBaseDIType(d) = b /\ b # Null
  BY StripIs DEF GetBaseDIType
<1>3. /\ b \in DIType /\ Tag[b] # "member"
      /\ Tag[d] = "pointer" => Lowered[b] = PointsTo[Lowered[d]]
      /\ Tag[d] # "pointer" => Lowered[b] = Lowered[d]
      /\ Tag[d] \in {"pointer", "typedef", "const", "member"}
  BY <1>2, BaseIs DEF Derived
<1>4. Lowered[r] = Lowered[b] /\ Tag[r] \notin {"typedef", "const", "member"}
  BY <1>2, <1>3, StripIs
<1> QED
  BY <1>1, <1>3, <1>4 DEF Told

LEMMA GlobalLoadedToo ==
    ASSUME prog \in Programs, NEW i \in Instrs, prog.op[i] = "load",
           NEW g \in prog.global, g = prog.operand[i], prog.globalType[g] # Null,
           NEW r, r = GetBaseDIType(prog.globalType[g]), r # Null
    PROVE  Told(r, i)
<1> DEFINE d == prog.globalType[g]
<1>1. prog.type[i] = PointsTo[prog.type[g]] /\ d \in DIType /\ Lowered[d] = prog.type[i]
  BY InstructionIs, ProgramIs DEF GepStruct
<1>2. r = Base[d]
  BY DEF GetBaseDIType
<1>3. /\ r \in DIType /\ Tag[r] # "member"
      /\ Tag[d] = "pointer" => Lowered[r] = PointsTo[Lowered[d]]
      /\ Tag[d] # "pointer" => Lowered[r] = Lowered[d]
  BY <1>1, <1>2, BaseIs
<1>4. CASE Tag[d] = "pointer"
  BY <1>1, <1>3, <1>4 DEF Told
<1>5. CASE Tag[d] # "pointer" /\ Tag[r] \notin {"typedef", "const"}
  BY <1>1, <1>3, <1>5 DEF Told
<1>6. CASE Tag[d] # "pointer" /\ Tag[r] \in {"typedef", "const"}
  <2>1. NamedTwice(i)
    BY <1>2, <1>6 DEF NamedTwice, Instrs
  <2> QED
    BY <1>1, <1>3, <1>6, <2>1 DEF Told
<1> QED
  BY <1>4, <1>5, <1>6

\* The members of the structure at d that match the gep.
Matching(i, d) ==
    LET s == GetLowestDIType(d)
    IN IF s # Null /\ Tag[s] = "struct"
       THEN {n \in DOMAIN Elements[s] : IsGEPOffsetMatchDIOffset(Elements[s][n], i)} ELSE {}

LEMMA FieldTypeIs ==
    ASSUME NEW i
    PROVE  FieldType(i) =
              LET d == ditype[prog.operand[i]]
                  s == GetLowestDIType(d)
              IN IF ~HasNode(prog.operand[i]) \/ Matching(i, d) = {}
                 THEN Null ELSE Elements[s][Min(Matching(i, d))]
<1>1. CASE HasNode(prog.operand[i])
  BY <1>1 DEF FieldType, Matching
<1>2. CASE ~HasNode(prog.operand[i])
  BY <1>2 DEF FieldType
<1> QED
  BY <1>1, <1>2

\* At most one member matches, and it is the one the gep accesses.
LEMMA Matches ==
    ASSUME prog \in Programs, NEW i \in Instrs, NEW d \in DIType, Matching(i, d) # {},
           Lowered[d] \in {prog.type[prog.operand[i]], GepStruct(i)}
    PROVE  LET s == GetLowestDIType(d) IN
           /\ s \in DIType /\ Tag[s] = "struct" /\ Lowered[s] = GepStruct(i)
           /\ Matching(i, d) = {prog.last[i] + 1} /\ prog.last[i] + 1 \in DOMAIN Elements[s]
           /\ prog.last[i] + 1 \in Nat
           /\ Layout[GepStruct(i)] # <<>>
<1> DEFINE s == GetLowestDIType(d)
           l == GepStruct(i)
<1>1. s # Null /\ Tag[s] = "struct" /\ s = Lowest[d]
  BY DEF Matching, GetLowestDIType
<1>2. PICK n \in DOMAIN Elements[s] : IsGEPOffsetMatchDIOffset(Elements[s][n], i)
  BY <1>1 DEF Matching
<1>3. l \in LType /\ prog.last[i] + 1 \in DOMAIN Layout[l]
  BY <1>2 DEF IsGEPOffsetMatchDIOffset, AccessField
<1>4. Layout[l] # <<>>
  BY <1>3
<1>5. l = PointsTo[prog.type[prog.operand[i]]]
  BY DEF GepStruct
<1>6. s \in DIType /\ Lowered[s] = l
  BY <1>1, <1>4, <1>5, LowestIs
<1>7. Layout[l] = [m \in DOMAIN Elements[s] |-> Offset[Elements[s][m]]]
  BY <1>1, <1>6, TypesAssumption DEF TypesFit
<1>8. IsInjective(Layout[l])
  BY <1>3, TypesAssumption DEF TypesFit
<1>9. \A m \in DOMAIN Elements[s] :
         IsGEPOffsetMatchDIOffset(Elements[s][m], i) => m = prog.last[i] + 1
  BY <1>3, <1>7, <1>8 DEF IsGEPOffsetMatchDIOffset, AccessField, IsInjective
<1>a. Matching(i, d) = {prog.last[i] + 1}
  <2>1. Matching(i, d) = {m \in DOMAIN Elements[s] : IsGEPOffsetMatchDIOffset(Elements[s][m], i)}
    BY <1>1 DEF Matching
  <2> HIDE DEF s
  <2> QED
    BY <1>2, <1>9, <2>1
<1>b. prog.last[i] + 1 \in DOMAIN Elements[s] /\ Elements[s] \in Seq(DIType)
  BY <1>2, <1>6, <1>9, TypeIs
<1>c. prog.last[i] + 1 \in Nat
  BY <1>b
<1> QED
  BY <1>1, <1>4, <1>6, <1>a, <1>b, <1>c

LEMMA OnlyNumber == ASSUME NEW n \in Nat PROVE Min({n}) = n
BY DEF Min

LEMMA FieldToo ==
    ASSUME prog \in Programs, NEW i \in Instrs, prog.op[i] = "gep", prog.indices[i] = 2,
           NEW d \in DIType, d = ditype[prog.operand[i]], Told(d, prog.operand[i]),
           FieldType(i) # Null
    PROVE  Told(FieldType(i), i)
<1> DEFINE s == GetLowestDIType(d)
           n == prog.last[i] + 1
<1>1. Matching(i, d) # {} /\ FieldType(i) = Elements[s][Min(Matching(i, d))]
  BY FieldTypeIs
<1>2. Lowered[d] \in {prog.type[prog.operand[i]], GepStruct(i)}
  BY DEF Told, GepStruct
<1>3. /\ s \in DIType /\ Tag[s] = "struct" /\ Lowered[s] = GepStruct(i)
      /\ Matching(i, d) = {n} /\ n \in DOMAIN Elements[s] /\ n \in Nat /\ Layout[GepStruct(i)] # <<>>
  BY <1>1, <1>2, Matches
<1> HIDE DEF s, n
<1>4. FieldType(i) = Elements[s][n]
  BY <1>1, <1>3, OnlyNumber
<1>5. Fields[GepStruct(i)][n] = Lowered[Elements[s][n]]
  <2>1. Fields[Lowered[s]] = [m \in DOMAIN Elements[s] |-> Lowered[Elements[s][m]]]
    BY <1>3, TypesAssumption DEF TypesFit
  <2> QED
    BY <1>3, <2>1
<1>6. PointsTo[prog.type[i]] = Fields[GepStruct(i)][n]
  BY <1>3, InstructionIs DEF n
<1> QED
  BY <1>4, <1>5, <1>6 DEF Told

LEMMA LeastNumber ==
    ASSUME NEW S \in SUBSET Nat, S # {}
    PROVE  \E m \in S : \A n \in S : m <= n
<1> DEFINE Less == OpToRel(<, Nat)
<1>1. IsWellFoundedOn(Less, Nat)
  BY NatLessThanWellFounded
<1>2. \A m, n \in Nat : n < m => <<n, m>> \in Less
  BY DEF OpToRel
<1> HIDE DEF Less
<1>3. PICK m \in S : \A n \in S : <<n, m>> \notin Less
  BY <1>1, WFMin
<1>4. \A n \in S : ~(n < m)
  BY <1>2, <1>3
<1> QED
  BY <1>4

LEMMA MinIs ==
    ASSUME NEW S \in SUBSET Nat, S # {}
    PROVE  Min(S) \in S /\ \A n \in S : Min(S) <= n
BY LeastNumber DEF Min

LEMMA BaseTyped == ASSUME NEW t \in DIType PROVE GetBaseDIType(t) \in MaybeType
BY TypeIs DEF GetBaseDIType, MaybeType

LEMMA ComputeTyped ==
    ASSUME BindTyped, NEW i \in Instrs
    PROVE  ComputeNodeDIType(i) \in MaybeType
<1> DEFINE a == prog.operand[i]
<1>1. \A v \in DOMAIN ditype : ditype[v] \in MaybeType
  BY DEF BindTyped
<1>2. i \in DOMAIN ditype /\ prog \in Programs /\ Null \in MaybeType
  BY DEF BindTyped, MaybeType
<1>3. LoadType(i) \in MaybeType
  <2>1. CASE a \in Instrs
    <3>1. ditype[a] \in MaybeType
      BY <1>1, <2>1 DEF BindTyped
    <3>2. LoadType(i) = IF ditype[a] = Null THEN Null ELSE StripAttributes[GetBaseDIType(ditype[a])]
      BY <1>2, <2>1, ProgramIs DEF LoadType, Instrs
    <3> QED
      BY <1>2, <3>1, <3>2, BaseTyped, StripIs DEF MaybeType
  <2>2. CASE a \notin Instrs /\ a \in prog.global
    <3>1. LoadType(i) = IF prog.globalType[a] = Null THEN Null ELSE GetBaseDIType(prog.globalType[a])
      BY <2>2 DEF LoadType, Instrs
    <3> QED
      BY <1>2, <2>2, <3>1, BaseTyped, ProgramIs
  <2>3. CASE a \notin Instrs /\ a \notin prog.global
    BY <1>2, <2>3 DEF LoadType, Instrs
  <2> QED
    BY <2>1, <2>2, <2>3
<1>4. FieldType(i) \in MaybeType
  <2> DEFINE d == ditype[a]
             s == GetLowestDIType(d)
             M == Matching(i, d)
  <2>1. CASE ~HasNode(a) \/ M = {}
    BY <1>2, <2>1, FieldTypeIs
  <2>2. CASE HasNode(a) /\ M # {}
    <3>1. FieldType(i) = Elements[s][Min(M)]
      BY <2>2, FieldTypeIs
    <3>2. d \in MaybeType
      BY <1>1, <2>2 DEF HasNode
    <3>3. s \in MaybeType
      BY <3>2, LowestIs DEF GetLowestDIType
    <3>4. s # Null /\ M \subseteq DOMAIN Elements[s]
      BY <2>2 DEF Matching
    <3>5. Elements[s] \in Seq(DIType)
      BY <3>3, <3>4, TypeIs DEF MaybeType
    <3> HIDE DEF M, s
    <3>6. M \in SUBSET Nat
      BY <3>4, <3>5
    <3>7. Min(M) \in DOMAIN Elements[s]
      BY <2>2, <3>4, <3>6, MinIs
    <3> QED
      BY <3>1, <3>5, <3>7 DEF MaybeType
  <2> QED
    BY <2>1, <2>2
<1>5. prog.op[i] = "cast" => ComputeNodeDIType(i) \in MaybeType
  BY <1>1, <1>2 DEF ComputeNodeDIType, HasNode
<1> QED
  BY <1>1, <1>2, <1>3, <1>4, <1>5 DEF ComputeNodeDIType

LEMMA ComputeTold ==
    ASSUME BindTyped, AllTold, NEW i \in Instrs, ComputeNodeDIType(i) # Null, Direct(i)
    PROVE  Told(ComputeNodeDIType(i), i)
<1> DEFINE a == prog.operand[i]
           c == ComputeNodeDIType(i)
<1>1. prog \in Programs /\ \A v \in DOMAIN ditype : ditype[v] \in MaybeType
  BY DEF BindTyped
<1>2. Instrs \subseteq DOMAIN ditype /\ DOMAIN ditype \subseteq Instrs \cup prog.global
  BY DEF BindTyped
<1>3. prog.op[i] \in {"alloca", "load", "gep"}
  BY DirectIs DEF ComputeNodeDIType
<1>4. CASE prog.op[i] = "alloca"
  BY <1>4 DEF ComputeNodeDIType, AllTold
<1>5. CASE prog.op[i] = "load"
  <2>1. c = LoadType(i)
    BY <1>5 DEF ComputeNodeDIType
  <2>2. CASE a \in Instrs
    <3>1. ditype[a] # Null /\ c = StripAttributes[GetBaseDIType(ditype[a])]
      BY <1>1, <2>1, <2>2, ProgramIs DEF LoadType, Instrs
    <3>2. ditype[a] \in DIType /\ Told(ditype[a], a)
      BY <1>1, <1>2, <1>5, <2>2, <3>1, DirectIs DEF AllTold, MaybeType
    <3> QED
      BY <1>1, <1>5, <2>2, <3>1, <3>2, LoadedToo
  <2>3. CASE a \notin Instrs /\ a \in prog.global
    <3>1. prog.globalType[a] # Null /\ c = GetBaseDIType(prog.globalType[a])
      BY <2>1, <2>3 DEF LoadType, Instrs
    <3> QED
      BY <1>1, <1>5, <2>3, <3>1, GlobalLoadedToo
  <2>4. CASE a \notin Instrs /\ a \notin prog.global
    BY <2>1, <2>4 DEF LoadType, Instrs
  <2> QED
    BY <2>2, <2>3, <2>4
<1>6. CASE prog.op[i] = "gep"
  <2>1. c = FieldType(i)
    BY <1>6 DEF ComputeNodeDIType
  <2>2. HasNode(a) /\ Matching(i, ditype[a]) # {}
    BY <2>1, FieldTypeIs
  <2>3. a \in Instrs /\ ditype[a] \in MaybeType
    BY <1>1, <1>2, <1>6, <2>2, InstructionIs DEF HasNode
  <2>4. ditype[a] # Null
    <3>1. Null \in MaybeType \ AllDerived
      BY TypeIs DEF MaybeType, AllDerived
    <3>2. Lowest[Null] = Null
      BY <3>1, LowestDefined
    <3> QED
      BY <2>2, <3>2 DEF Matching, GetLowestDIType
  <2>5. ditype[a] \in DIType /\ Told(ditype[a], a) /\ prog.indices[i] = 2
    BY <1>6, <2>3, <2>4, DirectIs DEF AllTold, MaybeType
  <2> QED
    BY <1>1, <1>6, <2>1, <2>5, FieldToo
<1> QED
  BY <1>3, <1>4, <1>5, <1>6

\* FieldType, for a gep that accesses field n of s from an operand of type d.
FieldFrom(d, s, n) ==
    LET t == Lowest[d]
        M == {m \in DOMAIN Elements[t] :
                 /\ s \in LType /\ n # Unknown /\ n + 1 \in DOMAIN Layout[s]
                 /\ Layout[s][n + 1] = Offset[Elements[t][m]]}
    IN  IF t = Null \/ Tag[t] # "struct" \/ M = {} THEN Null ELSE Elements[t][Min(M)]

\* What is computed depends on the type of the operand only.
LEMMA ComputeSame ==
    ASSUME BindTyped, prog' = prog, DOMAIN ditype' = DOMAIN ditype, NEW i \in Instrs,
           prog.op[i] = "alloca" => ditype'[i] = ditype[i],
           prog.operand[i] \in Instrs => ditype'[prog.operand[i]] = ditype[prog.operand[i]]
    PROVE  ComputeNodeDIType(i)' = ComputeNodeDIType(i)
<1> DEFINE a == prog.operand[i]
<1>1. prog \in Programs /\ DOMAIN ditype \subseteq Instrs \cup prog.global
  BY DEF BindTyped
<1>2. LoadType(i)' = LoadType(i)
  BY DEF LoadType, Instrs
<1>3. HasNode(a)' <=> HasNode(a)
  BY DEF HasNode
<1>4. prog.op[i] \in {"gep", "cast"} /\ HasNode(a) => ditype'[a] = ditype[a]
  BY <1>1, InstructionIs DEF HasNode
<1>6. prog.op[i] = "gep" => FieldType(i)' = FieldType(i)
  <2> SUFFICES ASSUME prog.op[i] = "gep" PROVE FieldType(i)' = FieldType(i)
    OBVIOUS
  <2>1. CASE ~HasNode(a)
    BY <1>3, <2>1 DEF FieldType
  <2>2. CASE HasNode(a)
    <3>1. FieldType(i) = FieldFrom(ditype[a], GepStruct(i), prog.last[i])
      BY <2>2 DEF FieldType, FieldFrom, GetLowestDIType, IsGEPOffsetMatchDIOffset, AccessField
    <3>2. FieldType(i)' = FieldFrom(ditype'[a], GepStruct(i)', prog'.last[i])
      BY <1>3, <2>2 DEF FieldType, FieldFrom, GetLowestDIType, IsGEPOffsetMatchDIOffset, AccessField
    <3>3. GepStruct(i)' = GepStruct(i) /\ ditype'[a] = ditype[a]
      BY <1>4, <2>2 DEF GepStruct
    <3> QED
      BY <3>1, <3>2, <3>3
  <2> QED
    BY <2>1, <2>2
<1> QED
  BY <1>2, <1>3, <1>4, <1>6 DEF ComputeNodeDIType

-----------------------------------------------------------------------------
(* Binding: each step. *)

LEMMA BindStepKeeps ==
    ASSUME BindInv, BindTyped', prog' = prog, InOrder',
           \A i \in Instrs : ditype'[i] # ditype[i] /\ ditype'[i] # Null /\ Direct(i)
                                => Told(ditype'[i], i),
           \A i \in Instrs : Bound(i)' => Later(i) \/ ditype'[i] = ComputeNodeDIType(i)'
    PROVE  BindInv'
<1>1. Instrs' = Instrs
  BY DEF Instrs, Insts
<1>2. \A i : (Direct(i)' <=> Direct(i)) /\ (NamedTwice(i)' <=> NamedTwice(i)) /\ (Later(i)' <=> Later(i))
  BY <1>1 DEF Direct, NamedTwice, Later, Insts
<1>3. \A t, i : Told(t, i)' <=> Told(t, i)
  BY <1>2 DEF Told
<1>4. AllTold'
  <2> SUFFICES ASSUME NEW i \in Instrs, ditype'[i] # Null, Direct(i)
               PROVE  Told(ditype[i], i)'
    BY <1>1, <1>2 DEF AllTold
  <2>1. Told(ditype'[i], i)
    BY DEF BindInv, AllTold
  <2> QED
    BY <1>2, <2>1 DEF Told
<1>5. AllSettled'
  BY <1>1, <1>2 DEF AllSettled
<1> QED
  BY <1>4, <1>5 DEF BindInv

\* What SetDIType leaves.
LEMMA SetIs ==
    ASSUME BindTyped, NEW v, NEW t, ditype' = SetDIType(v, t), v \in DOMAIN ditype => t \in MaybeType
    PROVE  /\ DOMAIN ditype' = DOMAIN ditype
           /\ ditype' = [u \in DOMAIN ditype' |-> ditype'[u]]
           /\ \A u \in DOMAIN ditype' : ditype'[u] \in MaybeType
           /\ \A u \in DOMAIN ditype : u # v => ditype'[u] = ditype[u]
           /\ v \in DOMAIN ditype => ditype'[v] = t
<1>1. ditype = [u \in DOMAIN ditype |-> ditype[u]] /\ \A u \in DOMAIN ditype : ditype[u] \in MaybeType
  BY DEF BindTyped
<1>2. CASE v \in DOMAIN ditype
  <2>1. ditype' = [ditype EXCEPT ![v] = t]
    BY <1>2 DEF SetDIType, HasNode
  <2> QED
    BY <1>1, <1>2, <2>1
<1>3. CASE v \notin DOMAIN ditype
  <2>1. ditype' = ditype
    BY <1>3 DEF SetDIType, HasNode
  <2> QED
    BY <1>1, <1>3, <2>1
<1> QED
  BY <1>2, <1>3

LEMMA BindInvFirst == BindInit => BindInv
<1> SUFFICES ASSUME BindInit PROVE BindInv
  OBVIOUS
<1>1. /\ prog \in Programs /\ pc = "declares" /\ pos = 0 /\ left = {}
      /\ ditype = [v \in Instrs \cup {g \in prog.global : prog.globalType[g] # Null} |-> Null]
  BY DEF BindInit, Instrs
<1>2. DOMAIN ditype = Instrs \cup {g \in prog.global : prog.globalType[g] # Null}
      /\ \A v \in DOMAIN ditype : ditype[v] = Null
  BY <1>1
<1>3. BindTyped
  <2>1. Len(prog.declared) \in Nat
    BY <1>1, ProgramIs
  <2> QED
    BY <1>1, <1>2, <2>1 DEF BindTyped, MaybeType
<1>4. AllTold /\ InOrder /\ AllSettled
  BY <1>1, <1>2 DEF AllTold, InOrder, AllSettled, Bound
<1> QED
  BY <1>3, <1>4 DEF BindInv

LEMMA DeclareKeeps == BindInv /\ BindDeclare => BindInv'
<1> SUFFICES ASSUME BindInv, BindDeclare PROVE BindInv'
  OBVIOUS
<1> DEFINE v == prog.declared[pos + 1][1]
           t == prog.declared[pos + 1][2]
<1>1. /\ pc = "declares" /\ pos < Len(prog.declared) /\ pos' = pos + 1
      /\ ditype' = SetDIType(v, t) /\ UNCHANGED <<prog, pc, left>>
  BY DEF BindDeclare
<1>2. BindTyped /\ prog \in Programs /\ pos \in 0 .. Len(prog.declared)
  BY DEF BindInv, BindTyped
<1>3. Len(prog.declared) \in Nat /\ pos + 1 \in 1 .. Len(prog.declared)
  BY <1>1, <1>2, ProgramIs
<1>4. t \in DIType /\ PointsTo[prog.type[v]] = Lowered[t]
  BY <1>2, <1>3, ProgramIs
<1> HIDE DEF v, t
<1>5. /\ DOMAIN ditype' = DOMAIN ditype
      /\ ditype' = [u \in DOMAIN ditype' |-> ditype'[u]]
      /\ \A u \in DOMAIN ditype' : ditype'[u] \in MaybeType
      /\ \A u \in DOMAIN ditype : u # v => ditype'[u] = ditype[u]
      /\ v \in DOMAIN ditype => ditype'[v] = t
  BY <1>1, <1>2, <1>4, SetIs DEF MaybeType
<1>6. BindTyped'
  BY <1>1, <1>2, <1>3, <1>5 DEF BindTyped, Instrs, Insts
<1>7. InOrder' /\ \A i \in Instrs : ~Bound(i)'
  BY <1>1 DEF InOrder, Bound
<1>8. ASSUME NEW i \in Instrs, ditype'[i] # ditype[i] PROVE Told(ditype'[i], i)
  <2>1. i = v /\ ditype'[i] = t
    BY <1>2, <1>5, <1>8 DEF BindTyped
  <2> QED
    BY <1>4, <2>1 DEF Told
<1> QED
  BY <1>1, <1>6, <1>7, <1>8, BindStepKeeps

LEMMA InstKeeps == BindInv /\ BindInst => BindInv'
<1> SUFFICES ASSUME BindInv, BindInst PROVE BindInv'
  OBVIOUS
<1> DEFINE i == NextInst
           t == ComputeNodeDIType(i)
<1>1. /\ pc = "insts" /\ left # {} /\ left' = left \ {i}
      /\ ditype' = SetDIType(i, t) /\ UNCHANGED <<prog, pc, pos>>
  BY DEF BindInst
<1>2. BindTyped /\ prog \in Programs /\ Instrs \subseteq DOMAIN ditype /\ left \subseteq Instrs
      /\ Instrs \subseteq Nat
  BY <1>1, ProgramIs DEF BindInv, BindTyped
<1>3. i \in left /\ \A j \in left : i <= j
  BY <1>1, <1>2, MinIs DEF NextInst
<1>4. i \in Instrs /\ t \in MaybeType
  BY <1>2, <1>3, ComputeTyped
<1> HIDE DEF i, t
<1>5. /\ DOMAIN ditype' = DOMAIN ditype
      /\ ditype' = [u \in DOMAIN ditype' |-> ditype'[u]]
      /\ \A u \in DOMAIN ditype' : ditype'[u] \in MaybeType
      /\ \A u \in DOMAIN ditype : u # i => ditype'[u] = ditype[u]
      /\ ditype'[i] = t
  BY <1>1, <1>2, <1>4, SetIs
<1>6. BindTyped'
  BY <1>1, <1>2, <1>5 DEF BindTyped, Instrs, Insts
<1>7. \A j \in Instrs \ left : j < i
  BY <1>1, <1>3 DEF BindInv, InOrder
<1>8. InOrder'
  <2>1. \A j \in Instrs \ left', k \in left' : j < k
    <3> TAKE j \in Instrs \ left', k \in left'
    <3>1. k \in left /\ k # i /\ i < k /\ k \in Nat /\ j \in Nat /\ i \in Nat
      BY <1>1, <1>2, <1>3
    <3>2. j = i \/ j < i
      BY <1>1, <1>7
    <3> QED
      BY <3>1, <3>2
  <2> QED
    BY <1>1, <2>1 DEF InOrder, Instrs, Insts
<1>9. ASSUME NEW j \in Instrs, ditype'[j] # ditype[j], ditype'[j] # Null, Direct(j)
      PROVE  Told(ditype'[j], j)
  <2>1. j = i /\ ditype'[j] = ComputeNodeDIType(i)
    BY <1>2, <1>5, <1>9 DEF t
  <2> QED
    BY <1>2, <1>9, <2>1, ComputeTold DEF BindInv
<1>a. ASSUME NEW j \in Instrs, Bound(j)', ~Later(j)
      PROVE  ditype'[j] = ComputeNodeDIType(j)'
  <2>1. j = i \/ (j \notin left /\ j # i)
    BY <1>1, <1>3, <1>a DEF Bound
  <2>2. CASE j # i
    <3>1. j < i /\ ditype[j] = ComputeNodeDIType(j)
      BY <1>1, <1>7, <1>a, <2>1, <2>2 DEF BindInv, AllSettled, Bound
    <3>2. prog.operand[j] # i
      BY <1>2, <1>4, <1>a, <3>1 DEF Later
    <3> QED
      BY <1>1, <1>2, <1>5, <2>2, <3>1, <3>2, ComputeSame
  <2>3. CASE j = i /\ prog.op[j] = "alloca"
    BY <1>1, <2>3 DEF ComputeNodeDIType
  <2>4. CASE j = i /\ prog.op[j] # "alloca"
    <3>1. prog.operand[j] # i
      BY <1>2, <2>4, InstructionIs
    <3>2. ComputeNodeDIType(j)' = ComputeNodeDIType(j)
      BY <1>1, <1>2, <1>5, <2>4, <3>1, ComputeSame
    <3> QED
      BY <1>5, <2>4, <3>2 DEF t
  <2> QED
    BY <2>2, <2>3, <2>4
<1> QED
  BY <1>1, <1>6, <1>8, <1>9, <1>a, BindStepKeeps

LEMMA GlobalKeeps == BindInv /\ BindGlobal => BindInv'
<1> SUFFICES ASSUME BindInv, BindGlobal PROVE BindInv'
  OBVIOUS
<1>1. pc = "globals" /\ UNCHANGED <<prog, pc, pos>>
  BY DEF BindGlobal
<1>2. PICK g \in left : left' = left \ {g} /\ ditype' = SetDIType(g, prog.globalType[g])
  BY DEF BindGlobal
<1>3. BindTyped /\ prog \in Programs /\ Instrs \subseteq DOMAIN ditype /\ left \subseteq prog.global
      /\ Instrs \cap prog.global = {}
  BY <1>1, ProgramIs DEF BindInv, BindTyped
<1>4. prog.globalType[g] \in MaybeType
  BY <1>3, ProgramIs DEF MaybeType
<1>5. /\ DOMAIN ditype' = DOMAIN ditype
      /\ ditype' = [u \in DOMAIN ditype' |-> ditype'[u]]
      /\ \A u \in DOMAIN ditype' : ditype'[u] \in MaybeType
      /\ \A u \in DOMAIN ditype : u # g => ditype'[u] = ditype[u]
  BY <1>2, <1>3, <1>4, SetIs
<1>6. BindTyped'
  BY <1>1, <1>2, <1>3, <1>5 DEF BindTyped, Instrs, Insts
<1>7. InOrder'
  BY <1>1 DEF InOrder
<1>8. \A j \in Instrs : ditype'[j] = ditype[j]
  BY <1>3, <1>5
<1>9. ASSUME NEW j \in Instrs PROVE Later(j) \/ ditype'[j] = ComputeNodeDIType(j)'
  <2>1. Later(j) \/ ditype[j] = ComputeNodeDIType(j)
    BY <1>1 DEF BindInv, AllSettled, Bound
  <2>2. ComputeNodeDIType(j)' = ComputeNodeDIType(j)
    BY <1>1, <1>3, <1>5, <1>8, ComputeSame
  <2> QED
    BY <1>8, <2>1, <2>2
<1> QED
  BY <1>1, <1>6, <1>7, <1>8, <1>9, BindStepKeeps

LEMMA AdvanceKeeps == BindInv /\ Advance => BindInv'
<1> SUFFICES ASSUME BindInv, Advance PROVE BindInv'
  OBVIOUS
<1>1. UNCHANGED <<prog, pos, ditype>>
  BY DEF Advance, GoTo
<1>2. \/ pc = "declares" /\ pc' = "insts" /\ left' = Instrs
      \/ pc = "insts" /\ left = {} /\ pc' = "globals" /\ left' = prog.global
      \/ pc = "globals" /\ left = {} /\ pc' = "done" /\ left' = {}
  BY DEF Advance, GoTo, Instrs
<1>3. BindTyped'
  BY <1>1, <1>2 DEF BindInv, BindTyped, Instrs, Insts
<1>4. InOrder'
  BY <1>1, <1>2 DEF InOrder, Instrs, Insts
<1>5. ASSUME NEW j \in Instrs, Bound(j)' PROVE Later(j) \/ ditype'[j] = ComputeNodeDIType(j)'
  <2>1. Bound(j)
    BY <1>2, <1>5 DEF Bound
  <2>2. ComputeNodeDIType(j)' = ComputeNodeDIType(j)
    BY <1>1, ComputeSame DEF BindInv
  <2> QED
    BY <1>1, <2>1, <2>2 DEF BindInv, AllSettled
<1> QED
  BY <1>1, <1>3, <1>4, <1>5, BindStepKeeps

LEMMA BindInvHolds == BindSpec => []BindInv
<1>1. BindInv /\ [BindNext]_bindVars => BindInv'
  <2> SUFFICES ASSUME BindInv, [BindNext]_bindVars PROVE BindInv'
    OBVIOUS
  <2>1. CASE UNCHANGED bindVars
    <3>1. UNCHANGED <<prog, pc, pos, left, ditype>>
      BY <2>1 DEF bindVars
    <3>2. BindTyped' /\ InOrder'
      BY <3>1 DEF BindInv, BindTyped, InOrder, Instrs, Insts
    <3>3. ASSUME NEW j \in Instrs, Bound(j)' PROVE Later(j) \/ ditype'[j] = ComputeNodeDIType(j)'
      <4>1. Bound(j)
        BY <3>1, <3>3 DEF Bound
      <4>2. ComputeNodeDIType(j)' = ComputeNodeDIType(j)
        BY <3>1, ComputeSame DEF BindInv
      <4> QED
        BY <3>1, <4>1, <4>2 DEF BindInv, AllSettled
    <3> QED
      BY <3>1, <3>2, <3>3, BindStepKeeps
  <2> QED
    BY <2>1, DeclareKeeps, InstKeeps, GlobalKeeps, AdvanceKeeps DEF BindNext
<1> QED
  BY <1>1, BindInvFirst, PTL DEF BindSpec

-----------------------------------------------------------------------------
(* The theorems about debug types. *)

\* BoundTypesTrue: what computeNodeDIType makes of the type of the operand
\* describes the value computed, or what that points to.
THEOREM TypesAreTrue == BindSpec => []BoundTypesTrue
<1>1. BindInv => BoundTypesTrue
  BY DEF BindInv, AllTold, Told, BoundTypesTrue, Describes, Instrs
<1> QED
  BY <1>1, BindInvHolds, PTL

\* FieldsFound: of the members of the structure that getLowestDIType leads to,
\* one matches the gep's offset, and it is the field that the gep accesses.
THEOREM FieldsAreFound == BindSpec => []FieldsFound
<1>1. BindInv => FieldsFound
  <2> SUFFICES ASSUME BindInv, NEW i \in Instrs,
                      pc \in {"globals", "done"}, prog.op[i] = "gep", prog.last[i] # Unknown,
                      Direct(i), prog.operand[i] \in Instrs, prog.operand[i] < i,
                      ditype[prog.operand[i]] # Null, Layout[GepStruct(i)] # <<>>
               PROVE  /\ ditype[i] # Null
                      /\ Tag[ditype[i]] = "member"
                      /\ Offset[ditype[i]] = Layout[GepStruct(i)][prog.last[i] + 1]
    BY DEF FieldsFound, Instrs
  <2> DEFINE a == prog.operand[i]
             d == ditype[a]
             s == GetLowestDIType(d)
             l == GepStruct(i)
             n == prog.last[i] + 1
  <2>1. prog \in Programs /\ Instrs \subseteq Nat /\ a \in DOMAIN ditype /\ d \in DIType
    BY ProgramIs DEF BindInv, BindTyped, MaybeType
  <2>2. ditype[i] = FieldType(i)
    <3>0. i \in Nat /\ prog.operand[i] \in Nat /\ prog.operand[i] < i
      BY <2>1
    <3>1. ~Later(i)
      BY <3>0 DEF Later
    <3>2. ditype[i] = ComputeNodeDIType(i)
      BY <3>1 DEF BindInv, AllSettled, Bound
    <3> QED
      BY <3>2 DEF ComputeNodeDIType
  <2>3. prog.indices[i] = 2 /\ Direct(a)
    BY DirectIs
  <2>4. Lowered[d] \in {prog.type[a], l} /\ l = PointsTo[prog.type[a]]
    BY <2>3 DEF BindInv, AllTold, Told, GepStruct
  <2>5. s \in DIType /\ Tag[s] = "struct" /\ Lowered[s] = l
    BY <2>1, <2>4, LowestIs DEF GetLowestDIType
  <2>6. l \in LType /\ n \in DOMAIN Layout[l]
    BY <2>1, <2>3, <2>5, InstructionIs, TypeIs
  <2>7. /\ \A m \in ToSet(Elements[s]) : Tag[m] = "member"
        /\ Layout[l] = [m \in DOMAIN Elements[s] |-> Offset[Elements[s][m]]]
    BY <2>5, TypesAssumption DEF TypesFit
  <2>8. Matching(i, d) # {}
    <3>1. n \in DOMAIN Elements[s] /\ Layout[l][n] = Offset[Elements[s][n]]
      BY <2>6, <2>7
    <3>2. IsGEPOffsetMatchDIOffset(Elements[s][n], i)
      BY <2>6, <3>1 DEF IsGEPOffsetMatchDIOffset, AccessField
    <3> QED
      BY <2>1, <2>5, <3>1, <3>2, TypeIs DEF Matching
  <2>9. Matching(i, d) = {n} /\ n \in DOMAIN Elements[s] /\ n \in Nat
    BY <2>1, <2>4, <2>8, Matches
  <2>a. FieldType(i) = Elements[s][n]
    BY <2>1, <2>8, <2>9, FieldTypeIs, OnlyNumber DEF HasNode
  <2>b. Elements[s][n] \in DIType /\ Elements[s][n] \in ToSet(Elements[s])
    BY <2>5, <2>9, TypeIs DEF ToSet
  <2> HIDE DEF s, n, l
  <2>c. Layout[l][n] = Offset[Elements[s][n]] /\ Tag[Elements[s][n]] = "member"
    BY <2>7, <2>9, <2>b
  <2> QED
    BY <2>2, <2>a, <2>b, <2>c, TypeIs DEF l, n
<1> QED
  BY <1>1, BindInvHolds, PTL

\* Settled: bindDITypeToNodes goes through the instructions once, and each has
\* then the type that its operand's final type gives it.
THEOREM OnePassSettles == BindSpec => []Settled
<1>1. BindInv => Settled
  BY DEF BindInv, AllSettled, Bound, Later, Settled, Instrs
<1> QED
  BY <1>1, BindInvHolds, PTL

=============================================================================
