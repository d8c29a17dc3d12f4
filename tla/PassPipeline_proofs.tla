------------------------- MODULE PassPipeline_proofs -------------------------
(***************************************************************************)
(* Proofs about the pipeline of passes, for every command line and every   *)
(* program.                                                                *)
(*                                                                         *)
(* Scheduling puts what a pass requires before it, so a pass that comes to *)
(* run finds what it needs in the graph.  An export changes the types of   *)
(* some edges, and what runs behind it may add these edges again; but the  *)
(* graph stays, up to that change, the whole one.                          *)
(***************************************************************************)
EXTENDS PassPipeline, SequenceTheorems, TLAPS

Once == {"ddg", "pdg"}

\* What has to stand before a pass.
Need(p) ==
    CASE p = "minizinc" -> {"pdg"}
      [] p = "pdg"      -> {"ddg"}
      [] OTHER          -> {}

\* The passes of queue q are in order, av being the analyses available when they
\* are run: what one of them needs stands before it or has been run, and the two
\* analyses of modules are run once.
Ordered(q, av) ==
    /\ q \in Seq(Passes)
    /\ Once \cap Scheduled(q) \subseteq av
    /\ \A i, j \in 1 .. Len(q) : q[i] = q[j] /\ q[i] \in Once => i = j
    /\ \A i \in 1 .. Len(q) : \A p \in Need(q[i]) :
          p \in av /\ \A j \in 1 .. Len(q) : q[j] = p => j < i

-----------------------------------------------------------------------------
(* Scheduling. *)

LEMMA ScheduledIs ==
    ASSUME NEW q \in Seq(Passes) PROVE Scheduled(q) = {q[i] : i \in 1 .. Len(q)}
BY LenProperties DEF Scheduled

LEMMA OrderedAppend ==
    ASSUME NEW q, NEW av, Ordered(q, av), NEW p \in Passes, p \notin av, Need(p) \subseteq av
    PROVE  Ordered(Append(q, p), av \cup {p})
<1> DEFINE r == Append(q, p)
           n == Len(q)
<1>1. q \in Seq(Passes) /\ n \in Nat
  BY DEF Ordered
<1>2. /\ r \in Seq(Passes) /\ Len(r) = n + 1
      /\ \A i \in 1 .. n : r[i] = q[i]
      /\ r[n + 1] = p
  BY <1>1, AppendProperties
<1>3. /\ Once \cap Scheduled(q) \subseteq av
      /\ \A i, j \in 1 .. n : q[i] = q[j] /\ q[i] \in Once => i = j
      /\ \A i \in 1 .. n : \A o \in Need(q[i]) :
            o \in av /\ \A j \in 1 .. n : q[j] = o => j < i
  BY DEF Ordered
<1> HIDE DEF r, n
<1>4. \A i \in 1 .. n + 1 : i \in 1 .. n \/ i = n + 1
  BY <1>1
<1>5. Scheduled(q) = {q[i] : i \in 1 .. n} /\ Scheduled(r) = {r[i] : i \in 1 .. n + 1}
  BY <1>1, <1>2, ScheduledIs DEF n
<1>6. Scheduled(r) \subseteq Scheduled(q) \cup {p}
  BY <1>2, <1>4, <1>5
<1>7. \A i \in 1 .. n : q[i] = p => p \notin Once
  BY <1>3, <1>5
<1>8. \A i, j \in 1 .. n + 1 : r[i] = r[j] /\ r[i] \in Once => i = j
  BY <1>2, <1>3, <1>4, <1>7
<1>9. ASSUME NEW i \in 1 .. n + 1, NEW o \in Need(r[i])
      PROVE  o \in av \cup {p} /\ \A j \in 1 .. n + 1 : r[j] = o => j < i
  <2>1. CASE i \in 1 .. n
    <3>1. o \in av /\ o # p /\ \A j \in 1 .. n : q[j] = o => j < i
      BY <1>2, <1>3, <1>9, <2>1
    <3> QED
      BY <1>2, <1>4, <3>1
  <2>2. CASE i = n + 1
    <3>1. o \in av /\ o # p
      BY <1>2, <1>9, <2>2
    <3>2. \A j \in 1 .. n : j < n + 1
      BY <1>1
    <3> QED
      BY <1>2, <1>4, <2>2, <3>1, <3>2
  <2> QED
    BY <1>4, <2>1, <2>2
<1> QED
  BY <1>2, <1>3, <1>6, <1>8, <1>9 DEF Ordered, r

\* One pass of those a request brings along, unless it is there.
LEMMA OrderedUnless ==
    ASSUME NEW q, NEW av, Ordered(q, av), NEW p \in Passes, Need(p) \subseteq av,
           p \in available <=> p \in av
    PROVE  Ordered(q \o Unless(p), av \cup {p})
<1>1. q \in Seq(Passes)
  BY DEF Ordered
<1>2. CASE p \in available
  <2>1. q \o Unless(p) = q /\ av \cup {p} = av
    BY <1>1, <1>2, ConcatEmptySeq DEF Unless
  <2> QED
    BY <2>1
<1>3. CASE p \notin available
  <2>1. Unless(p) = <<p>>
    BY <1>3 DEF Unless
  <2>2. q \o <<p>> = Append(q, p)
    BY <1>1
  <2>3. Ordered(Append(q, p), av \cup {p})
    BY <1>3, OrderedAppend
  <2> QED
    BY <2>1, <2>2, <2>3
<1> QED
  BY <1>2, <1>3

\* Only the analyses of modules count.
LEMMA OrderedAvailable ==
    ASSUME NEW q, NEW av, NEW bv, Ordered(q, av), Once \cap av = Once \cap bv
    PROVE  Ordered(q, bv)
<1>1. \A p : Need(p) \subseteq Once
  BY DEF Need, Once
<1> QED
  BY <1>1 DEF Ordered

LEMMA UnlessTyped == ASSUME NEW p \in Passes PROVE Unless(p) \in Seq(Passes)
BY DEF Unless

LEMMA Regrouped ==
    \A s, t, u \in Seq(Passes) : (s \o t) \o u = s \o (t \o u)
BY ConcatAssociative

LEMMA OrderedNew ==
    ASSUME Ordered(queue, available), available \subseteq Analyses, NEW p \in Passes
    PROVE  Ordered(queue \o New(p), available \cup Need(p) \cup {p}
                                    \cup (IF p = "minizinc" THEN {"ddg"} ELSE {}))
<1> DEFINE d == queue \o Unless("ddg")
           ad == available \cup {"ddg"}
<1>1. /\ Unless("ddg") \in Seq(Passes) /\ Unless("pdg") \in Seq(Passes)
      /\ Unless(p) \in Seq(Passes) /\ queue \in Seq(Passes) /\ d \in Seq(Passes)
  BY UnlessTyped, ConcatProperties DEF Ordered, Passes
<1>2. Ordered(d, ad)
  BY OrderedUnless DEF Need, Passes
<1> HIDE DEF d
<1>3. CASE p = "minizinc"
  <2> DEFINE e == d \o Unless("pdg")
             ap == ad \cup {"pdg"}
  <2>1. Ordered(e, ap)
    BY <1>2, OrderedUnless DEF Need, Passes
  <2>2. Ordered(e \o Unless(p), ap \cup {p})
    BY <1>3, <2>1, OrderedUnless DEF Need, Passes, Analyses
  <2>3. Unless("ddg") \o Unless("pdg") \in Seq(Passes)
    BY <1>1, ConcatProperties
  <2>4. queue \o New(p) = (queue \o (Unless("ddg") \o Unless("pdg"))) \o Unless(p)
    <3>1. New(p) = (Unless("ddg") \o Unless("pdg")) \o Unless(p)
      BY <1>3 DEF New, Required
    <3> DEFINE u == Unless("ddg") \o Unless("pdg")
               v == Unless(p)
    <3>2. u \in Seq(Passes) /\ v \in Seq(Passes) /\ queue \in Seq(Passes)
      BY <1>1, <2>3
    <3>3. New(p) = u \o v
      BY <3>1
    <3> HIDE DEF u, v
    <3>4. (queue \o u) \o v = queue \o (u \o v)
      BY <3>2, Regrouped
    <3>5. queue \o New(p) = (queue \o u) \o v
      BY <3>3, <3>4
    <3> QED
      BY <3>5 DEF u, v
  <2>5. queue \o (Unless("ddg") \o Unless("pdg")) = e
    BY <1>1, Regrouped DEF d
  <2>6. ap \cup {p} = available \cup Need(p) \cup {p} \cup {"ddg"}
    BY <1>3 DEF Need
  <2> HIDE DEF e, ap
  <2> QED
    BY <1>3, <2>2, <2>4, <2>5, <2>6
<1>4. CASE p = "pdg"
  <2>1. Ordered(d \o Unless(p), ad \cup {p})
    BY <1>2, <1>4, OrderedUnless DEF Need, Passes
  <2>2. queue \o New(p) = d \o Unless(p)
    BY <1>1, <1>4, Regrouped DEF New, Required, d
  <2>3. ad \cup {p} = available \cup Need(p) \cup {p}
    BY <1>4 DEF Need
  <2> QED
    BY <1>4, <2>1, <2>2, <2>3
<1>5. CASE p \in {"ddg", "cdg"}
  <2>1. Ordered(queue \o Unless(p), available \cup {p})
    BY <1>5, OrderedUnless DEF Need, Passes
  <2>2. New(p) = <<>> \o Unless(p)
    BY <1>5 DEF New, Required
  <2>3. New(p) = Unless(p)
    BY <1>1, <2>2, ConcatEmptySeq
  <2> QED
    BY <1>5, <2>1, <2>3 DEF Need
<1> QED
  BY <1>3, <1>4, <1>5 DEF Passes


-----------------------------------------------------------------------------
(* The order in which the passes run. *)

\* An analysis the graph has the edges of.
Ran(p) == p \in available /\ p \notin Scheduled(queue)

\* Nothing runs before everything is scheduled, the first pass of all is the
\* one that was asked for or an analysis that it needs, and every pass but -cdg
\* leaves a graph behind.
OrderInv ==
    /\ request \in Requests /\ todo \in Seq(Passes) /\ available \subseteq Analyses
    /\ built \in BOOLEAN /\ crashed \in BOOLEAN
    /\ Ordered(queue, available)
    /\ todo # <<>> => ~built /\ ~crashed
    /\ queue = <<>> /\ ~built /\ ~crashed => todo = request /\ available = {}
    /\ queue # <<>> /\ ~built /\ ~crashed => (Head(queue) = "cdg" <=> request[1] = "cdg")
    /\ built => request[1] # "cdg"
    /\ crashed => request[1] = "cdg"
    /\ \A p \in Once : Ran(p) => built

LEMMA OrderInvInit == ASSUME Init PROVE OrderInv
<1>1. request \in Requests /\ request \in Seq(Passes) /\ request # <<>>
  BY RequestsAssumption DEF Init
<1>2. Ordered(<<>>, {})
  BY DEF Ordered, Scheduled
<1> QED
  BY <1>1, <1>2 DEF Init, OrderInv, Ran

LEMMA TodoTyped ==
    ASSUME OrderInv, todo # <<>>
    PROVE  Head(todo) \in Passes /\ Tail(todo) \in Seq(Passes)
BY HeadTailProperties DEF OrderInv

LEMMA NewTyped == ASSUME NEW p \in Passes PROVE New(p) \in Seq(Passes)
<1>1. Unless("ddg") \in Seq(Passes) /\ Unless("pdg") \in Seq(Passes) /\ Unless(p) \in Seq(Passes)
  BY UnlessTyped DEF Passes
<1>2. Required(p) \in Seq(Passes)
  <2>1. Unless("ddg") \o Unless("pdg") \in Seq(Passes)
    BY <1>1, ConcatProperties
  <2>2. <<>> \in Seq(Passes)
    OBVIOUS
  <2> QED
    BY <1>1, <2>1, <2>2 DEF Required
<1> QED
  BY <1>1, <1>2, ConcatProperties DEF New

LEMMA HeadOfConcat ==
    ASSUME NEW q \in Seq(Passes), NEW r \in Seq(Passes), q # <<>>
    PROVE  q \o r # <<>> /\ Head(q \o r) = Head(q)
<1>1. Len(q) \in Nat \ {0} /\ Len(r) \in Nat
  BY EmptySeq, LenProperties
<1>2. Len(q \o r) = Len(q) + Len(r) /\ q \o r \in Seq(Passes)
  BY ConcatProperties
<1>3. 1 \in 1 .. Len(q) + Len(r) /\ 1 <= Len(q) /\ Len(q \o r) # 0
  BY <1>1, <1>2
<1>4. (q \o r)[1] = q[1]
  BY <1>3, ConcatProperties
<1>5. q \o r # <<>>
  BY <1>3
<1> QED
  BY <1>4, <1>5

\* The first pass to be scheduled brings one along that builds the graph, unless
\* it is -cdg.
LEMMA FirstNew ==
    ASSUME NEW p \in Passes, available = {}
    PROVE  New(p) # <<>> /\ (Head(New(p)) = "cdg" <=> p = "cdg")
<1>1. \A q : Unless(q) = <<q>>
  BY DEF Unless
<1>5. <<"ddg">> \in Seq(Passes) /\ <<"pdg">> \in Seq(Passes) /\ Unless(p) \in Seq(Passes)
  BY UnlessTyped DEF Passes
<1>6. <<"ddg">> # <<>> /\ Head(<<"ddg">>) = "ddg"
  OBVIOUS
<1>2. CASE p = "minizinc"
  <2> DEFINE u == <<"ddg">> \o <<"pdg">>
  <2>1. New(p) = u \o Unless(p)
    BY <1>1, <1>2 DEF New, Required
  <2>2. u \in Seq(Passes) /\ u # <<>> /\ Head(u) = "ddg"
    BY <1>5, <1>6, HeadOfConcat, ConcatProperties
  <2> HIDE DEF u
  <2>3. New(p) # <<>> /\ Head(New(p)) = "ddg"
    BY <1>5, <2>1, <2>2, HeadOfConcat
  <2> QED
    BY <1>2, <2>3
<1>3. CASE p = "pdg"
  <2>1. New(p) = <<"ddg">> \o Unless(p)
    BY <1>1, <1>3 DEF New, Required
  <2>2. New(p) # <<>> /\ Head(New(p)) = "ddg"
    BY <1>5, <1>6, <2>1, HeadOfConcat
  <2> QED
    BY <1>3, <2>2
<1>4. CASE p \in {"ddg", "cdg"}
  <2>1. New(p) = <<>> \o <<p>>
    BY <1>1, <1>4 DEF New, Required
  <2>2. New(p) = <<p>>
    BY <2>1
  <2> QED
    BY <1>4, <2>2
<1> QED
  BY <1>2, <1>3, <1>4 DEF Passes

\* What was scheduled stays so.
LEMMA ScheduledConcat ==
    ASSUME NEW q \in Seq(Passes), NEW r \in Seq(Passes)
    PROVE  Scheduled(q \o r) = Scheduled(q) \cup Scheduled(r)
<1> DEFINE m == Len(q)
           n == Len(r)
           s == q \o r
<1>1. m \in Nat /\ n \in Nat /\ s \in Seq(Passes) /\ Len(s) = m + n
  BY LenProperties, ConcatProperties
<1>2. \A i \in 1 .. m + n : s[i] = IF i <= m THEN q[i] ELSE r[i - m]
  BY ConcatProperties
<1>3. /\ Scheduled(q) = {q[i] : i \in 1 .. m} /\ Scheduled(r) = {r[i] : i \in 1 .. n}
      /\ Scheduled(s) = {s[i] : i \in 1 .. m + n}
  BY <1>1, ScheduledIs
<1> HIDE DEF m, n, s
<1>4. Scheduled(s) \subseteq Scheduled(q) \cup Scheduled(r)
  <2> SUFFICES ASSUME NEW i \in 1 .. m + n PROVE s[i] \in Scheduled(q) \cup Scheduled(r)
    BY <1>3
  <2>1. i \in 1 .. m \/ (~(i <= m) /\ i - m \in 1 .. n)
    BY <1>1
  <2>2. i \in 1 .. m => i <= m
    BY <1>1
  <2> QED
    BY <1>2, <1>3, <2>1, <2>2
<1>5. Scheduled(q) \subseteq Scheduled(s)
  <2> SUFFICES ASSUME NEW i \in 1 .. m PROVE q[i] \in Scheduled(s)
    BY <1>3
  <2>1. i \in 1 .. m + n /\ i <= m
    BY <1>1
  <2>2. s[i] = q[i]
    BY <1>2, <2>1
  <2> QED
    BY <1>3, <2>1, <2>2
<1>6. Scheduled(r) \subseteq Scheduled(s)
  <2> SUFFICES ASSUME NEW i \in 1 .. n PROVE r[i] \in Scheduled(s)
    BY <1>3
  <2>1. i + m \in 1 .. m + n /\ ~(i + m <= m) /\ (i + m) - m = i
    BY <1>1
  <2>2. s[i + m] = r[i]
    BY <1>2, <2>1
  <2> QED
    BY <1>3, <2>1, <2>2
<1> QED
  BY <1>4, <1>5, <1>6 DEF s


\* The pass that comes to run finds that what it needs has been run, and it is
\* the last of its kind when once is enough.
LEMMA OrderedTail ==
    ASSUME NEW q, NEW av, Ordered(q, av), q # <<>>
    PROVE  /\ Ordered(Tail(q), av) /\ Head(q) \in Passes
           /\ \A p \in Need(Head(q)) : p \in av /\ p \notin Scheduled(q)
           /\ Scheduled(q) = {Head(q)} \cup Scheduled(Tail(q))
           /\ Head(q) \in Once => Head(q) \notin Scheduled(Tail(q)) /\ Head(q) \in av
<1> DEFINE t == Tail(q)
           n == Len(q)
<1>1. q \in Seq(Passes) /\ n \in Nat \ {0}
  BY EmptySeq DEF Ordered
<1>2. /\ t \in Seq(Passes) /\ Len(t) = n - 1 /\ \A i \in 1 .. n - 1 : t[i] = q[i + 1]
      /\ Head(q) = q[1] /\ Head(q) \in Passes
  BY <1>1, HeadTailProperties
<1>3. /\ Once \cap Scheduled(q) \subseteq av
      /\ \A i, j \in 1 .. n : q[i] = q[j] /\ q[i] \in Once => i = j
      /\ \A i \in 1 .. n : \A o \in Need(q[i]) :
            o \in av /\ \A j \in 1 .. n : q[j] = o => j < i
  BY DEF Ordered
<1>4. Scheduled(q) = {q[i] : i \in 1 .. n}
  BY <1>1, ScheduledIs
<1>5. Scheduled(t) = {t[i] : i \in 1 .. n - 1}
  BY <1>2, ScheduledIs
<1> HIDE DEF t, n
<1>6. /\ \A i \in 1 .. n - 1 : i + 1 \in 1 .. n /\ i + 1 # 1
      /\ \A i \in 1 .. n : i = 1 \/ (i - 1 \in 1 .. n - 1 /\ (i - 1) + 1 = i)
      /\ 1 \in 1 .. n
      /\ \A i, j \in 1 .. n - 1 : (i + 1 = j + 1 => i = j) /\ (i + 1 < j + 1 => i < j)
  BY <1>1
<1>7. Scheduled(q) = {Head(q)} \cup Scheduled(t)
  <2>1. Scheduled(q) \subseteq {Head(q)} \cup Scheduled(t)
    <3> SUFFICES ASSUME NEW i \in 1 .. n PROVE q[i] = q[1] \/ q[i] \in Scheduled(t)
      BY <1>2, <1>4
    <3>1. CASE i # 1
      <4>1. i - 1 \in 1 .. n - 1 /\ (i - 1) + 1 = i
        BY <1>6, <3>1
      <4>2. q[i] = t[i - 1]
        BY <1>2, <4>1
      <4> QED
        BY <1>5, <4>1, <4>2
    <3> QED
      BY <3>1
  <2>2. Scheduled(t) \subseteq Scheduled(q)
    BY <1>2, <1>4, <1>5, <1>6
  <2>3. Head(q) \in Scheduled(q)
    BY <1>2, <1>4, <1>6
  <2> QED
    BY <2>1, <2>2, <2>3
<1>8. \A i, j \in 1 .. n - 1 : t[i] = t[j] /\ t[i] \in Once => i = j
  <2> TAKE i, j \in 1 .. n - 1
  <2>1. /\ i + 1 \in 1 .. n /\ j + 1 \in 1 .. n /\ (i + 1 = j + 1 => i = j)
        /\ t[i] = q[i + 1] /\ t[j] = q[j + 1]
    BY <1>2, <1>6
  <2>2. q[i + 1] = q[j + 1] /\ q[i + 1] \in Once => i + 1 = j + 1
    BY <1>3, <2>1
  <2> QED
    BY <2>1, <2>2
<1>9. \A i \in 1 .. n - 1 : \A o \in Need(t[i]) :
          o \in av /\ \A j \in 1 .. n - 1 : t[j] = o => j < i
  <2> TAKE i \in 1 .. n - 1
  <2>1. i + 1 \in 1 .. n /\ t[i] = q[i + 1]
    BY <1>2, <1>6
  <2> SUFFICES ASSUME NEW o \in Need(q[i + 1])
               PROVE  o \in av /\ \A j \in 1 .. n - 1 : t[j] = o => j < i
    BY <2>1
  <2>2. o \in av /\ \A j \in 1 .. n : q[j] = o => j < i + 1
    BY <1>3, <2>1
  <2>3. ASSUME NEW j \in 1 .. n - 1, t[j] = o PROVE j < i
    <3>1. j + 1 \in 1 .. n /\ q[j + 1] = o
      BY <1>2, <1>6, <2>3
    <3> QED
      BY <1>6, <2>2, <3>1
  <2> QED
    BY <2>2, <2>3
<1>10. ASSUME NEW p \in Need(Head(q)) PROVE p \in av /\ p \notin Scheduled(q)
  <2>1. p \in av /\ \A j \in 1 .. n : q[j] = p => j < 1
    BY <1>2, <1>3, <1>6, <1>10
  <2>2. \A j \in 1 .. n : ~(j < 1)
    BY <1>1
  <2> QED
    BY <1>4, <2>1, <2>2
<1>11. ASSUME Head(q) \in Once PROVE Head(q) \notin Scheduled(t) /\ Head(q) \in av
  <2>1. \A i \in 1 .. n - 1 : t[i] # Head(q)
    <3> TAKE i \in 1 .. n - 1
    <3>1. i + 1 \in 1 .. n /\ t[i] = q[i + 1] /\ i + 1 # 1
      BY <1>2, <1>6
    <3> QED
      BY <1>2, <1>3, <1>6, <1>11, <3>1
  <2> QED
    BY <1>3, <1>5, <1>7, <1>11, <2>1
<1>12. Once \cap Scheduled(t) \subseteq av
  BY <1>3, <1>7
<1>13. Ordered(t, av)
  BY <1>2, <1>8, <1>9, <1>12 DEF Ordered
<1> QED
  BY <1>2, <1>7, <1>10, <1>11, <1>13 DEF t

\* A pass that was run leaves a graph, unless it was -cdg, which fails without.
LEMMA OrderInvRun ==
    ASSUME OrderInv, NEW p, Runs(p), Done, crashed' \in BOOLEAN, built' \in BOOLEAN,
           p \in {"ddg", "pdg"} => built' = TRUE,
           p = "cdg" => built' = built /\ crashed' = ~built,
           p = "minizinc" => built' = built,
           p # "cdg" => crashed' = crashed
    PROVE  OrderInv'
<1>1. /\ queue # <<>> /\ p = Head(queue) /\ queue' = Tail(queue) /\ ~crashed /\ todo = <<>>
      /\ request' = request /\ todo' = todo /\ available' = available
  BY DEF Runs, Done
<1>2. /\ Ordered(queue', available') /\ p \in Passes
      /\ \A o \in Need(p) : o \in available /\ o \notin Scheduled(queue)
      /\ Scheduled(queue) = {p} \cup Scheduled(queue')
  BY <1>1, OrderedTail DEF OrderInv
<1>3. Ordered(queue, available)'
  BY <1>2 DEF Ordered, Scheduled
<1>4. CASE p \in {"ddg", "pdg"}
  <2>1. ~built => request[1] # "cdg"
    BY <1>1, <1>4 DEF OrderInv
  <2> QED
    BY <1>1, <1>3, <1>4, <2>1 DEF OrderInv
<1>5. CASE p = "minizinc"
  <2>1. Ran("pdg")
    BY <1>2, <1>5 DEF Need, Ran
  <2>2. built /\ built'
    BY <1>5, <2>1 DEF OrderInv, Once
  <2> QED
    BY <1>1, <1>3, <1>5, <2>2 DEF OrderInv
<1>6. CASE p = "cdg"
  <2>1. CASE built
    BY <1>1, <1>3, <1>6, <2>1 DEF OrderInv
  <2>2. CASE ~built
    <3>1. request[1] = "cdg" /\ crashed' /\ ~built'
      BY <1>1, <1>6, <2>2 DEF OrderInv
    <3>2. \A o \in Once : ~Ran(o)'
      <4> TAKE o \in Once
      <4>1. ~Ran(o)
        BY <2>2 DEF OrderInv
      <4> QED
        BY <1>1, <1>2, <1>6, <4>1 DEF Ran, Once, Scheduled
    <3> QED
      BY <1>1, <1>3, <3>1, <3>2 DEF OrderInv
  <2> QED
    BY <2>1, <2>2
<1> QED
  BY <1>2, <1>4, <1>5, <1>6 DEF Passes

LEMMA OrderInvSchedule == ASSUME OrderInv, Schedule PROVE OrderInv'
<1> DEFINE p   == Head(todo)
           new == New(p)
<1>1. /\ todo # <<>> /\ todo' = Tail(todo) /\ queue' = queue \o new
      /\ available' = (IF Scheduled(new) \subseteq {"cdg"} THEN available ELSE available \ {"cdg"})
                      \cup (Scheduled(new) \cap Analyses)
      /\ UNCHANGED <<request, built, edges, exports, crashed>>
  BY DEF Schedule, graph
<1>2. p \in Passes /\ todo' \in Seq(Passes) /\ ~built /\ ~crashed
  BY <1>1, TodoTyped DEF OrderInv
<1>3. new \in Seq(Passes) /\ queue \in Seq(Passes)
  BY <1>2, NewTyped DEF OrderInv, Ordered
<1> DEFINE av == available \cup Need(p) \cup {p} \cup (IF p = "minizinc" THEN {"ddg"} ELSE {})
<1>4. Ordered(queue \o new, av)
  BY <1>2, OrderedNew DEF OrderInv
<1>5. Once \cap Scheduled(new) = (Once \cap av) \ available
  <2>1. \A q : Scheduled(Unless(q)) = IF q \in available THEN {} ELSE {q}
    BY DEF Scheduled, Unless
  <2>2. Unless("ddg") \in Seq(Passes) /\ Unless("pdg") \in Seq(Passes) /\ Unless(p) \in Seq(Passes)
    BY <1>2, UnlessTyped DEF Passes
  <2>3. Scheduled(Unless("ddg") \o Unless("pdg")) = {"ddg", "pdg"} \ available
    BY <2>1, <2>2, ScheduledConcat
  <2>4. Unless("ddg") \o Unless("pdg") \in Seq(Passes)
    BY <2>2, ConcatProperties
  <2>5. Scheduled(<<>>) = {} /\ <<>> \in Seq(Passes)
    BY DEF Scheduled
  <2>6. CASE p = "minizinc"
    <3>1. Required(p) \in Seq(Passes) /\ Scheduled(Required(p)) = {"ddg", "pdg"} \ available
      BY <2>3, <2>4, <2>6 DEF Required
    <3>2. Scheduled(new) = Scheduled(Required(p)) \cup Scheduled(Unless(p))
      BY <2>2, <3>1, ScheduledConcat DEF New
    <3> QED
      BY <2>1, <2>6, <3>1, <3>2 DEF Once, Need
  <2>7. CASE p = "pdg"
    <3>1. Required(p) \in Seq(Passes) /\ Scheduled(Required(p)) = {"ddg"} \ available
      BY <2>1, <2>2, <2>7 DEF Required
    <3>2. Scheduled(new) = Scheduled(Required(p)) \cup Scheduled(Unless(p))
      BY <2>2, <3>1, ScheduledConcat DEF New
    <3> QED
      BY <2>1, <2>7, <3>1, <3>2 DEF Once, Need
  <2>8. CASE p \in {"ddg", "cdg"}
    <3>1. Required(p) \in Seq(Passes) /\ Scheduled(Required(p)) = {}
      BY <2>5, <2>8 DEF Required
    <3>2. Scheduled(new) = Scheduled(Required(p)) \cup Scheduled(Unless(p))
      BY <2>2, <3>1, ScheduledConcat DEF New
    <3> QED
      BY <2>1, <2>8, <3>1, <3>2 DEF Once, Need
  <2> QED
    BY <1>2, <2>6, <2>7, <2>8 DEF Passes
<1> HIDE DEF new, p
<1>6. Once \cap av = Once \cap available'
  BY <1>1, <1>5 DEF Once, Analyses, av
<1>7. Ordered(queue', available')
  BY <1>1, <1>4, <1>6, OrderedAvailable
<1>8. Ordered(queue, available)'
  BY <1>7 DEF Ordered, Scheduled
<1>9. available' \subseteq Analyses
  BY <1>1 DEF OrderInv
<1>10. queue' # <<>> /\ (Head(queue') = "cdg" <=> request[1] = "cdg")
  <2>1. CASE queue = <<>>
    <3>1. todo = request /\ available = {}
      BY <1>2, <2>1 DEF OrderInv
    <3>2. new # <<>> /\ (Head(new) = "cdg" <=> p = "cdg")
      BY <1>2, <3>1, FirstNew DEF new
    <3>3. queue' = new
      BY <1>1, <1>3, <2>1, ConcatEmptySeq
    <3>4. p = request[1]
      BY <3>1 DEF p
    <3> QED
      BY <3>2, <3>3, <3>4
  <2>2. CASE queue # <<>>
    BY <1>1, <1>2, <1>3, <2>2, HeadOfConcat DEF OrderInv
  <2> QED
    BY <2>1, <2>2
<1>11. \A o \in Once : ~Ran(o)'
  <2> TAKE o \in Once
  <2>1. o \notin available \/ o \in Scheduled(queue)
    BY <1>2 DEF OrderInv, Ran
  <2>2. Scheduled(queue') = Scheduled(queue) \cup Scheduled(new)
    BY <1>1, <1>3, ScheduledConcat
  <2>3. o \in available' => o \in available \/ o \in Scheduled(new)
    BY <1>1
  <2>4. o \in available' => o \in Scheduled(queue')
    BY <2>1, <2>2, <2>3
  <2> QED
    BY <2>4 DEF Ran, Scheduled
<1> QED
  BY <1>1, <1>2, <1>8, <1>9, <1>10, <1>11 DEF OrderInv


LEMMA OrderInvNext == ASSUME OrderInv, [Next]_vars PROVE OrderInv'
<1>1. CASE Schedule
  BY <1>1, OrderInvSchedule
<1>2. CASE RunDdg
  BY <1>2, OrderInvRun DEF RunDdg, OrderInv
<1>3. CASE RunCdg
  <2>1. crashed' = ~built
    BY <1>3 DEF RunCdg, OrderInv, Runs
  <2> QED
    BY <1>3, <2>1, OrderInvRun DEF RunCdg, OrderInv
<1>4. CASE RunPdg
  BY <1>4, OrderInvRun DEF RunPdg, OrderInv
<1>5. CASE RunMinizinc
  BY <1>5, OrderInvRun DEF RunMinizinc, OrderInv
<1>6. CASE UNCHANGED vars
  BY <1>6 DEF vars, OrderInv, Ordered, Ran, Scheduled
<1> QED
  BY <1>1, <1>2, <1>3, <1>4, <1>5, <1>6 DEF Next

LEMMA FirstFails == ASSUME OrderInv PROVE OnlyCdgFirstFails
<1>1. todo = <<>> => todo # request
  BY RequestsAssumption DEF OrderInv
<1> QED
  BY <1>1 DEF OrderInv, OnlyCdgFirstFails

-----------------------------------------------------------------------------
(* The graph the passes leave. *)

Image(S) == {Relabelled(e) : e \in S}

IsSequence(s) == \E S : s \in Seq(S)

\* Until the first export the graph holds what was added and is the whole one
\* once -pdg has run; from then on it is the whole one up to what an export
\* changes.
GraphInv ==
    /\ ~built => edges = EmptyBag
    /\ exports = <<>> =>
          /\ BagToSet(edges) \subseteq Whole
          /\ built => TreeEdges \subseteq BagToSet(edges)
          /\ Ran("ddg") => DataEdges \subseteq BagToSet(edges)
          /\ Ran("pdg") => Whole \subseteq BagToSet(edges)
    /\ exports # <<>> => Ran("pdg") /\ Image(BagToSet(edges)) = Image(Whole)
    /\ IsSequence(exports)
    /\ \A i \in DOMAIN exports : BagToSet(exports[i]) = Image(Whole)
    /\ \A e \in BagToSet(edges) : exports = <<>> \/ ~Annotating(e) => edges[e] = 1

LEMMA GraphInvInit == ASSUME Init PROVE GraphInv
<1>1. BagToSet(EmptyBag) = {}
  BY DEF EmptyBag, SetToBag, BagToSet
<1>2. IsSequence(<<>>)
  BY DEF IsSequence
<1> QED
  BY <1>1, <1>2 DEF Init, GraphInv, Ran

\* addNeighbor makes each edge be there once, if each was.
LEMMA AddedIs ==
    ASSUME NEW bag, NEW new
    PROVE  /\ BagToSet(Added(bag, new)) = BagToSet(bag) \cup new
           /\ \A e \in BagToSet(Added(bag, new)) :
                 (e \in BagToSet(bag) => bag[e] = 1) => Added(bag, new)[e] = 1
<1> DEFINE fresh == {e \in new : ~BagIn(e, bag)}
<1>1. /\ DOMAIN SetToBag(fresh) = fresh
      /\ \A e \in fresh : SetToBag(fresh)[e] = 1 /\ e \notin DOMAIN bag
  BY DEF SetToBag, BagIn, BagToSet
<1>2. Added(bag, new) = [e \in DOMAIN bag \cup fresh |->
                            (IF e \in DOMAIN bag THEN bag[e] ELSE 0)
                            + (IF e \in fresh THEN SetToBag(fresh)[e] ELSE 0)]
  BY <1>1 DEF Added, (+)
<1>3. DOMAIN bag \cup fresh = BagToSet(bag) \cup new
  BY DEF BagIn, BagToSet
<1> HIDE DEF fresh
<1>4. ASSUME NEW e \in DOMAIN bag \cup fresh, e \in DOMAIN bag => bag[e] = 1
      PROVE  Added(bag, new)[e] = 1
  <2>1. CASE e \in DOMAIN bag
    BY <1>1, <1>2, <1>4, <2>1
  <2>2. CASE e \notin DOMAIN bag
    BY <1>1, <1>2, <1>4, <2>2
  <2> QED
    BY <2>1, <2>2
<1> QED
  BY <1>2, <1>3, <1>4 DEF BagToSet

LEMMA BuiltIs ==
    ASSUME GraphInv
    PROVE  /\ BagToSet(Built(edges)) = BagToSet(edges) \cup (IF built THEN {} ELSE TreeEdges)
           /\ \A e \in BagToSet(Built(edges)) :
                 (e \in BagToSet(edges) => edges[e] = 1) => Built(edges)[e] = 1
<1>1. CASE built
  BY <1>1 DEF Built
<1>2. CASE ~built
  <2>1. Built(edges) = Added(edges, TreeEdges)
    BY <1>2 DEF Built
  <2> QED
    BY <1>2, <2>1, AddedIs
<1> QED
  BY <1>1, <1>2

LEMMA WholeFrozen == Whole' = Whole
BY DEF Whole, Followed

\* Aliases come from -ddg, so in a graph that has its edges those that -pdg
\* follows are the same ones.
LEMMA SameFollowed ==
    ASSUME NEW bag, DataEdges \subseteq BagToSet(bag), BagToSet(bag) \subseteq Whole
    PROVE  Followed(bag) = Followed(SetToBag(DataEdges))
<1>1. BagToSet(SetToBag(DataEdges)) = DataEdges
  BY DEF BagToSet, SetToBag
<1>2. \A e \in Followed(SetToBag(DataEdges)) : e[3] = "PARAMETER_IN"
  BY DEF Followed
<1>3. \A e \in BagToSet(bag) : e[3] = "DATA_ALIAS" => e \in DataEdges
  BY <1>2, EdgesAssumption DEF Whole
<1>4. \A v : {e \in BagToSet(bag) : e[1] = v /\ e[3] = "DATA_ALIAS"}
              = {e \in DataEdges : e[1] = v /\ e[3] = "DATA_ALIAS"}
  BY <1>3
<1> QED
  BY <1>1, <1>4 DEF Followed

LEMMA Idempotent == \A e : Relabelled(Relabelled(e)) = Relabelled(e)
<1> TAKE e
<1>1. CASE Annotating(e)
  <2>1. Relabelled(e) = <<e[1], e[2], "ANNO_VAR">>
    BY <1>1 DEF Relabelled
  <2>2. Annotating(Relabelled(e))
    BY <1>1, <2>1 DEF Annotating
  <2> QED
    BY <2>1, <2>2 DEF Relabelled
<1>2. CASE ~Annotating(e)
  BY <1>2 DEF Relabelled
<1> QED
  BY <1>1, <1>2

LEMMA ImageTwice == \A S : Image(Image(S)) = Image(S)
BY Idempotent DEF Image

LEMMA ImageUnion == \A S, T : Image(S \cup T) = Image(S) \cup Image(T)
BY DEF Image

\* Adding to the graph what is in it, up to what an export changes, or belongs to
\* the whole.
LEMMA GraphInvAdd ==
    ASSUME OrderInv, GraphInv, ~crashed, todo = <<>>,
           NEW p, Runs(p), Done, UNCHANGED <<exports, crashed>>,
           built' \in BOOLEAN, built => built', built',
           NEW new, new \subseteq Whole,
           BagToSet(edges') = BagToSet(edges) \cup new,
           \A e \in BagToSet(edges') : (e \in BagToSet(edges) => edges[e] = 1) => edges'[e] = 1,
           ~built => TreeEdges \subseteq new,
           p \in {"ddg", "pdg", "cdg"},
           p = "ddg" => DataEdges \subseteq new,
           p = "pdg" /\ exports = <<>> => Whole \subseteq BagToSet(edges')
    PROVE  GraphInv'
<1>1. /\ queue # <<>> /\ p = Head(queue) /\ queue' = Tail(queue) /\ available' = available
      /\ Scheduled(queue) = {p} \cup Scheduled(queue')
  BY OrderedTail DEF Runs, Done, OrderInv
<1>2. \A o : Ran(o)' => Ran(o) \/ o = p
  BY <1>1 DEF Ran, Scheduled
<1>3. \A o : Ran(o) => Ran(o)'
  BY <1>1 DEF Ran, Scheduled
<1>4. Whole' = Whole /\ \A S : Image(S)' = Image(S)
  BY WholeFrozen DEF Image, Relabelled, Annotating
<1>5. exports # <<>> => Image(BagToSet(edges')) = Image(Whole)
  <2>1. Image(new) \subseteq Image(Whole)
    BY DEF Image
  <2>2. exports # <<>> => Image(BagToSet(edges)) = Image(Whole)
    BY DEF GraphInv
  <2>3. Image(BagToSet(edges) \cup new) = Image(BagToSet(edges)) \cup Image(new)
    BY ImageUnion
  <2> QED
    BY <2>1, <2>2, <2>3
<1>6. \A e \in BagToSet(edges') : exports = <<>> \/ ~Annotating(e) => edges'[e] = 1
  BY DEF GraphInv
<1>7. exports = <<>> =>
          /\ BagToSet(edges') \subseteq Whole
          /\ TreeEdges \subseteq BagToSet(edges')
          /\ Ran("ddg")' => DataEdges \subseteq BagToSet(edges')
          /\ Ran("pdg")' => Whole \subseteq BagToSet(edges')
  BY <1>2 DEF GraphInv
<1>8. BagToSet(edges)' = BagToSet(edges') /\ \A e : Annotating(e)' = Annotating(e)
  BY DEF BagToSet, Annotating
<1>9. /\ exports' # <<>> => Ran("pdg")'
      /\ IsSequence(exports')
      /\ \A i \in DOMAIN exports' : BagToSet(exports'[i]) = Image(Whole)
  BY <1>3 DEF GraphInv
<1>10. /\ IsSequence(exports)' = IsSequence(exports')
       /\ \A i : BagToSet(exports[i])' = BagToSet(exports'[i])
  BY DEF IsSequence, BagToSet
<1> QED
  BY <1>4, <1>5, <1>6, <1>7, <1>8, <1>9, <1>10 DEF GraphInv


\* An export changes types and no edge comes or goes; what is not annotated is
\* left alone.
LEMMA ExportIs ==
    ASSUME RunMinizinc
    PROVE  /\ BagToSet(edges') = Image(BagToSet(edges))
           /\ \A e \in BagToSet(edges') :
                 ~Annotating(e) => e \in BagToSet(edges) /\ (edges[e] = 1 => edges'[e] = 1)
<1> DEFINE there == {e \in BagToSet(edges) : Annotating(e)}
           kept  == Restrict(edges, BagToSet(edges) \ there)
           moved == BagOfAll(Relabelled, Restrict(edges, there))
<1>1. edges' = kept (+) moved
  BY DEF RunMinizinc
<1>2. /\ DOMAIN kept = BagToSet(edges) \ there
      /\ \A e \in DOMAIN kept : kept[e] = edges[e]
  BY DEF Restrict, BagToSet
<1>3. DOMAIN Restrict(edges, there) = there
  BY DEF Restrict, BagToSet
<1>4. DOMAIN moved = {Relabelled(e) : e \in there}
  BY <1>3 DEF BagOfAll, BagToSet
<1> HIDE DEF kept, moved
<1>5. edges' = [e \in DOMAIN kept \cup DOMAIN moved |->
                   (IF e \in DOMAIN kept THEN kept[e] ELSE 0)
                   + (IF e \in DOMAIN moved THEN moved[e] ELSE 0)]
  BY <1>1 DEF (+)
<1>6. \A e \in DOMAIN kept : ~Annotating(e) /\ Relabelled(e) = e
  BY <1>2 DEF Relabelled
<1>7. \A e \in DOMAIN moved : Annotating(e)
  <2> SUFFICES ASSUME NEW e \in there PROVE Annotating(Relabelled(e))
    BY <1>4
  <2>1. Relabelled(e) = <<e[1], e[2], "ANNO_VAR">> /\ Annotating(e)
    BY DEF Relabelled
  <2> QED
    BY <2>1 DEF Annotating
<1>8. DOMAIN kept \cup DOMAIN moved = Image(BagToSet(edges))
  BY <1>2, <1>4, <1>6 DEF Image
<1>9. BagToSet(edges') = DOMAIN kept \cup DOMAIN moved
  BY <1>5 DEF BagToSet
<1>10. ASSUME NEW e \in BagToSet(edges'), ~Annotating(e)
       PROVE  e \in BagToSet(edges) /\ (edges[e] = 1 => edges'[e] = 1)
  <2>1. e \in DOMAIN kept /\ e \notin DOMAIN moved
    BY <1>7, <1>9, <1>10
  <2>2. edges'[e] = kept[e] + 0
    BY <1>5, <2>1
  <2> QED
    BY <1>2, <2>1, <2>2
<1> QED
  BY <1>8, <1>9, <1>10

LEMMA Appended ==
    ASSUME NEW s, IsSequence(s), NEW e
    PROVE  /\ IsSequence(Append(s, e)) /\ Append(s, e) # <<>>
           /\ \A i \in DOMAIN Append(s, e) : Append(s, e)[i] = e
                                             \/ (i \in DOMAIN s /\ Append(s, e)[i] = s[i])
<1>1. PICK S : s \in Seq(S)
  BY DEF IsSequence
<1> DEFINE T == S \cup {e}
           r == Append(s, e)
           n == Len(s)
<1>2. s \in Seq(T) /\ e \in T
  BY <1>1, SeqMonotonic
<1>3. n \in Nat /\ DOMAIN s = 1 .. n
  BY <1>1, LenProperties
<1>4. r \in Seq(T) /\ Len(r) = n + 1 /\ r # <<>> /\ r[n + 1] = e /\ \A i \in 1 .. n : r[i] = s[i]
  BY <1>2, AppendProperties
<1>5. DOMAIN r = 1 .. n + 1
  BY <1>4, LenProperties
<1> HIDE DEF n, r, T
<1>6. \A i \in 1 .. n + 1 : i \in 1 .. n \/ i = n + 1
  BY <1>3
<1>7. \A i \in DOMAIN r : r[i] = e \/ (i \in DOMAIN s /\ r[i] = s[i])
  BY <1>3, <1>4, <1>5, <1>6
<1>8. IsSequence(r)
  BY <1>4 DEF IsSequence
<1> QED
  BY <1>4, <1>7, <1>8 DEF r

LEMMA GraphInvExport == ASSUME OrderInv, GraphInv, RunMinizinc PROVE GraphInv'
<1>1. /\ queue # <<>> /\ Head(queue) = "minizinc" /\ queue' = Tail(queue) /\ available' = available
      /\ exports' = Append(exports, edges') /\ built' = built /\ UNCHANGED crashed
  BY DEF RunMinizinc, Runs, Done
<1>2. /\ Scheduled(queue) = {"minizinc"} \cup Scheduled(queue')
      /\ \A o \in Need("minizinc") : o \in available /\ o \notin Scheduled(queue)
  BY <1>1, OrderedTail DEF OrderInv
<1>3. Ran("pdg") /\ Ran("pdg")' /\ built
  <2>1. Ran("pdg")
    BY <1>2 DEF Need, Ran
  <2>2. Ran("pdg")'
    BY <1>1, <1>2, <2>1 DEF Ran, Scheduled
  <2> QED
    BY <2>1, <2>2 DEF OrderInv, Once
<1>4. Image(BagToSet(edges)) = Image(Whole)
  <2>1. CASE exports = <<>>
    <3>1. BagToSet(edges) \subseteq Whole /\ Whole \subseteq BagToSet(edges)
      BY <1>3, <2>1 DEF GraphInv
    <3>2. BagToSet(edges) = Whole
      BY <3>1
    <3> QED
      BY <3>2
  <2>2. CASE exports # <<>>
    BY <2>2 DEF GraphInv
  <2> QED
    BY <2>1, <2>2
<1>5. Image(BagToSet(edges')) = Image(Whole) /\ BagToSet(edges') = Image(Whole)
  BY <1>4, ExportIs, ImageTwice
<1>6. Whole' = Whole /\ \A S : Image(S)' = Image(S)
  BY WholeFrozen DEF Image, Relabelled, Annotating
<1>7. /\ IsSequence(exports') /\ exports' # <<>>
      /\ \A i \in DOMAIN exports' :
            exports'[i] = edges' \/ (i \in DOMAIN exports /\ exports'[i] = exports[i])
  BY <1>1, Appended DEF GraphInv
<1>8. \A i \in DOMAIN exports' : BagToSet(exports'[i]) = Image(Whole)
  BY <1>5, <1>7 DEF GraphInv
<1>9. \A e \in BagToSet(edges') : ~Annotating(e) => edges'[e] = 1
  BY ExportIs DEF GraphInv
<1>10. /\ BagToSet(edges)' = BagToSet(edges') /\ \A e : Annotating(e)' = Annotating(e)
       /\ IsSequence(exports)' = IsSequence(exports')
       /\ \A i : BagToSet(exports[i])' = BagToSet(exports'[i])
  BY DEF IsSequence, BagToSet, Annotating
<1> QED
  BY <1>1, <1>3, <1>5, <1>6, <1>7, <1>8, <1>9, <1>10 DEF GraphInv


LEMMA GraphInvDdg == ASSUME OrderInv, GraphInv, RunDdg PROVE GraphInv'
<1> DEFINE new == DataEdges \cup (IF built THEN {} ELSE TreeEdges)
<1>1. /\ Runs("ddg") /\ Done /\ UNCHANGED <<exports, crashed>> /\ built' = TRUE
      /\ ~crashed /\ todo = <<>> /\ edges' = Added(Built(edges), DataEdges)
  BY DEF RunDdg, Runs
<1>2. BagToSet(edges') = BagToSet(edges) \cup new
  BY <1>1, AddedIs, BuiltIs
<1>3. \A e \in BagToSet(edges') : (e \in BagToSet(edges) => edges[e] = 1) => edges'[e] = 1
  <2>1. \A e \in BagToSet(Built(edges)) :
           (e \in BagToSet(edges) => edges[e] = 1) => Built(edges)[e] = 1
    BY BuiltIs
  <2>2. \A e \in BagToSet(edges') :
           (e \in BagToSet(Built(edges)) => Built(edges)[e] = 1) => edges'[e] = 1
    BY <1>1, AddedIs
  <2> QED
    BY <2>1, <2>2
<1>4. new \subseteq Whole
  BY DEF Whole
<1>5. built' \in BOOLEAN /\ built' /\ (~built => TreeEdges \subseteq new) /\ DataEdges \subseteq new
  BY <1>1
<1> HIDE DEF new
<1> QED
  BY <1>1, <1>2, <1>3, <1>4, <1>5, GraphInvAdd

LEMMA GraphInvPdg == ASSUME OrderInv, GraphInv, RunPdg PROVE GraphInv'
<1> DEFINE before == Added(Built(edges), ControlEdges)
           links  == LinkEdges \cup Followed(before)
           new    == ControlEdges \cup links \cup (IF built THEN {} ELSE TreeEdges)
<1>1. /\ Runs("pdg") /\ Done /\ UNCHANGED <<exports, crashed>> /\ built' = TRUE
      /\ ~crashed /\ todo = <<>> /\ edges' = Added(before, links)
      /\ queue # <<>> /\ Head(queue) = "pdg"
  BY DEF RunPdg, Runs
<1>2. Ran("ddg") /\ built
  <2>1. \A o \in Need("pdg") : o \in available /\ o \notin Scheduled(queue)
    BY <1>1, OrderedTail DEF OrderInv
  <2>2. Ran("ddg")
    BY <2>1 DEF Need, Ran
  <2> QED
    BY <2>2 DEF OrderInv, Once
<1>3. exports = <<>>
  <2>1. "pdg" \in Scheduled(queue)
    BY <1>1, OrderedTail DEF OrderInv
  <2> QED
    BY <2>1 DEF GraphInv, Ran
<1>4. /\ BagToSet(edges) \subseteq Whole /\ TreeEdges \subseteq BagToSet(edges)
      /\ DataEdges \subseteq BagToSet(edges)
  BY <1>2, <1>3 DEF GraphInv
<1>5. BagToSet(before) = BagToSet(edges) \cup ControlEdges
  BY <1>2, AddedIs, BuiltIs
<1>6. DataEdges \subseteq BagToSet(before) /\ BagToSet(before) \subseteq Whole
  BY <1>4, <1>5 DEF Whole
<1>7. Followed(before) = Followed(SetToBag(DataEdges))
  BY <1>6, SameFollowed
<1>8. BagToSet(edges') = BagToSet(before) \cup links
  BY <1>1, AddedIs
<1>9. \A e \in BagToSet(edges') : (e \in BagToSet(edges) => edges[e] = 1) => edges'[e] = 1
  <2>1. \A e \in BagToSet(Built(edges)) :
           (e \in BagToSet(edges) => edges[e] = 1) => Built(edges)[e] = 1
    BY BuiltIs
  <2>2. \A e \in BagToSet(before) :
           (e \in BagToSet(Built(edges)) => Built(edges)[e] = 1) => before[e] = 1
    BY AddedIs
  <2>3. \A e \in BagToSet(edges') :
           (e \in BagToSet(before) => before[e] = 1) => edges'[e] = 1
    BY <1>1, AddedIs
  <2> HIDE DEF before, links
  <2> QED
    BY <2>1, <2>2, <2>3
<1> HIDE DEF before
<1>10. BagToSet(edges') = BagToSet(edges) \cup new /\ new \subseteq Whole
  BY <1>2, <1>5, <1>7, <1>8 DEF Whole
<1>11. Whole \subseteq BagToSet(edges')
  BY <1>4, <1>5, <1>7, <1>8 DEF Whole
<1>12. built' \in BOOLEAN /\ built'
  BY <1>1
<1> HIDE DEF new, links
<1> QED
  BY <1>1, <1>2, <1>9, <1>10, <1>11, <1>12, GraphInvAdd

LEMMA GraphInvCdg == ASSUME OrderInv, GraphInv, RunCdg PROVE GraphInv'
<1>1. /\ Runs("cdg") /\ Done /\ UNCHANGED <<exports, built>>
      /\ ~crashed /\ todo = <<>> /\ queue # <<>> /\ Head(queue) = "cdg"
  BY DEF RunCdg, Runs
<1>2. CASE built
  <2>1. edges' = Added(edges, ControlEdges) /\ UNCHANGED crashed
    BY <1>2 DEF RunCdg
  <2>2. /\ BagToSet(edges') = BagToSet(edges) \cup ControlEdges
        /\ \A e \in BagToSet(edges') : (e \in BagToSet(edges) => edges[e] = 1) => edges'[e] = 1
    BY <2>1, AddedIs
  <2>3. ControlEdges \subseteq Whole /\ built' \in BOOLEAN /\ built'
    BY <1>1, <1>2 DEF Whole
  <2> QED
    BY <1>1, <1>2, <2>1, <2>2, <2>3, GraphInvAdd
<1>3. CASE ~built
  <2>1. UNCHANGED edges /\ queue' = Tail(queue) /\ available' = available
    BY <1>1, <1>3 DEF RunCdg, Done
  <2>2. Scheduled(queue) = {"cdg"} \cup Scheduled(queue')
    BY <1>1, <2>1, OrderedTail DEF OrderInv
  <2>3. \A o \in Once : Ran(o)' = Ran(o)
    BY <2>1, <2>2 DEF Ran, Scheduled, Once
  <2>4. Ran("ddg")' = Ran("ddg") /\ Ran("pdg")' = Ran("pdg")
    BY <2>3 DEF Once
  <2>5. Whole' = Whole /\ \A S : Image(S)' = Image(S)
    BY WholeFrozen DEF Image, Relabelled, Annotating
  <2>6. /\ BagToSet(edges)' = BagToSet(edges) /\ \A e : Annotating(e)' = Annotating(e)
        /\ IsSequence(exports)' = IsSequence(exports)
        /\ \A i : BagToSet(exports[i])' = BagToSet(exports[i])
    BY <1>1, <2>1 DEF IsSequence, BagToSet, Annotating
  <2> QED
    BY <1>1, <2>1, <2>4, <2>5, <2>6 DEF GraphInv
<1> QED
  BY <1>2, <1>3

LEMMA GraphInvNext == ASSUME OrderInv, OrderInv', GraphInv, [Next]_vars PROVE GraphInv'
<1>1. CASE Schedule
  <2>1. UNCHANGED <<built, edges, exports, crashed>> /\ todo # <<>>
    BY <1>1 DEF Schedule, graph
  <2>2. ~built /\ ~built'
    BY <2>1 DEF OrderInv
  <2>3. ~Ran("ddg") /\ ~Ran("pdg") /\ ~Ran("ddg")' /\ ~Ran("pdg")'
    BY <2>2 DEF OrderInv, Once
  <2>4. exports = <<>>
    BY <2>3 DEF GraphInv
  <2>5. Whole' = Whole /\ \A S : Image(S)' = Image(S)
    BY WholeFrozen DEF Image, Relabelled, Annotating
  <2>6. /\ BagToSet(edges)' = BagToSet(edges) /\ \A e : Annotating(e)' = Annotating(e)
        /\ IsSequence(exports)' = IsSequence(exports)
        /\ \A i : BagToSet(exports[i])' = BagToSet(exports[i])
    BY <2>1 DEF IsSequence, BagToSet, Annotating
  <2> QED
    BY <2>1, <2>2, <2>3, <2>4, <2>5, <2>6 DEF GraphInv
<1>2. CASE RunDdg \/ RunCdg \/ RunPdg \/ RunMinizinc
  BY <1>2, GraphInvDdg, GraphInvCdg, GraphInvPdg, GraphInvExport
<1>3. CASE UNCHANGED vars
  <2>1. UNCHANGED <<built, edges, exports, available, queue>>
    BY <1>3 DEF vars
  <2>2. Ran("ddg")' = Ran("ddg") /\ Ran("pdg")' = Ran("pdg")
    BY <2>1 DEF Ran, Scheduled
  <2>3. Whole' = Whole /\ \A S : Image(S)' = Image(S)
    BY WholeFrozen DEF Image, Relabelled, Annotating
  <2>4. /\ BagToSet(edges)' = BagToSet(edges) /\ \A e : Annotating(e)' = Annotating(e)
        /\ IsSequence(exports)' = IsSequence(exports)
        /\ \A i : BagToSet(exports[i])' = BagToSet(exports[i])
    BY <2>1 DEF IsSequence, BagToSet, Annotating
  <2> QED
    BY <2>1, <2>2, <2>3, <2>4 DEF GraphInv
<1> QED
  BY <1>1, <1>2, <1>3 DEF Next

-----------------------------------------------------------------------------
LEMMA OrderAlways == Spec => []OrderInv
BY OrderInvInit, OrderInvNext, PTL DEF Spec

LEMMA GraphAlways == Spec => []GraphInv
<1>1. OrderInv /\ GraphInv /\ [Next]_vars => (OrderInv /\ GraphInv)'
  BY OrderInvNext, GraphInvNext
<1>2. Init => OrderInv /\ GraphInv
  BY OrderInvInit, GraphInvInit
<1>3. Spec => [](OrderInv /\ GraphInv)
  BY <1>1, <1>2, PTL DEF Spec
<1> QED
  BY <1>3, PTL

\* Of all command lines exactly those that begin with -cdg fail: whatever else
\* comes first builds the graph, itself or by an analysis it requires.
THEOREM CdgFirstFails == Spec => []OnlyCdgFirstFails
BY OrderAlways, FirstFails, PTL

\* Every export, the second and later ones too, holds the edges of the whole
\* program and no other, for every command line and every graph of edges.
THEOREM ExportsComplete == Spec => []ExportComplete
<1>1. GraphInv => ExportComplete
  BY DEF GraphInv, ExportComplete, Image
<1> QED
  BY <1>1, GraphAlways, PTL

\* However often its pass runs, addNeighbor adds an edge once; only where an
\* export changed a type is the edge added a second time.
THEOREM EdgesOnce == Spec => []OnceEach
<1>1. GraphInv => OnceEach
  BY DEF GraphInv, OnceEach
<1> QED
  BY <1>1, GraphAlways, PTL
=============================================================================
