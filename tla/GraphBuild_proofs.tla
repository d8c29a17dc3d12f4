-------------------------- MODULE GraphBuild_proofs --------------------------
(***************************************************************************)
(* Proofs about the nodes that ProgramGraph::build makes and the labels it *)
(* gives them, for every module.                                           *)
(*                                                                         *)
(* The invariant speaks of what the loops have dealt with: the globals,    *)
(* the functions, the instructions and the entries of the array so far.    *)
(* What has a node, and the last label of a value, are stated over these   *)
(* sets, and at the end they are all there is.                             *)
(***************************************************************************)
EXTENDS GraphBuild, SequenceTheorems, TLAPS

Entry == [of : Func \cup Global, plain : BOOLEAN, label : Label]

\* What the invariant uses of a module.
ModuleOK ==
    /\ mod.funcs \in Seq(Func) /\ mod.globals \in Seq(Global) /\ mod.annos \in Seq(Entry)
    /\ \A f \in Func : \E i \in 1 .. Len(mod.funcs) : mod.funcs[i] = f
    /\ \A g \in Global : \E i \in 1 .. Len(mod.globals) : mod.globals[i] = g
    /\ \A i, j \in 1 .. Len(mod.funcs) : mod.funcs[i] = mod.funcs[j] => i = j
    /\ \A f \in Func : mod.body[f] \in Seq(Inst)
    /\ \A i \in Inst : mod.label[i] \in Label /\ mod.byInst[i] \in BOOLEAN

LEMMA ModuleTyped == ASSUME mod \in Modules PROVE ModuleOK
<1>1. WellFormed(mod) /\ mod \in ModuleRecord
  BY ModulesAssumption DEF WellFormed
<1>2. mod.funcs \in Seq(Func) /\ mod.globals \in Seq(Global) /\ mod.annos \in Seq(Entry)
  BY <1>1 DEF ModuleRecord, Entry
<1>3. DOMAIN mod.funcs = 1 .. Len(mod.funcs) /\ DOMAIN mod.globals = 1 .. Len(mod.globals)
  BY <1>2, LenProperties
<1>4. \A f \in Func : mod.body[f] \in Seq(Inst)
  BY <1>1 DEF ModuleRecord
<1>5. \A i \in Inst : mod.label[i] \in Label /\ mod.byInst[i] \in BOOLEAN
  BY <1>1 DEF ModuleRecord
<1>6. \A f \in Func : \E i \in 1 .. Len(mod.funcs) : mod.funcs[i] = f
  BY <1>1, <1>3 DEF WellFormed
<1>7. \A g \in Global : \E i \in 1 .. Len(mod.globals) : mod.globals[i] = g
  BY <1>1, <1>3 DEF WellFormed
<1>8. \A i, j \in 1 .. Len(mod.funcs) : mod.funcs[i] = mod.funcs[j] => i = j
  BY <1>1, <1>3 DEF WellFormed
<1> QED
  BY <1>2, <1>4, <1>5, <1>6, <1>7, <1>8 DEF ModuleOK

-----------------------------------------------------------------------------
(* How far the construction has come. *)

GlobalsDone ==
    IF pc = "globals" THEN {mod.globals[i] : i \in 1 .. cur - 1} ELSE Global

FuncsDone ==
    CASE pc = "globals"   -> {}
      [] pc = "functions" -> {mod.funcs[i] : i \in 1 .. cur - 1}
      [] OTHER            -> Func

Begun ==
    IF pc = "functions" /\ cur <= Len(mod.funcs) THEN {mod.body[F][i] : i \in 1 .. at - 1} ELSE {}

InstsBehind == UNION {InstsOf(f) : f \in FuncsDone}

InstsDone == InstsBehind \cup Begun

EntriesDone ==
    CASE pc = "annotations" -> 1 .. cur - 1
      [] pc = "done"        -> 1 .. Len(mod.annos)
      [] OTHER              -> {}

\* The place in the loops.
PlaceInv ==
    /\ mod \in Modules
    /\ pc \in {"globals", "functions", "annotations", "done", "crashed"}
    /\ cur \in Nat \ {0} /\ at \in Nat \ {0}
    /\ pc = "globals" => cur <= Len(mod.globals) + 1 /\ at = 1
    /\ pc = "functions" =>
          /\ cur <= Len(mod.funcs) + 1
          /\ IF cur <= Len(mod.funcs) THEN at <= Len(mod.body[F]) + 1 ELSE at = 1
    /\ pc = "annotations" => cur <= Len(mod.annos) + 1

TypeInv ==
    /\ type \in [Value \cup {Annotations} -> NodeType \cup {None}]
    /\ fn \in [Value \cup {Annotations} -> Func \cup {None}]
    /\ anno \in [Value \cup {Annotations} -> Label \cup {None}]
    /\ edges \subseteq Func \cup Global

LEMMA PlaceInit == ASSUME Init PROVE PlaceInv
<1>1. Len(mod.globals) \in Nat
  BY ModuleTyped, LenProperties DEF Init, ModuleOK
<1> QED
  BY <1>1 DEF Init, PlaceInv

LEMMA Lengths ==
    ASSUME PlaceInv
    PROVE  /\ Len(mod.globals) \in Nat /\ Len(mod.funcs) \in Nat /\ Len(mod.annos) \in Nat
           /\ DOMAIN mod.globals = 1 .. Len(mod.globals)
           /\ DOMAIN mod.funcs = 1 .. Len(mod.funcs)
           /\ DOMAIN mod.annos = 1 .. Len(mod.annos)
           /\ \A f \in Func : Len(mod.body[f]) \in Nat /\ DOMAIN mod.body[f] = 1 .. Len(mod.body[f])
BY ModuleTyped, LenProperties DEF PlaceInv, ModuleOK

LEMMA PlaceNext == ASSUME PlaceInv, [Next]_vars PROVE PlaceInv'
<1> USE Lengths
<1>1. CASE BuildGlobal
  <2>1. cur \in 1 .. Len(mod.globals) /\ cur' = cur + 1 /\ UNCHANGED <<mod, pc, at>> /\ pc = "globals"
    BY <1>1 DEF BuildGlobal, Step
  <2> QED
    BY <2>1 DEF PlaceInv
<1>2. CASE BuildInst
  <2>1. cur \in 1 .. Len(mod.funcs) /\ pc = "functions" /\ mod' = mod /\ F \in Func
    BY <1>2, ModuleTyped DEF BuildInst, F, PlaceInv, ModuleOK
  <2>2. at \in 1 .. Len(mod.body[F])
    BY <1>2, <2>1 DEF BuildInst
  <2>3. CASE pc' = "crashed"
    <3>1. cur' = cur /\ at' = at
      BY <1>2, <2>1, <2>3 DEF BuildInst, Crash
    <3> QED
      BY <2>1, <2>3, <3>1 DEF PlaceInv
  <2>4. CASE pc' # "crashed"
    <3>1. cur' = cur /\ at' = at + 1 /\ pc' = pc
      BY <1>2, <2>4 DEF BuildInst, Crash
    <3> QED
      BY <2>1, <2>2, <3>1 DEF PlaceInv, F
  <2> QED
    BY <2>3, <2>4
<1>3. CASE BuildEntry
  <2>1. /\ cur \in 1 .. Len(mod.funcs) /\ pc = "functions" /\ UNCHANGED <<mod, pc>>
        /\ cur' = cur + 1 /\ at' = 1
    BY <1>3 DEF BuildEntry, Step
  <2>2. cur' <= Len(mod.funcs) => F' \in Func
    BY <2>1, ModuleTyped DEF F, PlaceInv, ModuleOK
  <2>3. cur' <= Len(mod.funcs) => 1 <= Len(mod.body[F']) + 1
    BY <2>2
  <2> QED
    BY <2>1, <2>3 DEF PlaceInv
<1>4. CASE PassOver \/ AnnotateNode \/ AnnotateMissing
  <2>1. cur \in 1 .. Len(mod.annos) /\ pc = "annotations" /\ mod' = mod /\ at' = at
    BY <1>4 DEF PassOver, AnnotateNode, AnnotateMissing, Crash
  <2>2. (pc' = "crashed" /\ cur' = cur) \/ (pc' = pc /\ cur' = cur + 1)
    BY <1>4 DEF PassOver, AnnotateNode, AnnotateMissing, Crash, Step, Annotate
  <2> QED
    BY <2>1, <2>2 DEF PlaceInv
<1>5. CASE NextLoop
  <2>1. UNCHANGED <<mod, at>> /\ cur' = 1
    BY <1>5 DEF NextLoop, EndLoop
  <2>2. CASE EndLoop("globals", mod.globals, "functions")
    <3>1. pc = "globals" /\ pc' = "functions" /\ at = 1
      BY <2>2 DEF EndLoop, PlaceInv
    <3>2. 1 <= Len(mod.funcs) => F' \in Func
      BY <2>1, ModuleTyped DEF F, PlaceInv, ModuleOK
    <3>3. 1 <= Len(mod.funcs) => 1 <= Len(mod.body[F']) + 1
      BY <3>2
    <3> QED
      BY <2>1, <3>1, <3>3 DEF PlaceInv
  <2>3. CASE EndLoop("functions", mod.funcs, "annotations")
    BY <2>1, <2>3 DEF EndLoop, PlaceInv
  <2>4. CASE EndLoop("annotations", mod.annos, "done")
    BY <2>1, <2>4 DEF EndLoop, PlaceInv
  <2> QED
    BY <1>5, <2>2, <2>3, <2>4 DEF NextLoop
<1>6. CASE UNCHANGED vars
  BY <1>6 DEF vars, PlaceInv, F
<1> QED
  BY <1>1, <1>2, <1>3, <1>4, <1>5, <1>6 DEF Next


-----------------------------------------------------------------------------
(* What each step adds to what is done. *)

LEMMA Elements ==
    ASSUME PlaceInv
    PROVE  /\ \A i \in 1 .. Len(mod.globals) : mod.globals[i] \in Global
           /\ \A i \in 1 .. Len(mod.funcs) : mod.funcs[i] \in Func
BY ModuleTyped, ElementOfSeq DEF PlaceInv, ModuleOK

LEMMA InstsDoneIs ==
    /\ \A x : x \in InstsDone <=> (\E f \in FuncsDone : x \in InstsOf(f)) \/ x \in Begun
    /\ \A x : x \in InstsDone' <=> (\E f \in FuncsDone' : x \in InstsOf(f)') \/ x \in Begun'
<1>1. \A x : x \in InstsBehind <=> \E f \in FuncsDone : x \in InstsOf(f)
  BY DEF InstsBehind
<1>2. \A x : x \in InstsBehind' <=> \E f \in FuncsDone' : x \in InstsOf(f)'
  BY DEF InstsBehind
<1>3. \A x : x \in InstsDone <=> (\E f \in FuncsDone : x \in InstsOf(f)) \/ x \in Begun
  BY <1>1 DEF InstsDone
<1>4. \A x : x \in InstsDone' <=> (\E f \in FuncsDone' : x \in InstsOf(f)') \/ x \in Begun'
  BY <1>2 DEF InstsDone
<1> QED
  BY <1>3, <1>4

LEMMA GlobalStep ==
    ASSUME PlaceInv, BuildGlobal
    PROVE  /\ GlobalsDone' = GlobalsDone \cup {mod.globals[cur]}
           /\ FuncsDone' = FuncsDone /\ InstsDone' = InstsDone /\ EntriesDone' = EntriesDone
           /\ mod.globals[cur] \in Global
           /\ GlobalsDone \subseteq Global /\ FuncsDone = {} /\ InstsDone = {} /\ EntriesDone = {}
<1>1. /\ pc = "globals" /\ cur \in 1 .. Len(mod.globals) /\ cur' = cur + 1
      /\ UNCHANGED <<mod, pc, at>> /\ mod.globals \in Seq(Global) /\ Len(mod.globals) \in Nat
  BY Lengths, ModuleTyped DEF BuildGlobal, Step, PlaceInv, ModuleOK
<1>2. 1 .. (cur + 1) - 1 = (1 .. cur - 1) \cup {cur}
  BY <1>1
<1>3. GlobalsDone' = GlobalsDone \cup {mod.globals[cur]}
  BY <1>1, <1>2 DEF GlobalsDone
<1>4. mod.globals[cur] \in Global
  BY <1>1
<1>5. \A i \in 1 .. cur - 1 : mod.globals[i] \in Global
  BY <1>1
<1> QED
  BY <1>1, <1>3, <1>4, <1>5 DEF GlobalsDone, FuncsDone, InstsDone, InstsBehind, Begun, EntriesDone

LEMMA InstStep ==
    ASSUME PlaceInv, BuildInst, pc' # "crashed"
    PROVE  /\ GlobalsDone' = GlobalsDone /\ FuncsDone' = FuncsDone /\ EntriesDone' = EntriesDone
           /\ InstsDone' = InstsDone \cup {I}
           /\ EntriesDone = {}
<1>1. /\ pc = "functions" /\ cur \in 1 .. Len(mod.funcs) /\ at \in Nat \ {0}
      /\ UNCHANGED <<mod, pc, cur>> /\ at' = at + 1
  BY Lengths DEF BuildInst, PlaceInv, Crash
<1>2. 1 .. (at + 1) - 1 = (1 .. at - 1) \cup {at} /\ cur <= Len(mod.funcs)
  BY <1>1, Lengths
<1>3. Begun' = Begun \cup {I}
  BY <1>1, <1>2 DEF Begun, F, I
<1>4. \A f : InstsOf(f)' = InstsOf(f)
  BY <1>1 DEF InstsOf
<1>5. GlobalsDone' = GlobalsDone /\ FuncsDone' = FuncsDone /\ EntriesDone' = EntriesDone
      /\ EntriesDone = {}
  BY <1>1 DEF GlobalsDone, FuncsDone, EntriesDone
<1>6. InstsDone' = InstsDone \cup {I}
  <2>1. \A x : x \in InstsDone' <=> (\E f \in FuncsDone : x \in InstsOf(f))
                                   \/ x \in Begun \/ x = I
    BY <1>3, <1>4, <1>5, InstsDoneIs
  <2> QED
    BY <2>1, InstsDoneIs
<1> QED
  BY <1>5, <1>6

LEMMA EntryStep ==
    ASSUME PlaceInv, BuildEntry
    PROVE  /\ GlobalsDone' = GlobalsDone /\ EntriesDone' = EntriesDone
           /\ FuncsDone' = FuncsDone \cup {F} /\ InstsDone' = InstsDone
           /\ F \in Func /\ EntriesDone = {}
<1>1. /\ pc = "functions" /\ cur \in 1 .. Len(mod.funcs) /\ at = Len(mod.body[F]) + 1
      /\ UNCHANGED <<mod, pc>> /\ at' = 1 /\ cur' = cur + 1
  BY Lengths DEF BuildEntry, Step
<1>2. 1 .. (cur + 1) - 1 = (1 .. cur - 1) \cup {cur} /\ cur <= Len(mod.funcs)
  BY <1>1, Lengths
<1>3. FuncsDone' = FuncsDone \cup {F}
  BY <1>1, <1>2 DEF FuncsDone, F
<1>4. F \in Func
  BY <1>1, ModuleTyped DEF F, PlaceInv, ModuleOK
<1>5. Begun = InstsOf(F)
  <2>1. Len(mod.body[F]) \in Nat /\ DOMAIN mod.body[F] = 1 .. Len(mod.body[F])
    BY <1>4, Lengths
  <2>2. 1 .. at - 1 = DOMAIN mod.body[F]
    BY <1>1, <2>1
  <2> QED
    BY <1>1, <1>2, <2>2 DEF Begun, InstsOf
<1>6. Begun' = {}
  <2>1. 1 .. 1 - 1 = {}
    OBVIOUS
  <2> QED
    BY <1>1, <2>1 DEF Begun
<1>7. \A f : InstsOf(f)' = InstsOf(f)
  BY <1>1 DEF InstsOf
<1>8. InstsDone' = InstsDone
  <2>1. \A x : x \in InstsDone' <=> \E f \in FuncsDone \cup {F} : x \in InstsOf(f)
    BY <1>3, <1>6, <1>7, InstsDoneIs
  <2>2. \A x : x \in InstsDone <=> (\E f \in FuncsDone : x \in InstsOf(f)) \/ x \in InstsOf(F)
    BY <1>5, InstsDoneIs
  <2> QED
    BY <2>1, <2>2
<1> QED
  BY <1>1, <1>3, <1>4, <1>8 DEF GlobalsDone, EntriesDone

LEMMA AnnotationStep ==
    ASSUME PlaceInv, PassOver \/ AnnotateNode \/ AnnotateMissing, pc' # "crashed"
    PROVE  /\ GlobalsDone' = GlobalsDone /\ FuncsDone' = FuncsDone /\ InstsDone' = InstsDone
           /\ EntriesDone' = EntriesDone \cup {cur}
           /\ GlobalsDone = Global /\ FuncsDone = Func
           /\ cur \in 1 .. Len(mod.annos) /\ EntriesDone = 1 .. cur - 1
<1>1. pc = "annotations" /\ cur \in 1 .. Len(mod.annos) /\ UNCHANGED <<mod, at>>
  BY Lengths DEF PassOver, AnnotateNode, AnnotateMissing, Crash
<1>2. pc' = pc /\ cur' = cur + 1
  BY DEF PassOver, AnnotateNode, AnnotateMissing, Crash, Step, Annotate
<1>3. 1 .. (cur + 1) - 1 = (1 .. cur - 1) \cup {cur}
  BY <1>1
<1> QED
  BY <1>1, <1>2, <1>3
  DEF GlobalsDone, FuncsDone, InstsDone, InstsBehind, Begun, EntriesDone, InstsOf

\* At the end of a loop everything it is about is done, and the next one begins
\* with nothing.
LEMMA LoopStep ==
    ASSUME PlaceInv, NextLoop
    PROVE  /\ GlobalsDone' = GlobalsDone /\ FuncsDone' = FuncsDone /\ InstsDone' = InstsDone
           /\ EntriesDone' = EntriesDone
           /\ pc' # "crashed" /\ pc # "crashed"
<1>1. UNCHANGED <<mod, at>> /\ cur' = 1 /\ 1 .. 1 - 1 = {}
  BY DEF NextLoop, EndLoop
<1>2. CASE EndLoop("globals", mod.globals, "functions")
  <2>1. pc = "globals" /\ pc' = "functions" /\ at = 1 /\ cur = Len(mod.globals) + 1
    BY <1>2 DEF EndLoop, PlaceInv
  <2>2. 1 .. cur - 1 = 1 .. Len(mod.globals)
    BY <2>1, Lengths
  <2>3. GlobalsDone = Global
    <3>1. GlobalsDone = {mod.globals[i] : i \in 1 .. Len(mod.globals)}
      BY <2>1, <2>2 DEF GlobalsDone
    <3>2. \A g \in Global : \E i \in 1 .. Len(mod.globals) : mod.globals[i] = g
      BY ModuleTyped DEF PlaceInv, ModuleOK
    <3> QED
      BY <3>1, <3>2, Elements
  <2> QED
    BY <1>1, <2>1, <2>3 DEF GlobalsDone, FuncsDone, InstsDone, InstsBehind, Begun, EntriesDone
<1>3. CASE EndLoop("functions", mod.funcs, "annotations")
  <2>1. pc = "functions" /\ pc' = "annotations" /\ cur = Len(mod.funcs) + 1
    BY <1>3 DEF EndLoop
  <2>2. 1 .. cur - 1 = 1 .. Len(mod.funcs) /\ ~(cur <= Len(mod.funcs))
    BY <2>1, Lengths
  <2>3. FuncsDone = Func
    <3>1. FuncsDone = {mod.funcs[i] : i \in 1 .. Len(mod.funcs)}
      BY <2>1, <2>2 DEF FuncsDone
    <3>2. \A f \in Func : \E i \in 1 .. Len(mod.funcs) : mod.funcs[i] = f
      BY ModuleTyped DEF PlaceInv, ModuleOK
    <3> QED
      BY <3>1, <3>2, Elements
  <2>4. Begun = {} /\ Begun' = {} /\ \A f : InstsOf(f)' = InstsOf(f)
    BY <1>1, <2>1, <2>2 DEF Begun, InstsOf
  <2> QED
    BY <1>1, <2>1, <2>3, <2>4 DEF GlobalsDone, FuncsDone, InstsDone, InstsBehind, EntriesDone
<1>4. CASE EndLoop("annotations", mod.annos, "done")
  <2>1. pc = "annotations" /\ pc' = "done" /\ cur = Len(mod.annos) + 1
    BY <1>4 DEF EndLoop
  <2>2. 1 .. cur - 1 = 1 .. Len(mod.annos)
    BY <2>1, Lengths
  <2> QED
    BY <1>1, <2>1, <2>2
    DEF GlobalsDone, FuncsDone, InstsDone, InstsBehind, Begun, EntriesDone, InstsOf
<1> QED
  BY <1>2, <1>3, <1>4 DEF NextLoop


-----------------------------------------------------------------------------
(* Instructions are numbered in textual order, and stand in one function. *)

LEMMA InstsTyped ==
    ASSUME PlaceInv
    PROVE  /\ \A f \in Func : InstsOf(f) \subseteq Inst
           /\ \A f, h \in Func : f # h => InstsOf(f) \cap InstsOf(h) = {}
           /\ \A f \in Func : \A i, j \in 1 .. Len(mod.body[f]) :
                 i < j => mod.body[f][i] < mod.body[f][j]
           /\ \A f \in Func : \A c \in InstsOf(f) : mod.kind[c] = "anno" => mod.of[c] \in InstsOf(f)
           /\ Inst \subseteq Nat
<1>1. WellFormed(mod)
  BY ModulesAssumption DEF PlaceInv
<1>2. \A f \in Func : InstsOf(f) \subseteq Inst
  BY ModuleTyped, ElementOfSeq, Lengths DEF PlaceInv, ModuleOK, InstsOf
<1>3. \A f, h \in Func : f # h => InstsOf(f) \cap InstsOf(h) = {}
  BY <1>1 DEF WellFormed, InstsOf
<1>4. \A f \in Func : \A i, j \in 1 .. Len(mod.body[f]) : i < j => mod.body[f][i] < mod.body[f][j]
  BY <1>1, Lengths DEF WellFormed
<1>5. \A f \in Func : \A c \in InstsOf(f) : mod.kind[c] = "anno" => mod.of[c] \in InstsOf(f)
  BY <1>1 DEF WellFormed, InstsOf
<1> QED
  BY <1>2, <1>3, <1>4, <1>5, ValuesAssumption

\* The next instruction stands behind those of its function that are done and
\* before the others.
LEMMA InstOrder ==
    ASSUME PlaceInv, BuildInst
    PROVE  /\ F \in Func /\ I \in InstsOf(F) /\ I \in Inst
           /\ \A c \in InstsOf(F) : c \in InstsDone <=> c < I
           /\ \A f \in Func : I \in InstsOf(f) => f = F
           /\ GlobalsDone = Global /\ EntriesDone = {} /\ pc = "functions"
<1>1. pc = "functions" /\ cur \in 1 .. Len(mod.funcs) /\ at \in DOMAIN mod.body[F]
  BY Lengths DEF BuildInst
<1>2. F \in Func
  BY <1>1, Elements DEF F
<1>3. Len(mod.body[F]) \in Nat /\ at \in 1 .. Len(mod.body[F]) /\ cur <= Len(mod.funcs)
  BY <1>1, <1>2, Lengths
<1>4. I \in InstsOf(F) /\ I \in Inst
  BY <1>1, <1>2, InstsTyped DEF I, InstsOf
<1>5. F \notin FuncsDone
  <2>1. cur - 1 < cur /\ \A i \in 1 .. cur - 1 : i \in 1 .. Len(mod.funcs) /\ i # cur
    BY <1>1, Lengths
  <2>2. \A i \in 1 .. cur - 1 : mod.funcs[i] # mod.funcs[cur]
    BY <1>1, <2>1, ModuleTyped DEF PlaceInv, ModuleOK
  <2> QED
    BY <1>1, <2>2 DEF FuncsDone, F
<1>6. FuncsDone \subseteq Func
  <2>1. \A i \in 1 .. cur - 1 : i \in 1 .. Len(mod.funcs)
    BY <1>1, Lengths
  <2> QED
    BY <1>1, <2>1, Elements DEF FuncsDone
<1>7. Begun = {mod.body[F][i] : i \in 1 .. at - 1}
  BY <1>1, <1>3 DEF Begun
<1>8. \A c \in InstsOf(F) : c \in InstsDone <=> c \in Begun
  BY <1>2, <1>5, <1>6, InstsDoneIs, InstsTyped
<1>9. ASSUME NEW c \in InstsOf(F) PROVE c \in Begun <=> c < I
  <2>1. PICK k \in 1 .. Len(mod.body[F]) : c = mod.body[F][k]
    BY <1>2, Lengths DEF InstsOf
  <2>2. c \in Nat /\ I \in Nat
    BY <1>2, <1>4, InstsTyped
  <2>3. CASE k < at
    <3>1. k \in 1 .. at - 1
      BY <1>3, <2>1, <2>3
    <3>2. c < I
      BY <1>2, <1>3, <2>1, <2>3, InstsTyped DEF I
    <3> QED
      BY <1>7, <2>1, <3>1, <3>2
  <2>4. CASE ~(k < at)
    <3>1. \A i \in 1 .. at - 1 : i \in 1 .. Len(mod.body[F]) /\ i < k
      BY <1>3, <2>1, <2>4
    <3>2. \A i \in 1 .. at - 1 : mod.body[F][i] < c
      BY <1>2, <2>1, <3>1, InstsTyped
    <3>3. c \notin Begun
      BY <1>7, <2>2, <3>2
    <3>4. k = at \/ at < k
      BY <1>3, <2>1, <2>4
    <3>5. c = I \/ I < c
      BY <1>2, <1>3, <2>1, <3>4, InstsTyped DEF I
    <3> QED
      BY <2>2, <3>3, <3>5
  <2> QED
    BY <2>3, <2>4
<1>10. \A f \in Func : I \in InstsOf(f) => f = F
  BY <1>2, <1>4, InstsTyped
<1> QED
  BY <1>1, <1>2, <1>4, <1>8, <1>9, <1>10 DEF GlobalsDone, EntriesDone

LEMMA FuncsDoneTyped == ASSUME PlaceInv PROVE FuncsDone \subseteq Func
<1>1. ASSUME pc = "functions" PROVE \A i \in 1 .. cur - 1 : i \in 1 .. Len(mod.funcs)
  BY <1>1, Lengths DEF PlaceInv
<1> QED
  BY <1>1, Elements DEF FuncsDone

LEMMA InstsDoneTyped ==
    ASSUME PlaceInv PROVE \A c \in InstsDone : \E f \in Func : c \in InstsOf(f)
<1>1. FuncsDone \subseteq Func
  BY FuncsDoneTyped
<1>2. \A c \in Begun : \E f \in Func : c \in InstsOf(f)
  <2> SUFFICES ASSUME pc = "functions", cur <= Len(mod.funcs), NEW i \in 1 .. at - 1
               PROVE  \E f \in Func : mod.body[F][i] \in InstsOf(f)
    BY DEF Begun
  <2>1. cur \in 1 .. Len(mod.funcs)
    BY Lengths DEF PlaceInv
  <2>2. F \in Func
    BY <2>1, Elements DEF F
  <2>3. at <= Len(mod.body[F]) + 1 /\ at \in Nat /\ Len(mod.body[F]) \in Nat
    BY <2>2, Lengths DEF PlaceInv
  <2>4. i \in DOMAIN mod.body[F]
    BY <2>2, <2>3, Lengths
  <2> QED
    BY <2>2, <2>4 DEF InstsOf
<1> QED
  BY <1>1, <1>2, InstsDoneIs


-----------------------------------------------------------------------------
(* Types. *)

LEMMA TypeInit == ASSUME Init PROVE TypeInv
BY DEF Init, TypeInv

LEMMA ScopeTyped ==
    ASSUME PlaceInv PROVE \A g : Scope(g) \in NodeType /\ ScopeFunction(g) \in Func \cup {None}
<1> TAKE g
<1>1. ScopeFunction(g) \in Func \cup {None}
  <2>1. \A n : Named(n) \subseteq Func
    BY DEF Named
  <2> QED
    BY <2>1 DEF ScopeFunction
<1> QED
  BY <1>1 DEF Scope, NodeType

LEMMA InstTypeTyped == \A i : InstType(i) \in NodeType
BY DEF InstType, NodeType

\* An entry of the array and what it is about.
LEMMA EntryTyped ==
    ASSUME PlaceInv, NEW i \in 1 .. Len(mod.annos)
    PROVE  /\ mod.annos[i].of \in Func \cup Global /\ mod.annos[i].label \in Label
           /\ mod.annos[i].plain \in BOOLEAN
           /\ mod.annos[i].plain => mod.annos[i].of \in Global
<1>1. WellFormed(mod)
  BY ModulesAssumption DEF PlaceInv
<1>2. mod.annos[i] \in Entry
  BY ModuleTyped, ElementOfSeq DEF PlaceInv, ModuleOK
<1>3. mod.annos[i].plain => mod.annos[i].of \in Global
  BY <1>1, Lengths DEF WellFormed
<1> QED
  BY <1>2, <1>3 DEF Entry

LEMMA TypeNext == ASSUME PlaceInv, TypeInv, [Next]_vars PROVE TypeInv'
<1>1. CASE BuildGlobal
  <2>1. UNCHANGED <<anno, edges>>
    BY <1>1 DEF BuildGlobal
  <2>2. \/ UNCHANGED <<type, fn>>
        \/ \E g : type' = [type EXCEPT ![g] = Scope(g)] /\ fn' = [fn EXCEPT ![g] = ScopeFunction(g)]
    BY <1>1 DEF BuildGlobal
  <2> QED
    BY <2>1, <2>2, ScopeTyped DEF TypeInv
<1>2. CASE BuildInst
  <2>1. CASE Labels(I) /\ type[mod.of[I]] = None
    BY <1>2, <2>1 DEF BuildInst, Crash, TypeInv
  <2>2. CASE ~(Labels(I) /\ type[mod.of[I]] = None)
    <3>1. /\ anno' = IF Labels(I) THEN [anno EXCEPT ![mod.of[I]] = mod.label[I]] ELSE anno
          /\ type' = [type EXCEPT ![I] = InstType(I)]
          /\ fn' = [fn EXCEPT ![I] = F]
          /\ edges' = edges
      BY <1>2, <2>2 DEF BuildInst
    <3>2. F \in Func /\ mod.label[I] \in Label
      BY <1>2, InstOrder, ModuleTyped DEF PlaceInv, ModuleOK
    <3> QED
      BY <3>1, <3>2, InstTypeTyped DEF TypeInv
  <2> QED
    BY <2>1, <2>2
<1>3. CASE BuildEntry
  <2>1. F \in Func
    BY <1>3, EntryStep
  <2>2. UNCHANGED <<anno, edges>>
    BY <1>3 DEF BuildEntry
  <2>3. \/ UNCHANGED <<type, fn>>
        \/ type' = [type EXCEPT ![F] = "FUNC_ENTRY"] /\ fn' = [fn EXCEPT ![F] = F]
    BY <1>3 DEF BuildEntry
  <2> QED
    BY <2>1, <2>2, <2>3 DEF TypeInv, NodeType
<1>4. CASE PassOver
  BY <1>4 DEF PassOver, TypeInv, NodeType
<1>5. CASE AnnotateNode
  <2> DEFINE a == mod.annos[cur]
  <2>1. a.of \in Func \cup Global /\ a.label \in Label
    BY <1>5, EntryTyped, Lengths DEF AnnotateNode
  <2>2. /\ type' = [type EXCEPT ![Annotations] = "ANNO_GLOBAL"] /\ fn' = fn
        /\ anno' = [anno EXCEPT ![a.of] = a.label] /\ edges' = edges \cup {a.of}
    BY <1>5 DEF AnnotateNode, Annotate, NewLabel
  <2> QED
    BY <2>1, <2>2 DEF TypeInv, NodeType
<1>6. CASE AnnotateMissing
  <2> DEFINE a == mod.annos[cur]
  <2>1. a.of \in Func \cup Global /\ a.label \in Label
    BY <1>6, EntryTyped, Lengths DEF AnnotateMissing
  <2>2. CASE Crash
    BY <2>2 DEF Crash, TypeInv
  <2>3. CASE ~Crash
    <3>1. /\ \E g : fn' = [fn EXCEPT ![a.of] = ScopeFunction(g)]
          /\ type' = [type EXCEPT ![Annotations] = "ANNO_GLOBAL",
                                  ![a.of] = "VAR_STATICALLOCGLOBALSCOPE"]
          /\ anno' = [anno EXCEPT ![a.of] = a.label] /\ edges' = edges \cup {a.of}
      BY <1>6, <2>3 DEF AnnotateMissing, Annotate, NewLabel
    <3> QED
      BY <2>1, <3>1, ScopeTyped DEF TypeInv, NodeType
  <2> QED
    BY <2>2, <2>3
<1>7. CASE NextLoop \/ UNCHANGED vars
  BY <1>7 DEF NextLoop, vars, TypeInv
<1> QED
  BY <1>1, <1>2, <1>3, <1>4, <1>5, <1>6, <1>7 DEF Next

-----------------------------------------------------------------------------
(* What is known of what is done. *)

\* Which values have a node.
Made(v) ==
    \/ v \in GlobalsDone /\ mod.debug[v]
    \/ v \in Global /\ EntriesDone \cap Entries(v) # {}
    \/ v \in FuncsDone /\ Defined(v)
    \/ v \in InstsDone

NodesInv == \A v \in Value : type[v] # None <=> Made(v)

ScopesInv ==
    \A g \in GlobalsDone : mod.debug[g] => type[g] = Scope(g) /\ fn[g] = ScopeFunction(g)

LocalsDone(v) == InstsDone \cap LocalEntries(v)

\* The label of a local variable is that of the last annotation done.
LocalsInv ==
    \A v \in Inst :
        /\ LocalsDone(v) = {} => anno[v] = None
        /\ LocalsDone(v) # {} =>
              \E i \in LocalsDone(v) : anno[v] = mod.label[i] /\ \A j \in LocalsDone(v) : j <= i

\* That of a global variable or a function, of the last entry done.
LabelsInv ==
    \A v \in Func \cup Global :
        LET D == EntriesDone \cap Entries(v)
        IN  /\ v \in edges <=> D # {}
            /\ D = {} => anno[v] = None
            /\ D # {} => \E i \in D : anno[v] = mod.annos[i].label /\ \A j \in D : j <= i

\* Nothing that was done should have ended the run.
SafeInv ==
    /\ \A c \in InstsDone : Labels(c) => mod.of[c] < c
    /\ \A i \in EntriesDone : ~Bodiless(mod.annos[i])

DoneInv ==
    /\ NodesInv
    /\ ScopesInv
    /\ LocalsInv
    /\ LabelsInv
    /\ SafeInv
    /\ edges # {} => type[Annotations] = "ANNO_GLOBAL"

LEMMA NothingDone ==
    ASSUME Init PROVE GlobalsDone = {} /\ FuncsDone = {} /\ InstsDone = {} /\ EntriesDone = {}
<1>1. pc = "globals" /\ cur = 1 /\ 1 .. 1 - 1 = {}
  BY DEF Init
<1> QED
  BY <1>1 DEF GlobalsDone, FuncsDone, InstsDone, InstsBehind, Begun, EntriesDone

LEMMA DoneInit == ASSUME Init PROVE DoneInv
<1>1. GlobalsDone = {} /\ FuncsDone = {} /\ InstsDone = {} /\ EntriesDone = {}
  BY NothingDone
<1>2. edges = {} /\ \A v \in Value : type[v] = None /\ anno[v] = None
  BY DEF Init
<1>3. NodesInv /\ ScopesInv /\ SafeInv
  BY <1>1, <1>2 DEF NodesInv, Made, ScopesInv, SafeInv
<1>4. LocalsInv
  BY <1>1, <1>2 DEF LocalsInv, LocalsDone, Value
<1>5. LabelsInv
  BY <1>1, <1>2 DEF LabelsInv, Value
<1> QED
  BY <1>2, <1>3, <1>4, <1>5 DEF DoneInv

\* What is said of a module stays true of it.
LEMMA ModuleFrozen ==
    ASSUME UNCHANGED mod
    PROVE  /\ \A v : Entries(v)' = Entries(v) /\ LocalEntries(v)' = LocalEntries(v)
           /\ \A f : InstsOf(f)' = InstsOf(f) /\ Defined(f)' = Defined(f)
           /\ \A g : Scope(g)' = Scope(g) /\ ScopeFunction(g)' = ScopeFunction(g)
           /\ \A c : Labels(c)' = Labels(c)
           /\ \A a : Bodiless(a)' = Bodiless(a)
<1>1. \A f : InstsOf(f)' = InstsOf(f) /\ Defined(f)' = Defined(f)
  BY DEF InstsOf, Defined
<1>2. \A v : Entries(v)' = Entries(v)
  BY DEF Entries
<1>3. \A v : LocalEntries(v)' = LocalEntries(v)
  BY DEF LocalEntries, InstsOf
<1>4. \A n : Named(n)' = Named(n)
  BY DEF Named
<1>5. \A g : Scope(g)' = Scope(g)
  BY <1>4 DEF Scope, IsStaticFuncVar
<1>6. \A g : ScopeFunction(g)' = ScopeFunction(g)
  BY DEF ScopeFunction, Named
<1> QED
  BY <1>1, <1>2, <1>3, <1>5, <1>6 DEF Labels, Bodiless


-----------------------------------------------------------------------------
(* One step of a loop. *)

LEMMA DoneGlobal == ASSUME PlaceInv, TypeInv, DoneInv, BuildGlobal PROVE DoneInv'
<1> DEFINE g == mod.globals[cur]
<1>1. /\ GlobalsDone' = GlobalsDone \cup {g}
      /\ FuncsDone' = FuncsDone /\ InstsDone' = InstsDone /\ EntriesDone' = EntriesDone
      /\ g \in Global
      /\ GlobalsDone \subseteq Global /\ FuncsDone = {} /\ InstsDone = {} /\ EntriesDone = {}
  BY GlobalStep
<1>2. UNCHANGED <<mod, anno, edges>>
  BY DEF BuildGlobal
<1>3. IF mod.debug[g] THEN /\ type' = [type EXCEPT ![g] = Scope(g)]
                           /\ fn' = [fn EXCEPT ![g] = ScopeFunction(g)]
                      ELSE UNCHANGED <<type, fn>>
  BY DEF BuildGlobal
<1> HIDE DEF g
<1>4. g \in Value /\ g # Annotations /\ Scope(g) # None
  BY <1>1, ScopeTyped, ValuesAssumption DEF Value
<1>5. /\ \A v \in Value : v # g => type'[v] = type[v] /\ fn'[v] = fn[v]
      /\ mod.debug[g] => type'[g] = Scope(g) /\ fn'[g] = ScopeFunction(g)
      /\ ~mod.debug[g] => type'[g] = type[g] /\ fn'[g] = fn[g]
      /\ type'[Annotations] = type[Annotations]
  BY <1>3, <1>4 DEF TypeInv
<1>6. NodesInv'
  <2> SUFFICES ASSUME NEW v \in Value PROVE type'[v] # None <=> Made(v)'
    BY DEF NodesInv, Value
  <2>1. Made(v)' <=> Made(v) \/ (v = g /\ mod.debug[g])
    BY <1>1, <1>2 DEF Made
  <2>2. type[v] # None <=> Made(v)
    BY DEF DoneInv, NodesInv
  <2> QED
    BY <1>4, <1>5, <2>1, <2>2
<1>7. ScopesInv'
  <2> SUFFICES ASSUME NEW h \in GlobalsDone \cup {g}, mod.debug[h]
               PROVE  type'[h] = Scope(h) /\ fn'[h] = ScopeFunction(h)
    BY <1>1, <1>2, ModuleFrozen DEF ScopesInv
  <2>1. h \in Value
    BY <1>1 DEF Value
  <2> QED
    BY <1>5, <2>1 DEF DoneInv, ScopesInv
<1>8. LocalsInv'
  BY <1>1, <1>2, ModuleFrozen DEF DoneInv, LocalsInv, LocalsDone
<1>9. LabelsInv'
  BY <1>1, <1>2, ModuleFrozen DEF DoneInv, LabelsInv
<1>10. SafeInv'
  BY <1>1 DEF SafeInv
<1> QED
  BY <1>2, <1>5, <1>6, <1>7, <1>8, <1>9, <1>10 DEF DoneInv

LEMMA DoneInst == ASSUME PlaceInv, TypeInv, DoneInv, BuildInst, pc' # "crashed" PROVE DoneInv'
<1>1. /\ GlobalsDone' = GlobalsDone /\ FuncsDone' = FuncsDone /\ EntriesDone' = EntriesDone
      /\ InstsDone' = InstsDone \cup {I} /\ EntriesDone = {}
  BY InstStep
<1>2. /\ F \in Func /\ I \in InstsOf(F) /\ I \in Inst
      /\ \A c \in InstsOf(F) : c \in InstsDone <=> c < I
      /\ GlobalsDone = Global
  BY InstOrder
<1>3. /\ ~(Labels(I) /\ type[mod.of[I]] = None)
      /\ anno' = IF Labels(I) THEN [anno EXCEPT ![mod.of[I]] = mod.label[I]] ELSE anno
      /\ type' = [type EXCEPT ![I] = InstType(I)]
      /\ fn' = [fn EXCEPT ![I] = F]
      /\ UNCHANGED <<mod, edges>>
  BY DEF BuildInst, Crash
<1> DEFINE i == I
           t == mod.of[i]
<1>4. Labels(i) => t \in InstsOf(F) /\ t \in Inst /\ type[t] # None
  BY <1>2, <1>3, InstsTyped DEF Labels
<1>5. i \in Value /\ i \notin Func \cup Global /\ i # Annotations /\ InstType(i) # None
  BY <1>2, InstTypeTyped, ValuesAssumption DEF Value
<1> HIDE DEF i
<1>6. /\ type'[i] = InstType(i) /\ type'[Annotations] = type[Annotations]
      /\ \A v \in Value : v # i => type'[v] = type[v] /\ fn'[v] = fn[v]
  BY <1>3, <1>5 DEF TypeInv, i
<1>7. /\ \A v \in Value : v # t \/ ~Labels(i) => anno'[v] = anno[v]
      /\ Labels(i) => anno'[t] = mod.label[i]
  <2>1. t \in Inst => t \in Value
    BY DEF Value
  <2> QED
    BY <1>3, <1>4, <2>1 DEF TypeInv, i
<1>8. NodesInv'
  <2> SUFFICES ASSUME NEW v \in Value PROVE type'[v] # None <=> Made(v)'
    BY DEF NodesInv, Value
  <2>1. Made(v)' <=> Made(v) \/ v = i
    BY <1>1, <1>3, ModuleFrozen DEF Made, i
  <2>2. type[v] # None <=> Made(v)
    BY DEF DoneInv, NodesInv
  <2> QED
    BY <1>5, <1>6, <2>1, <2>2
<1>9. ScopesInv'
  <2> SUFFICES ASSUME NEW h \in Global, mod.debug[h]
               PROVE  type'[h] = Scope(h) /\ fn'[h] = ScopeFunction(h)
    BY <1>1, <1>2, <1>3, ModuleFrozen DEF ScopesInv
  <2>1. h \in Value /\ h # i
    BY <1>5 DEF Value
  <2> QED
    BY <1>2, <1>6, <2>1 DEF DoneInv, ScopesInv
\* The new label comes from the last annotation of its variable so far: all of
\* them stand in the variable's function.
<1>10. ASSUME Labels(i) PROVE t \in InstsDone /\ t < i
  <2>1. Made(t) /\ t \in Inst
    BY <1>4, <1>10 DEF DoneInv, NodesInv, Value
  <2>2. t \notin Global /\ t \notin FuncsDone
    BY <2>1, FuncsDoneTyped, ValuesAssumption
  <2>3. t \in InstsDone
    BY <1>2, <2>1, <2>2 DEF Made
  <2> QED
    BY <1>2, <1>4, <1>10, <2>3 DEF i
<1>11. \A v \in Inst : LocalsDone(v)' = LocalsDone(v) \cup (IF Labels(i) /\ v = t THEN {i} ELSE {})
  <2> TAKE v \in Inst
  <2>1. i \in UNION {InstsOf(f) : f \in Func}
    BY <1>2 DEF i
  <2>2. i \in LocalEntries(v) <=> Labels(i) /\ v = t
    BY <2>1 DEF LocalEntries, Labels
  <2> QED
    BY <1>1, <1>3, <2>2, ModuleFrozen DEF LocalsDone, i
<1>12. ASSUME NEW j \in LocalsDone(t), Labels(i) PROVE j < i
  <2>1. j \in InstsDone /\ j \in LocalEntries(t)
    BY DEF LocalsDone
  <2>2. PICK f \in Func : j \in InstsOf(f)
    BY <2>1, InstsDoneTyped
  <2>3. mod.kind[j] = "anno" /\ mod.of[j] = t
    BY <2>1 DEF LocalEntries
  <2>4. t \in InstsOf(f) /\ t \in InstsOf(F)
    BY <1>4, <1>12, <2>2, <2>3, InstsTyped
  <2>5. f = F
    BY <1>2, <2>4, InstsTyped
  <2> QED
    BY <1>2, <2>1, <2>2, <2>5 DEF i
<1>13. LocalsInv'
  <2> SUFFICES ASSUME NEW v \in Inst
               PROVE  /\ LocalsDone(v)' = {} => anno'[v] = None
                      /\ LocalsDone(v)' # {} =>
                            \E k \in LocalsDone(v)' : /\ anno'[v] = mod.label[k]
                                                     /\ \A j \in LocalsDone(v)' : j <= k
    BY <1>3 DEF LocalsInv
  <2>1. v \in Value
    BY DEF Value
  <2>2. CASE Labels(i) /\ v = t
    <3>1. LocalsDone(v)' = LocalsDone(v) \cup {i}
      BY <1>11, <2>2
    <3>2. i <= i
      BY <1>2, InstsTyped DEF i
    <3>3. \A j \in LocalsDone(v) : j <= i
      <4> TAKE j \in LocalsDone(v)
      <4>1. j < i
        BY <1>12, <2>2
      <4>2. j \in Inst
        BY InstsDoneTyped, InstsTyped DEF LocalsDone
      <4> QED
        BY <1>2, <4>1, <4>2, InstsTyped DEF i
    <3> QED
      BY <1>7, <2>2, <3>1, <3>2, <3>3
  <2>3. CASE ~(Labels(i) /\ v = t)
    <3>1. LocalsDone(v)' = LocalsDone(v)
      BY <1>11, <2>3
    <3>2. anno'[v] = anno[v]
      BY <1>7, <2>1, <2>3
    <3> QED
      BY <3>1, <3>2 DEF DoneInv, LocalsInv
  <2> QED
    BY <2>2, <2>3
<1>14. LabelsInv'
  <2>1. \A v \in Func \cup Global : anno'[v] = anno[v]
    <3> TAKE v \in Func \cup Global
    <3>1. v \in Value /\ v \notin Inst
      BY ValuesAssumption DEF Value
    <3> QED
      BY <1>4, <1>7, <3>1
  <2> QED
    BY <1>1, <1>3, <2>1, ModuleFrozen DEF DoneInv, LabelsInv
<1>15. SafeInv'
  <2>1. \A c \in InstsDone \cup {i} : Labels(c) => mod.of[c] < c
    BY <1>10 DEF DoneInv, SafeInv
  <2> QED
    BY <1>1, <1>3, <2>1, ModuleFrozen DEF DoneInv, SafeInv, i
<1> QED
  BY <1>3, <1>6, <1>8, <1>9, <1>13, <1>14, <1>15 DEF DoneInv


LEMMA DoneEntry == ASSUME PlaceInv, TypeInv, DoneInv, BuildEntry PROVE DoneInv'
<1>1. /\ GlobalsDone' = GlobalsDone /\ EntriesDone' = EntriesDone
      /\ FuncsDone' = FuncsDone \cup {F} /\ InstsDone' = InstsDone
      /\ F \in Func /\ EntriesDone = {}
  BY EntryStep
<1>2. UNCHANGED <<mod, anno, edges>> /\ GlobalsDone = Global
  BY DEF BuildEntry, GlobalsDone
<1> DEFINE f == F
<1>3. IF ~Defined(f) THEN UNCHANGED <<type, fn>>
      ELSE type' = [type EXCEPT ![f] = "FUNC_ENTRY"] /\ fn' = [fn EXCEPT ![f] = f]
  BY DEF BuildEntry, Defined
<1>4. f \in Func /\ f \in Value /\ f # Annotations /\ f \notin Global /\ "FUNC_ENTRY" # None
  BY <1>1, ValuesAssumption DEF Value, NodeType
<1> HIDE DEF f
<1>5. /\ \A v \in Value : v # f => type'[v] = type[v] /\ fn'[v] = fn[v]
      /\ Defined(f) => type'[f] = "FUNC_ENTRY"
      /\ ~Defined(f) => type'[f] = type[f]
      /\ type'[Annotations] = type[Annotations]
  BY <1>3, <1>4 DEF TypeInv
<1>6. NodesInv'
  <2> SUFFICES ASSUME NEW v \in Value PROVE type'[v] # None <=> Made(v)'
    BY DEF NodesInv, Value
  <2>1. Made(v)' <=> Made(v) \/ (v = f /\ Defined(f))
    BY <1>1, <1>2, ModuleFrozen DEF Made, f
  <2>2. type[v] # None <=> Made(v)
    BY DEF DoneInv, NodesInv
  <2> QED
    BY <1>4, <1>5, <2>1, <2>2
<1>7. ScopesInv'
  <2> SUFFICES ASSUME NEW h \in Global, mod.debug[h]
               PROVE  type'[h] = Scope(h) /\ fn'[h] = ScopeFunction(h)
    BY <1>1, <1>2, ModuleFrozen DEF ScopesInv
  <2>1. h \in Value /\ h # f
    BY <1>4 DEF Value
  <2> QED
    BY <1>2, <1>5, <2>1 DEF DoneInv, ScopesInv
<1>8. LocalsInv'
  BY <1>1, <1>2, ModuleFrozen DEF DoneInv, LocalsInv, LocalsDone
<1>9. LabelsInv'
  BY <1>1, <1>2, ModuleFrozen DEF DoneInv, LabelsInv
<1>10. SafeInv'
  BY <1>1, <1>2, ModuleFrozen DEF DoneInv, SafeInv
<1> QED
  BY <1>2, <1>5, <1>6, <1>7, <1>8, <1>9, <1>10 DEF DoneInv

LEMMA DonePassOver == ASSUME PlaceInv, TypeInv, DoneInv, PassOver PROVE DoneInv'
<1>1. /\ mod.annos[cur].plain /\ UNCHANGED <<mod, pc, fn, anno, edges>> /\ pc = "annotations"
      /\ type' = [type EXCEPT ![Annotations] = "ANNO_GLOBAL"]
  BY DEF PassOver, Step
<1>2. /\ GlobalsDone' = GlobalsDone /\ FuncsDone' = FuncsDone /\ InstsDone' = InstsDone
      /\ EntriesDone' = EntriesDone \cup {cur}
      /\ GlobalsDone = Global /\ cur \in 1 .. Len(mod.annos)
  BY <1>1, AnnotationStep
<1>3. \A v : EntriesDone' \cap Entries(v)' = EntriesDone \cap Entries(v)
  BY <1>1, <1>2, ModuleFrozen DEF Entries
<1>4. type'[Annotations] = "ANNO_GLOBAL" /\ \A v \in Value : type'[v] = type[v]
  BY <1>1, ValuesAssumption DEF TypeInv
<1>5. NodesInv'
  <2> SUFFICES ASSUME NEW v \in Value PROVE type'[v] # None <=> Made(v)'
    BY DEF NodesInv, Value
  <2>1. Made(v)' <=> Made(v)
    BY <1>1, <1>2, <1>3, ModuleFrozen DEF Made
  <2> QED
    BY <1>4, <2>1 DEF DoneInv, NodesInv
<1>6. ScopesInv'
  BY <1>1, <1>2, <1>4, ModuleFrozen DEF DoneInv, ScopesInv, Value
<1>7. LocalsInv'
  BY <1>1, <1>2, ModuleFrozen DEF DoneInv, LocalsInv, LocalsDone
<1>8. LabelsInv'
  BY <1>1, <1>3 DEF DoneInv, LabelsInv
<1>9. SafeInv'
  <2>1. ~Bodiless(mod.annos[cur])
    BY <1>1, <1>2, EntryTyped, ValuesAssumption DEF Bodiless
  <2> QED
    BY <1>1, <1>2, <2>1, ModuleFrozen DEF DoneInv, SafeInv
<1> QED
  BY <1>4, <1>5, <1>6, <1>7, <1>8, <1>9 DEF DoneInv

\* The label of an entry takes the place of those of the entries before it.
LEMMA DoneAnnotate ==
    ASSUME PlaceInv, TypeInv, DoneInv, AnnotateNode \/ AnnotateMissing, pc' # "crashed"
    PROVE  DoneInv'
<1> DEFINE a == mod.annos[cur]
           u == a.of
<1>1. /\ UNCHANGED mod /\ ~a.plain
      /\ anno' = [anno EXCEPT ![u] = a.label] /\ edges' = edges \cup {u}
  BY DEF AnnotateNode, AnnotateMissing, Annotate, NewLabel, Crash
<1>2. /\ GlobalsDone' = GlobalsDone /\ FuncsDone' = FuncsDone /\ InstsDone' = InstsDone
      /\ EntriesDone' = EntriesDone \cup {cur}
      /\ GlobalsDone = Global /\ FuncsDone = Func
      /\ cur \in 1 .. Len(mod.annos) /\ EntriesDone = 1 .. cur - 1
  BY AnnotationStep
<1>3. u \in Func \cup Global /\ a.label \in Label
  BY <1>2, EntryTyped
<1>4. u \in Value /\ u \notin Inst /\ u # Annotations
  BY <1>3, ValuesAssumption DEF Value
<1>5. \/ type[u] # None /\ type' = [type EXCEPT ![Annotations] = "ANNO_GLOBAL"] /\ fn' = fn
      \/ /\ type[u] = None /\ u \in Global
         /\ type' = [type EXCEPT ![Annotations] = "ANNO_GLOBAL", ![u] = "VAR_STATICALLOCGLOBALSCOPE"]
         /\ \E g : fn' = [fn EXCEPT ![u] = ScopeFunction(g)]
  BY DEF AnnotateNode, AnnotateMissing, Crash
<1> HIDE DEF u
<1>6. /\ type'[Annotations] = "ANNO_GLOBAL" /\ type'[u] # None
      /\ \A v \in Value : v # u \/ type[u] # None => type'[v] = type[v] /\ fn'[v] = fn[v]
      /\ type[u] # None \/ u \in Global
  <2>1. "VAR_STATICALLOCGLOBALSCOPE" # None
    BY ValuesAssumption DEF NodeType
  <2> QED
    BY <1>4, <1>5, <2>1, ValuesAssumption DEF TypeInv
<1>7. \A v : EntriesDone' \cap Entries(v)'
               = (EntriesDone \cap Entries(v)) \cup (IF v = u THEN {cur} ELSE {})
  <2>1. cur \in DOMAIN mod.annos
    BY <1>2, Lengths
  <2>2. \A v : cur \in Entries(v) <=> v = u
    BY <1>1, <2>1 DEF Entries, u
  <2> QED
    BY <1>1, <1>2, <2>2, ModuleFrozen
<1>8. NodesInv'
  <2> SUFFICES ASSUME NEW v \in Value PROVE type'[v] # None <=> Made(v)'
    BY DEF NodesInv, Value
  <2>1. Made(v)' <=> Made(v) \/ (v = u /\ u \in Global)
    BY <1>1, <1>2, <1>7, ModuleFrozen DEF Made
  <2>2. type[v] # None <=> Made(v)
    BY DEF DoneInv, NodesInv
  <2> QED
    BY <1>6, <2>1, <2>2
<1>9. ScopesInv'
  <2> SUFFICES ASSUME NEW h \in Global, mod.debug[h]
               PROVE  type'[h] = Scope(h) /\ fn'[h] = ScopeFunction(h)
    BY <1>1, <1>2, ModuleFrozen DEF ScopesInv
  <2>1. h \in Value /\ type[h] # None
    BY <1>2 DEF Value, DoneInv, NodesInv, Made
  <2>2. type'[h] = type[h] /\ fn'[h] = fn[h]
    BY <1>6, <2>1
  <2> QED
    BY <1>2, <2>2 DEF DoneInv, ScopesInv
<1>10. LocalsInv'
  <2>1. \A v \in Inst : anno'[v] = anno[v]
    BY <1>1, <1>4 DEF TypeInv, Value
  <2> QED
    BY <1>1, <1>2, <2>1, ModuleFrozen DEF DoneInv, LocalsInv, LocalsDone
<1>11. LabelsInv'
  <2> SUFFICES ASSUME NEW v \in Func \cup Global
               PROVE  LET D == EntriesDone' \cap Entries(v)'
                      IN  /\ v \in edges' <=> D # {}
                          /\ D = {} => anno'[v] = None
                          /\ D # {} => \E i \in D : /\ anno'[v] = mod.annos[i].label
                                                    /\ \A j \in D : j <= i
    BY <1>1 DEF LabelsInv
  <2>1. v \in Value
    BY DEF Value
  <2>2. CASE v = u
    <3>1. EntriesDone' \cap Entries(v)' = (EntriesDone \cap Entries(v)) \cup {cur}
      BY <1>7, <2>2
    <3>2. anno'[v] = mod.annos[cur].label /\ v \in edges'
      BY <1>1, <2>1, <2>2 DEF TypeInv
    <3>3. cur <= cur /\ \A j \in EntriesDone : j <= cur
      BY <1>2, Lengths
    <3> QED
      BY <3>1, <3>2, <3>3
  <2>3. CASE v # u
    <3>1. EntriesDone' \cap Entries(v)' = EntriesDone \cap Entries(v)
      BY <1>7, <2>3
    <3>2. anno'[v] = anno[v] /\ (v \in edges' <=> v \in edges)
      BY <1>1, <2>1, <2>3 DEF TypeInv
    <3> QED
      BY <3>1, <3>2 DEF DoneInv, LabelsInv
  <2> QED
    BY <2>2, <2>3
<1>12. SafeInv'
  <2>1. ~Bodiless(a)
    <3> SUFFICES ASSUME u \in Func, ~Defined(u) PROVE FALSE
      BY DEF Bodiless, u
    <3>1. u \notin Global
      BY ValuesAssumption
    <3>2. type[u] # None
      BY <1>6, <3>1
    <3>3. Made(u)
      BY <1>4, <3>2 DEF DoneInv, NodesInv
    <3>4. u \in InstsDone
      BY <1>2, <3>1, <3>3 DEF Made
    <3>5. u \in Inst
      BY <3>4, InstsDoneTyped, InstsTyped
    <3> QED
      BY <1>4, <3>5
  <2> QED
    BY <1>1, <1>2, <2>1, ModuleFrozen DEF DoneInv, SafeInv
<1> QED
  BY <1>6, <1>8, <1>9, <1>10, <1>11, <1>12 DEF DoneInv

LEMMA DoneSame ==
    ASSUME UNCHANGED <<mod, type, fn, anno, edges>>, DoneInv,
           GlobalsDone' = GlobalsDone, FuncsDone' = FuncsDone, InstsDone' = InstsDone,
           EntriesDone' = EntriesDone
    PROVE  DoneInv'
<1>1. NodesInv'
  <2>1. \A v : Made(v)' <=> Made(v)
    BY ModuleFrozen DEF Made
  <2> QED
    BY <2>1 DEF DoneInv, NodesInv
<1>2. ScopesInv' /\ SafeInv'
  BY ModuleFrozen DEF DoneInv, ScopesInv, SafeInv
<1>3. LocalsInv'
  BY ModuleFrozen DEF DoneInv, LocalsInv, LocalsDone
<1>4. LabelsInv'
  BY ModuleFrozen DEF DoneInv, LabelsInv
<1> QED
  BY <1>1, <1>2, <1>3, <1>4 DEF DoneInv

LEMMA DoneNext ==
    ASSUME PlaceInv, TypeInv, pc # "crashed" => DoneInv, [Next]_vars
    PROVE  pc' # "crashed" => DoneInv'
<1> SUFFICES ASSUME pc' # "crashed" PROVE DoneInv'
  OBVIOUS
<1>1. CASE UNCHANGED vars
  <2>1. DoneInv /\ UNCHANGED <<mod, pc, cur, at, type, fn, anno, edges>>
    BY <1>1 DEF vars
  <2>2. /\ GlobalsDone' = GlobalsDone /\ FuncsDone' = FuncsDone /\ InstsDone' = InstsDone
        /\ EntriesDone' = EntriesDone
    BY <2>1
    DEF GlobalsDone, FuncsDone, InstsDone, InstsBehind, Begun, EntriesDone, InstsOf, F
  <2> QED
    BY <2>1, <2>2, DoneSame
<1>2. CASE NextLoop
  BY <1>2, LoopStep, DoneSame DEF NextLoop
<1>3. CASE BuildGlobal
  BY <1>3, DoneGlobal DEF BuildGlobal
<1>4. CASE BuildInst
  BY <1>4, DoneInst DEF BuildInst
<1>5. CASE BuildEntry
  BY <1>5, DoneEntry DEF BuildEntry
<1>6. CASE PassOver
  BY <1>6, DonePassOver DEF PassOver
<1>7. CASE AnnotateNode \/ AnnotateMissing
  BY <1>7, DoneAnnotate DEF AnnotateNode, AnnotateMissing
<1> QED
  BY <1>1, <1>2, <1>3, <1>4, <1>5, <1>6, <1>7 DEF Next

-----------------------------------------------------------------------------
(* What holds when the run has ended early, too. *)

\* The type and the owner of a described variable are the ones guessed.
StaticsInv ==
    \A g \in Global :
        type[g] # None /\ mod.debug[g] => type[g] = Scope(g) /\ fn[g] = ScopeFunction(g)

CrashInv ==
    pc = "crashed" =>
        \/ \E f \in Func : LateLabel(f)
        \/ \E i \in DOMAIN mod.annos : Bodiless(mod.annos[i])
        \/ \E i \in DOMAIN mod.annos : Undescribed(mod.annos[i])

LEMMA DoneStatics == ASSUME DoneInv PROVE StaticsInv
<1> SUFFICES ASSUME NEW g \in Global, type[g] # None, mod.debug[g]
             PROVE  type[g] = Scope(g) /\ fn[g] = ScopeFunction(g)
  BY DEF StaticsInv
<1>1. Made(g)
  BY DEF DoneInv, NodesInv, Value
<1>2. g \notin FuncsDone \/ GlobalsDone = Global
  BY DEF FuncsDone, GlobalsDone
<1>3. g \notin InstsDone \/ GlobalsDone = Global
  BY DEF InstsDone, InstsBehind, Begun, FuncsDone, GlobalsDone
<1>4. EntriesDone = {} \/ GlobalsDone = Global
  BY DEF EntriesDone, GlobalsDone
<1>5. g \in GlobalsDone
  BY <1>1, <1>2, <1>3, <1>4 DEF Made
<1> QED
  BY <1>5 DEF DoneInv, ScopesInv

\* The steps that end the run leave everything else as it is.
LEMMA CrashStep ==
    ASSUME [Next]_vars, pc' = "crashed", pc # "crashed"
    PROVE  /\ UNCHANGED <<mod, cur, at, type, fn, anno, edges>>
           /\ \/ BuildInst /\ Labels(I) /\ type[mod.of[I]] = None
              \/ AnnotateMissing
<1>1. CASE BuildInst
  <2>1. pc = "functions"
    BY <1>1 DEF BuildInst
  <2>2. Labels(I) /\ type[mod.of[I]] = None
    BY <1>1, <2>1 DEF BuildInst
  <2> QED
    BY <1>1, <2>2 DEF BuildInst, Crash
<1>2. CASE AnnotateMissing
  <2>1. pc = "annotations" /\ (Crash \/ pc' = pc) /\ mod' = mod
    BY <1>2 DEF AnnotateMissing, Annotate, Step
  <2> QED
    BY <1>2, <2>1 DEF Crash
<1>3. ~BuildGlobal /\ ~BuildEntry /\ ~PassOver /\ ~AnnotateNode /\ ~NextLoop /\ ~UNCHANGED vars
  BY DEF BuildGlobal, BuildEntry, PassOver, AnnotateNode, Annotate, NextLoop, EndLoop, Step, vars
<1> QED
  BY <1>1, <1>2, <1>3 DEF Next

LEMMA StaticsNext ==
    ASSUME PlaceInv, TypeInv, pc # "crashed" => DoneInv, StaticsInv, [Next]_vars
    PROVE  StaticsInv'
<1>1. CASE pc' # "crashed"
  <2>1. DoneInv'
    BY <1>1, DoneNext
  <2> QED
    BY <2>1, DoneStatics, PTL
<1>2. CASE pc' = "crashed"
  <2>1. UNCHANGED <<mod, type, fn>>
    BY <1>2, CrashStep DEF Next, vars, BuildGlobal, BuildInst, BuildEntry, PassOver,
       AnnotateNode, AnnotateMissing, NextLoop, EndLoop
  <2> QED
    BY <2>1, ModuleFrozen DEF StaticsInv
<1> QED
  BY <1>1, <1>2

\* The run ends at a label for an instruction that has not been met yet.
LEMMA CrashInst ==
    ASSUME PlaceInv, DoneInv, BuildInst, Labels(I), type[mod.of[I]] = None
    PROVE  \E f \in Func : LateLabel(f)
<1>1. /\ F \in Func /\ I \in InstsOf(F) /\ I \in Inst
      /\ \A c \in InstsOf(F) : c \in InstsDone <=> c < I
  BY InstOrder
<1> DEFINE t == mod.of[I]
<1>2. t \in InstsOf(F) /\ t \in Inst
  BY <1>1, InstsTyped DEF Labels
<1>3. ~(t < I)
  <2>1. ~Made(t)
    BY <1>2 DEF DoneInv, NodesInv, Value
  <2> QED
    BY <1>1, <1>2, <2>1 DEF Made
<1>4. PICK j \in DOMAIN mod.body[F] : t = mod.body[F][j]
  BY <1>2 DEF InstsOf
<1>5. at \in DOMAIN mod.body[F] /\ I = mod.body[F][at]
  BY DEF BuildInst, I
<1>6. at \in 1 .. Len(mod.body[F]) /\ j \in 1 .. Len(mod.body[F]) /\ Len(mod.body[F]) \in Nat
  BY <1>1, <1>5, Lengths
<1>7. ~(j < at)
  BY <1>1, <1>3, <1>4, <1>5, <1>6, InstsTyped
<1>8. j >= at
  BY <1>6, <1>7
<1>9. LateLabel(F)
  BY <1>4, <1>5, <1>8 DEF LateLabel, Labels
<1> QED
  BY <1>1, <1>9

\* Or at an entry about a value with no node.
LEMMA CrashEntry ==
    ASSUME PlaceInv, DoneInv, AnnotateMissing
    PROVE  \E i \in DOMAIN mod.annos : Bodiless(mod.annos[i]) \/ Undescribed(mod.annos[i])
<1> DEFINE u == mod.annos[cur].of
<1>1. /\ pc = "annotations" /\ cur \in DOMAIN mod.annos /\ ~mod.annos[cur].plain
      /\ type[u] = None
  BY DEF AnnotateMissing
<1>2. u \in Func \cup Global
  BY <1>1, EntryTyped, Lengths
<1>3. ~Made(u)
  BY <1>1, <1>2 DEF DoneInv, NodesInv, Value
<1>4. GlobalsDone = Global /\ FuncsDone = Func
  BY <1>1 DEF GlobalsDone, FuncsDone
<1>5. Bodiless(mod.annos[cur]) \/ Undescribed(mod.annos[cur])
  BY <1>1, <1>2, <1>3, <1>4 DEF Made, Bodiless, Undescribed
<1> QED
  BY <1>1, <1>5

LEMMA CrashNext ==
    ASSUME PlaceInv, pc # "crashed" => DoneInv, CrashInv, [Next]_vars
    PROVE  CrashInv'
<1> SUFFICES ASSUME pc' = "crashed" PROVE CrashInv'
  BY DEF CrashInv
<1> DEFINE Why == \/ \E f \in Func : LateLabel(f)
                  \/ \E i \in DOMAIN mod.annos : Bodiless(mod.annos[i])
                  \/ \E i \in DOMAIN mod.annos : Undescribed(mod.annos[i])
<1>1. mod' = mod
  BY DEF Next, vars, BuildGlobal, BuildInst, BuildEntry, PassOver, AnnotateNode,
     AnnotateMissing, NextLoop
<1>2. Why
  <2>1. CASE pc = "crashed"
    BY <2>1 DEF CrashInv
  <2>2. CASE pc # "crashed"
    <3>1. CASE BuildInst /\ Labels(I) /\ type[mod.of[I]] = None
      BY <2>2, <3>1, CrashInst
    <3>2. CASE AnnotateMissing
      BY <2>2, <3>2, CrashEntry
    <3> QED
      BY <2>2, <3>1, <3>2, CrashStep
  <2> QED
    BY <2>1, <2>2
<1>3. Why'
  BY <1>1, <1>2 DEF LateLabel, Bodiless, Undescribed, Defined
<1> QED
  BY <1>3 DEF CrashInv

-----------------------------------------------------------------------------
(* The invariant. *)

BuildInv ==
    /\ PlaceInv
    /\ TypeInv
    /\ pc # "crashed" => DoneInv
    /\ StaticsInv
    /\ CrashInv

LEMMA BuildInvariant == Spec => []BuildInv
<1>1. ASSUME Init PROVE BuildInv
  BY <1>1, PlaceInit, TypeInit, DoneInit, DoneStatics DEF BuildInv, CrashInv, Init
<1>2. ASSUME BuildInv, [Next]_vars PROVE BuildInv'
  BY <1>2, PlaceNext, TypeNext, DoneNext, StaticsNext, CrashNext DEF BuildInv
<1> QED
  BY <1>1, <1>2, PTL DEF Spec

\* A static variable of a function is known as one, and as that function's.
THEOREM StaticsAreRecognised == Spec => []StaticsRecognised
<1>1. ASSUME BuildInv PROVE StaticsRecognised
  <2>1. WellFormed(mod) /\ mod \in ModuleRecord
    BY <1>1, ModulesAssumption DEF BuildInv, PlaceInv, WellFormed
  <2> SUFFICES ASSUME NEW g \in Global, type[g] # None, mod.debug[g]
               PROVE  /\ NameKept(g) =>
                            /\ type[g] = SourceScope(g)
                            /\ fn[g] = IF mod.nested[g] THEN None ELSE mod.owner[g]
                      /\ fn[g] # None => mod.source[fn[g]] = mod.source[mod.owner[g]]
    BY DEF StaticsRecognised
  <2>2. type[g] = Scope(g) /\ fn[g] = ScopeFunction(g)
    BY <1>1 DEF BuildInv, StaticsInv
  <2>3. /\ mod.owner[g] # None => mod.prefix[g] = mod.source[mod.owner[g]]
        /\ mod.owner[g] = None => ~mod.nested[g]
        /\ mod.owner[g] \in Func \cup {None}
    BY <2>1 DEF WellFormed, ModuleRecord
  <2>4. /\ \A f \in Func : mod.source[f] \in Name
        /\ \A f, h \in Func : f # h => mod.name[f] # mod.name[h]
        /\ \A f, h \in Func : mod.name[f] = mod.source[h] => mod.source[f] = mod.name[f]
    BY <2>1 DEF WellFormed, ModuleRecord
  <2>5. \A n : \A f : f \in Named(n) <=> f \in Func /\ mod.name[f] = n
    BY DEF Named
  <2>6. CASE mod.owner[g] = None
    <3>1. NameKept(g) => ~IsStaticFuncVar(g)
      BY <2>6 DEF NameKept, IsStaticFuncVar
    <3> QED
      BY <2>2, <2>3, <2>6, <3>1 DEF Scope, ScopeFunction, SourceScope
  <2>7. CASE mod.owner[g] # None
    <3> DEFINE o == mod.owner[g]
               N == Named(mod.source[o])
    <3>1. o \in Func /\ mod.prefix[g] = mod.source[o] /\ mod.source[o] \in Name
      BY <2>3, <2>4, <2>7
    <3>2. NameKept(g) => o \in N /\ \A f \in N : f = o
      BY <2>4, <2>5, <2>7, <3>1 DEF NameKept
    <3>3. NameKept(g) => type[g] = SourceScope(g)
      <4>1. mod.prefix[g] # None
        BY <3>1, ValuesAssumption
      <4> QED
        BY <2>2, <2>7, <3>1, <3>2, <4>1 DEF Scope, IsStaticFuncVar, SourceScope
    <3>4. fn[g] = IF mod.nested[g] \/ N = {} THEN None ELSE CHOOSE f \in N : TRUE
      BY <2>2, <2>7 DEF ScopeFunction
    <3>5. N # {} => (CHOOSE f \in N : TRUE) \in N
      OBVIOUS
    <3>6. \A f \in N : f \in Func /\ mod.name[f] = mod.source[o]
      BY <2>5
    <3> HIDE DEF N
    <3>7. NameKept(g) => fn[g] = IF mod.nested[g] THEN None ELSE o
      BY <3>2, <3>4, <3>5
    <3>8. fn[g] # None => fn[g] \in N
      BY <3>4, <3>5
    <3>9. \A f \in N : mod.source[f] = mod.source[o]
      BY <2>4, <3>1, <3>6
    <3> QED
      BY <3>3, <3>7, <3>8, <3>9
  <2> QED
    BY <2>6, <2>7
<1> QED
  BY <1>1, BuildInvariant, PTL

\* The construction ends early for one of three reasons, and never gets past
\* the first two.
THEOREM CrashesExplained == Spec => []CrashExact
<1>1. ASSUME BuildInv, pc = "done" PROVE ~(\E f \in Func : LateLabel(f))
  <2> SUFFICES ASSUME NEW f \in Func, LateLabel(f) PROVE FALSE
    OBVIOUS
  <2>1. PICK i, j \in DOMAIN mod.body[f] :
           /\ Labels(mod.body[f][i]) /\ mod.of[mod.body[f][i]] = mod.body[f][j] /\ j >= i
    BY DEF LateLabel, Labels
  <2>2. i \in 1 .. Len(mod.body[f]) /\ j \in 1 .. Len(mod.body[f]) /\ Len(mod.body[f]) \in Nat
    BY <1>1, <2>1, Lengths DEF BuildInv
  <2> DEFINE c == mod.body[f][i]
             t == mod.body[f][j]
  <2>3. c \in InstsOf(f) /\ t \in InstsOf(f)
    BY <2>1 DEF InstsOf
  <2>4. c \in Nat /\ t \in Nat
    BY <1>1, <2>3, InstsTyped DEF BuildInv
  <2>5. c \in InstsDone
    BY <1>1, <2>3, InstsDoneIs DEF FuncsDone
  <2>6. t < c
    BY <1>1, <2>1, <2>5 DEF BuildInv, DoneInv, SafeInv
  <2>7. i = j \/ i < j
    BY <2>1, <2>2
  <2>8. c = t \/ c < t
    BY <1>1, <2>2, <2>7, InstsTyped DEF BuildInv
  <2> QED
    BY <2>4, <2>6, <2>8
<1>2. ASSUME BuildInv, pc = "done" PROVE ~(\E i \in DOMAIN mod.annos : Bodiless(mod.annos[i]))
  BY <1>2, Lengths DEF BuildInv, DoneInv, SafeInv, EntriesDone
<1>3. ASSUME BuildInv PROVE CrashExact
  BY <1>1, <1>2, <1>3 DEF BuildInv, CrashInv, CrashExact
<1> QED
  BY <1>3, BuildInvariant, PTL

\* What a finished graph holds, of the sets the invariant speaks of.
LEMMA AllDone ==
    ASSUME pc = "done", PlaceInv
    PROVE  /\ GlobalsDone = Global /\ FuncsDone = Func
           /\ EntriesDone = DOMAIN mod.annos
           /\ \A v : v \in InstsDone <=> \E f \in Func : v \in InstsOf(f)
<1>1. Begun = {}
  BY DEF Begun
<1> QED
  BY <1>1, Lengths, InstsDoneIs DEF GlobalsDone, FuncsDone, EntriesDone

\* A finished graph has the nodes, the labels and the annotation edges that the
\* module asks for, and no others.
THEOREM LabelsAreExact == Spec => []LabelsExact
<1>1. ASSUME BuildInv, pc = "done"
      PROVE  /\ \A v \in Value :
                   type[v] # None <=>
                      \/ v \in Global /\ (mod.debug[v] \/ Entries(v) # {})
                      \/ v \in Func /\ Defined(v)
                      \/ \E f \in Func : v \in InstsOf(f)
             /\ \A v \in Func \cup Global :
                   /\ anno[v] = GlobalLabel(v)
                   /\ v \in edges <=> Entries(v) # {}
             /\ \A f \in Func : \A v \in InstsOf(f) : anno[v] = LocalLabel(v)
             /\ edges # {} => type[Annotations] = "ANNO_GLOBAL"
  <2>1. /\ GlobalsDone = Global /\ FuncsDone = Func /\ EntriesDone = DOMAIN mod.annos
        /\ \A v : v \in InstsDone <=> \E f \in Func : v \in InstsOf(f)
    BY <1>1, AllDone DEF BuildInv
  <2>2. DoneInv /\ PlaceInv
    BY <1>1 DEF BuildInv
  <2>3. \A v : Entries(v) \subseteq DOMAIN mod.annos /\ Entries(v) \subseteq Nat
    BY <2>2, Lengths DEF Entries
  <2>4. \A v : EntriesDone \cap Entries(v) = Entries(v)
    BY <2>1, <2>3
  <2>5. \A v \in Value :
           type[v] # None <=>
              \/ v \in Global /\ (mod.debug[v] \/ Entries(v) # {})
              \/ v \in Func /\ Defined(v)
              \/ \E f \in Func : v \in InstsOf(f)
    <3> TAKE v \in Value
    <3>1. type[v] # None <=> Made(v)
      BY <2>2 DEF DoneInv, NodesInv
    <3>2. EntriesDone \cap Entries(v) = Entries(v)
      BY <2>4
    <3> QED
      BY <2>1, <3>1, <3>2 DEF Made
  <2>6. ASSUME NEW v \in Func \cup Global
        PROVE  anno[v] = GlobalLabel(v) /\ (v \in edges <=> Entries(v) # {})
    <3> DEFINE D == Entries(v)
    <3>1. /\ v \in edges <=> D # {}
          /\ D = {} => anno[v] = None
          /\ D # {} => \E i \in D : anno[v] = mod.annos[i].label /\ \A j \in D : j <= i
      BY <2>2, <2>4 DEF DoneInv, LabelsInv
    <3>2. D \subseteq Nat
      BY <2>3
    <3>3. GlobalLabel(v) = IF D = {} THEN None
                           ELSE mod.annos[CHOOSE i \in D : \A j \in D : j <= i].label
      BY DEF GlobalLabel
    <3> HIDE DEF D
    <3>4. ASSUME D # {} PROVE anno[v] = GlobalLabel(v)
      <4>1. PICK i \in D : anno[v] = mod.annos[i].label /\ \A j \in D : j <= i
        BY <3>1, <3>4
      <4> DEFINE k == CHOOSE n \in D : \A j \in D : j <= n
      <4>2. k \in D /\ \A j \in D : j <= k
        BY <4>1
      <4> HIDE DEF k
      <4>3. i = k
        BY <3>2, <4>1, <4>2
      <4> QED
        BY <3>3, <3>4, <4>1, <4>3 DEF k
    <3> QED
      BY <3>1, <3>3, <3>4 DEF D
  <2>7. ASSUME NEW f \in Func, NEW v \in InstsOf(f) PROVE anno[v] = LocalLabel(v)
    <3> DEFINE D == LocalEntries(v)
    <3>1. \A i \in D : \E h \in Func : i \in InstsOf(h)
      BY DEF LocalEntries
    <3>2. LocalsDone(v) = D /\ D \subseteq Nat
      BY <2>1, <2>2, <3>1, InstsTyped DEF LocalsDone
    <3>3. v \in Inst
      BY <2>2, InstsTyped
    <3>4. /\ D = {} => anno[v] = None
          /\ D # {} => \E i \in D : anno[v] = mod.label[i] /\ \A j \in D : j <= i
      BY <2>2, <3>2, <3>3 DEF DoneInv, LocalsInv
    <3>5. LocalLabel(v) = IF D = {} THEN None
                          ELSE mod.label[CHOOSE i \in D : \A j \in D : j <= i]
      BY DEF LocalLabel
    <3> HIDE DEF D
    <3>6. ASSUME D # {} PROVE anno[v] = LocalLabel(v)
      <4>1. PICK i \in D : anno[v] = mod.label[i] /\ \A j \in D : j <= i
        BY <3>4, <3>6
      <4> DEFINE k == CHOOSE n \in D : \A j \in D : j <= n
      <4>2. k \in D /\ \A j \in D : j <= k
        BY <4>1
      <4> HIDE DEF k
      <4>3. i = k
        BY <3>2, <4>1, <4>2
      <4> QED
        BY <3>5, <3>6, <4>1, <4>3 DEF k
    <3> QED
      BY <3>4, <3>5, <3>6
  <2> QED
    BY <2>2, <2>5, <2>6, <2>7 DEF DoneInv
<1>2. ASSUME BuildInv PROVE LabelsExact
  BY <1>1, <1>2 DEF LabelsExact
<1> QED
  BY <1>2, BuildInvariant, PTL
=============================================================================
