--------------------------- MODULE DataDependency ---------------------------
(***************************************************************************)
(* The data dependency pass (DataDependencyGraph.cpp): function by         *)
(* function and instruction by instruction it adds def-use,                *)
(* read-after-write, alias and callee edges between nodes that exist       *)
(* already.  Edges are triples <<source, destination, type>> of values.    *)
(*                                                                         *)
(* LLVM's memory dependence analysis is an oracle: it may give any answer  *)
(* that Dependencies allows.                                               *)
(***************************************************************************)
EXTENDS Integers, FiniteSets, FiniteSetsExt, Sequences, SequencesExt

CONSTANTS
    NInst,     \* how many instructions there are
    Func,      \* functions with a body
    Opaque,    \* values with no node: arguments, constants
    None,      \* no instruction
    Programs

\* Instructions are numbers in textual order.
Inst == 1 .. NInst

ASSUME InstAssumption == NInst \in Nat /\ None \notin Inst

Value == Inst \cup Func \cup Opaque

InstKind == {"alloca", "load", "store", "bitcast", "call", "anno", "other"}

(***************************************************************************)
(* A module: its functions in order, and for each instruction the function *)
(* and basic block it is in and its operands, in the order LLVM has them:  *)
(* a store has the value before the address, a call its callee last.       *)
(***************************************************************************)
ProgramRecord ==
    [order : Seq(Func), owner : [Inst -> Func], block : [Inst -> Nat],
     kind : [Inst -> InstKind], operands : [Inst -> Seq(Value)],
     pointers : SUBSET Value]

Arity(k) == CASE k = "alloca" -> {0} [] k = "store" -> {2}
              [] k \in {"load", "bitcast"} -> {1} [] OTHER -> Nat

WellFormedProgram(P) ==
    /\ P \in ProgramRecord
    /\ IsInjective(P.order) /\ ToSet(P.order) = Func
    /\ \A i \in Inst :
          /\ Len(P.operands[i]) \in Arity(P.kind[i])
          /\ \A o \in ToSet(P.operands[i]) \cap Inst : 
                o < i /\ P.owner[o] = P.owner[i] /\ P.kind[o] # "store"
          /\ P.kind[i] = "alloca" => i \in P.pointers
          /\ P.kind[i] = "store" => i \notin P.pointers
          /\ P.kind[i] \in {"load", "store"} => Last(P.operands[i]) \in P.pointers
          /\ P.kind[i] = "bitcast" => (i \in P.pointers <=> P.operands[i][1] \in P.pointers)
    /\ \A i, j \in Inst : P.block[i] = P.block[j] => P.owner[i] = P.owner[j]

ASSUME ProgramsAssumption == \A P \in Programs : WellFormedProgram(P)

VARIABLES
    prog,
    at,     \* the place of the function the pass is at
    left,   \* the instructions of that function still to be visited
    step,   \* which of the four kinds of edges comes next
    edges

dataVars == <<prog, at, left, step, edges>>

InstsOf(f) == {i \in Inst : prog.owner[i] = f}

DataInit ==
    /\ prog \in Programs
    /\ at = 1
    /\ left = InstsOf(prog.order[1])
    /\ step = "defuse"
    /\ edges = {}

I == Min(left)

-----------------------------------------------------------------------------
(* What the pass asks of the module. *)

Kind(v)    == IF v \in Inst THEN prog.kind[v] ELSE "none"
Users(v)   == {i \in Inst : v \in ToSet(prog.operands[i])}
Address(i) == Last(prog.operands[i])

HasNode(v) == v \in Inst \cup Func

Before(l) == {i \in Inst : prog.block[i] = prog.block[l] /\ i < l}

\* Where the analysis stops on its way back from a load: at the allocation the
\* load is from, and at a load or store of the very same address.  What merely
\* computes the address (a cast, a field access, another load) does not stop it.
Stops(l) ==
    {i \in Before(l) : \/ Kind(i) = "alloca" /\ i = Address(l)
                       \/ Kind(i) \in {"load", "store"} /\ Address(i) = Address(l)}

\* What the analysis may answer: the last of these, a later instruction that
\* may access the place, or nothing, as it gives up after so many instructions.
Dependencies(l) ==
    {i \in Before(l) : /\ i \in Stops(l) \/ Kind(i) \in {"load", "store", "call"}
                       /\ \A s \in Stops(l) : s <= i}
    \cup {None}

\* Mutant: any store of a value the address occurs in.
StoredToAnyUse(p) ==
    {prog.operands[s][1] : s \in {u \in Users(p) : Kind(u) = "store"}}

\* Mutant: what the first store puts there.
StoredToFirst(p) ==
    LET S == {u \in Users(p) : Kind(u) = "store" /\ Address(u) = p}
    IN IF S = {} THEN {} ELSE {prog.operands[Min(S)][1]}

\* What is stored through p somewhere.
StoredTo(p) ==
    {prog.operands[s][1] : s \in {u \in Users(p) : Kind(u) = "store" /\ Address(u) = p}}

\* queryAliasUnderApproximate
Aliased(v, w) ==
    /\ {v, w} \subseteq prog.pointers
    /\ \/ Kind(v) = "bitcast" /\ prog.operands[v][1] = w
       \/ Kind(v) = "load" /\ w \in StoredTo(Address(v))

-----------------------------------------------------------------------------
(* One instruction. *)

AddDefUseEdges ==
    /\ left # {} /\ step = "defuse"
    /\ edges' = edges \cup
          {<<I, u, IF Kind(u) = "anno" THEN "ANNO_VAR" ELSE "DATA_DEF_USE">> : u \in Users(I)}
    /\ step' = "raw"
    /\ UNCHANGED <<prog, at, left>>

Writes(d) == d # None /\ Kind(d) = "store"

AddRAWEdges ==
    /\ left # {} /\ step = "raw"
    /\ \E d \in IF Kind(I) = "load" THEN Dependencies(I) ELSE {None} :
          edges' = edges \cup (IF Writes(d) THEN {<<d, I, "DATA_RAW">>} ELSE {})
    /\ step' = "alias"
    /\ UNCHANGED <<prog, at, left>>

AddAliasEdges ==
    /\ left # {} /\ step = "alias"
    /\ edges' = edges \cup
          {<<I, w, "DATA_ALIAS">> : w \in {i \in InstsOf(prog.owner[I]) \ {I} : Aliased(I, i)}}
    /\ step' = "callee"
    /\ UNCHANGED <<prog, at, left>>

Visited == left \ {I}

AddCalleeEdge ==
    /\ left # {} /\ step = "callee"
    /\ edges' = IF Kind(I) \in {"call", "anno"} /\ HasNode(Address(I))
                THEN edges \cup {<<I, Address(I), "DATA_CALLEE">>} ELSE edges
    /\ left' = Visited
    /\ step' = "defuse"
    /\ UNCHANGED <<prog, at>>

NextFunction ==
    /\ left = {}
    /\ at < Len(prog.order)
    /\ at' = at + 1
    /\ left' = InstsOf(prog.order[at + 1])
    /\ UNCHANGED <<prog, step, edges>>

DataNext ==
    \/ AddDefUseEdges
    \/ AddRAWEdges
    \/ AddAliasEdges
    \/ AddCalleeEdge
    \/ NextFunction

DataSpec == DataInit /\ [][DataNext]_dataVars /\ WF_dataVars(DataNext)

-----------------------------------------------------------------------------
(* Properties. *)

Finished == left = {} /\ at = Len(prog.order)

\* What values may point to, and the objects they point to may hold, when the
\* order of instructions is ignored.  Whatever is not computed from other
\* pointers points to an object of its own; one more stands for all that may be
\* reached from there to begin with.
Object == {"own", "inner"} \X Value

Unordered ==
    [to   |-> [v \in Value |-> IF v \in prog.pointers /\ Kind(v) \notin {"bitcast", "load"}
                              THEN {<<"own", v>>} ELSE {}],
     held |-> [o \in Object |-> {<<"inner", o[2]>>}]]

\* One round of the rules: what a cast or load points to, and what stores leave
\* in the objects they may write to.
Round(R) ==
    [to   |-> [v \in Value |-> R.to[v] \cup
                  CASE Kind(v) = "bitcast" -> R.to[prog.operands[v][1]]
                    [] Kind(v) = "load" -> UNION {R.held[o] : o \in R.to[Address(v)]}
                    [] OTHER -> {}],
     held |-> [o \in Object |-> R.held[o] \cup
                  UNION {R.to[prog.operands[s][1]] :
                            s \in {t \in Inst : Kind(t) = "store" /\ o \in R.to[Address(t)]}}]]

\* A round for each instruction, and two.  More rounds only add to it.
PointsTo[n \in 0 .. NInst + 2] == IF n = 0 THEN Unordered ELSE Round(PointsTo[n - 1])

\* Alias edges under-approximate what a flow-insensitive points-to analysis
\* says: they join values that may point to the same object.
AliasUnderApproximates ==
    Finished =>
        LET to == PointsTo[NInst + 2].to
        IN \A e \in edges : e[3] = "DATA_ALIAS" => to[e[1]] \cap to[e[2]] # {}

\* The two analyses agree: whatever LLVM's answers are, a pointer that a
\* read-after-write edge says is read back from the address it was stored at
\* is linked to the stored one as an alias too.
AliasFollowsRaw ==
    Finished => \A e \in edges :
        LET v == prog.operands[e[1]][1]
        IN e[3] = "DATA_RAW" /\ Address(e[1]) = Address(e[2]) /\ v \in Inst
             /\ {v, e[2]} \subseteq prog.pointers
           => <<e[2], v, "DATA_ALIAS">> \in edges

=============================================================================
