----------------------------- MODULE GraphBuild -----------------------------
(***************************************************************************)
(* How ProgramGraph::build makes the nodes of values and labels them       *)
(* (Graph.cpp): globals first, then the instructions and the entry of each *)
(* function, then the array of global annotations.  What kind of variable  *)
(* a global is, is guessed from its name; the function it belongs to, from *)
(* the name of its debug scope; what an annotation is about, from the      *)
(* operands of constants.  A null or a missing operand that the code       *)
(* dereferences ends the run.                                              *)
(*                                                                         *)
(* Parameter trees and call wrappers, which build makes in between, are in *)
(* the modules ProgramDependencyGraph and ParamTree.                       *)
(***************************************************************************)
EXTENDS Naturals, Sequences, FiniteSets

CONSTANTS
    Func, Global, Inst,  \* values; instructions are numbers in textual order
    Annotations,         \* llvm.global.annotations
    Name, Label,
    None,                \* no node, no owner, no label, no prefix
    Modules              \* the LLVM modules to build graphs of

Value == Func \cup Global \cup Inst

NodeType ==
    {"VAR_STATICALLOCGLOBALSCOPE", "VAR_STATICALLOCMODULESCOPE",
     "VAR_STATICALLOCFUNCTIONSCOPE", "FUNC_ENTRY", "INST_FUNCALL", "INST_RET", "INST_BR",
     "INST_OTHER", "ANNO_VAR", "ANNO_GLOBAL"}

ASSUME ValuesAssumption ==
    /\ Func \cap Global = {} /\ Func \cap Inst = {} /\ Global \cap Inst = {}
    /\ Inst \subseteq Nat
    /\ Annotations \notin Value
    /\ None \notin Value /\ None \notin Name /\ None \notin Label /\ None \notin NodeType

(***************************************************************************)
(* A module.  A static variable of function f has owner f and the name     *)
(* "f.x" in the source; `nested' when its scope is a block inside f.  A    *)
(* linker renames what clashes: a function `f' becomes "f.1", so its name  *)
(* is no longer its source name, and a variable `v' becomes "v.1"; what it *)
(* makes up is no name in the source.                                      *)
(* prefix[g] is what stands before the first dot of g's name.              *)
(***************************************************************************)
ModuleRecord ==
    [funcs    : Seq(Func),                     \* in the order of the module
     globals  : Seq(Global),
     name     : [Func -> Name],                \* of the LLVM function
     source   : [Func -> Name],                \* of its DISubprogram
     body     : [Func -> Seq(Inst)],           \* empty for a declaration
     debug    : [Global -> BOOLEAN],
     owner    : [Global -> Func \cup {None}],
     nested   : [Global -> BOOLEAN],
     internal : [Global -> BOOLEAN],
     prefix   : [Global -> Name \cup {None}],
     kind     : [Inst -> {"call", "ret", "br", "other", "anno"}],
     \* of a call to llvm.var.annotation: what it annotates, with which
     \* label, and whether an instruction or a constant points to the label
     of       : [Inst -> Inst \cup {None}],
     label    : [Inst -> Label],
     byInst   : [Inst -> BOOLEAN],
     \* the entries of llvm.global.annotations; a variable of type char is
     \* named as it is, any other value through a cast or an address
     annos    : Seq([of : Func \cup Global, plain : BOOLEAN, label : Label])]

WellFormed(m) ==
    /\ m \in ModuleRecord
    /\ {m.funcs[i] : i \in DOMAIN m.funcs} = Func
    /\ {m.globals[i] : i \in DOMAIN m.globals} = Global
    /\ \A i, j \in DOMAIN m.funcs : m.funcs[i] = m.funcs[j] => i = j
    /\ \A f \in Func : \A i, j \in DOMAIN m.body[f] : i < j => m.body[f][i] < m.body[f][j]
    /\ \A f, h \in Func :
          f # h => /\ m.name[f] # m.name[h]
                   /\ \A i \in DOMAIN m.body[f] : \A j \in DOMAIN m.body[h] :
                         m.body[f][i] # m.body[h][j]
    /\ \A f, h \in Func : m.name[f] = m.source[h] => m.source[f] = m.name[f]
    /\ \A f \in Func : \A i \in DOMAIN m.body[f] :
          m.kind[m.body[f][i]] = "anno" =>
              \E j \in DOMAIN m.body[f] : m.of[m.body[f][i]] = m.body[f][j]
    /\ \A g \in Global :
          /\ m.owner[g] # None => m.internal[g] /\ m.prefix[g] = m.source[m.owner[g]]
          /\ m.owner[g] = None => ~m.nested[g]
    /\ \A i \in DOMAIN m.annos : m.annos[i].plain => m.annos[i].of \in Global

ASSUME ModulesAssumption == \A m \in Modules : WellFormed(m)

VARIABLES
    mod,      \* the module
    pc,       \* the loop of build
    cur, at,  \* the element of the list, and the instruction of the function
    type,     \* _val_node_map: the type of the node of each value, or None
    fn,       \* _func of the node
    anno,     \* _annotation of the node
    edges     \* from annotated values to the node of the annotations

vars == <<mod, pc, cur, at, type, fn, anno, edges>>

Init ==
    /\ mod \in Modules
    /\ pc = "globals"
    /\ cur = 1
    /\ at = 1
    /\ type = [v \in Value \cup {Annotations} |-> None]
    /\ fn = [v \in Value \cup {Annotations} |-> None]
    /\ anno = [v \in Value \cup {Annotations} |-> None]
    /\ edges = {}

\* The next element of the list, behind the last of which the loop ends.
Step(list) == cur \in DOMAIN list /\ cur' = cur + 1 /\ UNCHANGED pc

EndLoop(loop, list, after) ==
    /\ pc = loop
    /\ cur = Len(list) + 1
    /\ cur' = 1
    /\ pc' = after

Crash == pc' = "crashed" /\ UNCHANGED <<cur, at, type, fn, anno, edges>>

-----------------------------------------------------------------------------
(* Global variables. *)

Named(n) == {f \in Func : mod.name[f] = n}

\* isStaticFuncVar: a function has the name before the first dot.
IsStaticFuncVar(g) == mod.prefix[g] # None /\ Named(mod.prefix[g]) # {}

\* Mutant: linkage is asked for first.
ScopeByLinkage(g) ==
    IF mod.internal[g] THEN "VAR_STATICALLOCMODULESCOPE"
    ELSE IF IsStaticFuncVar(g) THEN "VAR_STATICALLOCFUNCTIONSCOPE"
    ELSE "VAR_STATICALLOCGLOBALSCOPE"

Scope(g) ==
    IF IsStaticFuncVar(g) THEN "VAR_STATICALLOCFUNCTIONSCOPE"
    ELSE IF mod.internal[g] THEN "VAR_STATICALLOCMODULESCOPE"
    ELSE "VAR_STATICALLOCGLOBALSCOPE"

\* The constructor's search for a function with the name of g's debug scope; a
\* file and a block have no name.
ScopeFunction(g) ==
    IF mod.owner[g] = None \/ mod.nested[g] THEN None
    ELSE IF Named(mod.source[mod.owner[g]]) = {} THEN None
    ELSE CHOOSE f \in Named(mod.source[mod.owner[g]]) : TRUE

\* A global with no debug information gets no node.
BuildGlobal ==
    /\ pc = "globals"
    /\ cur \in DOMAIN mod.globals
    /\ LET g == mod.globals[cur]
       IN IF mod.debug[g]
          THEN /\ type' = [type EXCEPT ![g] = Scope(g)]
               /\ fn' = [fn EXCEPT ![g] = ScopeFunction(g)]
          ELSE UNCHANGED <<type, fn>>
    /\ Step(mod.globals)
    /\ UNCHANGED <<mod, at, anno, edges>>

-----------------------------------------------------------------------------
(* Functions. *)

F == mod.funcs[cur]
I == mod.body[F][at]

InstType(i) ==
    CASE mod.kind[i] = "anno" -> "ANNO_VAR"
      [] mod.kind[i] = "ret"  -> "INST_RET"
      [] mod.kind[i] = "call" -> "INST_FUNCALL"
      [] mod.kind[i] = "br"   -> "INST_BR"
      [] OTHER                -> "INST_OTHER"

\* Mutant: whatever points to the label is followed.
LabelsAny(i) == mod.kind[i] = "anno"

\* Only an instruction that points to the label is followed: a constant
\* expression is no instruction.
Labels(i) == mod.kind[i] = "anno" /\ mod.byInst[i]

\* One instruction.  What it labels must have been met before it.
BuildInst ==
    /\ pc = "functions"
    /\ cur \in DOMAIN mod.funcs
    /\ at \in DOMAIN mod.body[F]
    /\ IF Labels(I) /\ type[mod.of[I]] = None THEN Crash
       ELSE /\ anno' = IF Labels(I) THEN [anno EXCEPT ![mod.of[I]] = mod.label[I]] ELSE anno
            /\ type' = [type EXCEPT ![I] = InstType(I)]
            /\ fn' = [fn EXCEPT ![I] = F]
            /\ at' = at + 1
            /\ UNCHANGED <<pc, cur, edges>>
    /\ UNCHANGED mod

\* The entry node, behind the last instruction; none for a declaration.
BuildEntry ==
    /\ pc = "functions"
    /\ cur \in DOMAIN mod.funcs
    /\ at = Len(mod.body[F]) + 1
    /\ IF mod.body[F] = <<>> THEN UNCHANGED <<type, fn>>
       ELSE /\ type' = [type EXCEPT ![F] = "FUNC_ENTRY"]
            /\ fn' = [fn EXCEPT ![F] = F]
    /\ at' = 1
    /\ Step(mod.funcs)
    /\ UNCHANGED <<mod, anno, edges>>

-----------------------------------------------------------------------------
(* buildGlobalAnnotationNodes *)

\* Mutant: the first label of a value stays.
FirstLabel(v, label) == IF anno[v] = None THEN label ELSE anno[v]

NewLabel(v, label) == label

\* An entry about a variable named as it is.  getOperand(0)->getOperand(0) is
\* meant to be the value below a cast; here it is the variable's initial value,
\* which is passed over.
PassOver ==
    /\ pc = "annotations"
    /\ cur \in DOMAIN mod.annos
    /\ mod.annos[cur].plain
    /\ type' = [type EXCEPT ![Annotations] = "ANNO_GLOBAL"]
    /\ Step(mod.annos)
    /\ UNCHANGED <<mod, at, fn, anno, edges>>

\* The value of an entry gets its label and its edge.
Annotate(a) ==
    /\ anno' = [anno EXCEPT ![a.of] = NewLabel(a.of, a.label)]
    /\ edges' = edges \cup {a.of}
    /\ Step(mod.annos)

AnnotateNode ==
    /\ pc = "annotations"
    /\ cur \in DOMAIN mod.annos
    /\ LET a == mod.annos[cur]
       IN /\ ~a.plain
          /\ type[a.of] # None
          /\ type' = [type EXCEPT ![Annotations] = "ANNO_GLOBAL"]
          /\ Annotate(a)
    /\ UNCHANGED <<mod, at, fn>>

\* A value with no node gets that of a global variable.  Its constructor takes
\* the variable's debug information: a function has none to ask for, and of a
\* variable that got no node it is the first element of an empty vector, on
\* the stack, which is no pointer or what an earlier call left there.
AnnotateMissing ==
    /\ pc = "annotations"
    /\ cur \in DOMAIN mod.annos
    /\ LET a == mod.annos[cur]
       IN /\ ~a.plain
          /\ type[a.of] = None
          /\ \/ Crash
             \/ /\ a.of \in Global
                /\ \E g \in {h \in Global : mod.debug[h]} :
                      fn' = [fn EXCEPT ![a.of] = ScopeFunction(g)]
                /\ type' = [type EXCEPT ![Annotations] = "ANNO_GLOBAL",
                                        ![a.of] = "VAR_STATICALLOCGLOBALSCOPE"]
                /\ Annotate(a)
                /\ UNCHANGED at
    /\ UNCHANGED mod

NextLoop ==
    /\ \/ EndLoop("globals", mod.globals, "functions")
       \/ EndLoop("functions", mod.funcs, "annotations")
       \/ EndLoop("annotations", mod.annos, "done")
    /\ UNCHANGED <<mod, at, type, fn, anno, edges>>

Next ==
    \/ BuildGlobal
    \/ BuildInst
    \/ BuildEntry
    \/ PassOver
    \/ AnnotateNode
    \/ AnnotateMissing
    \/ NextLoop

Spec == Init /\ [][Next]_vars /\ WF_vars(Next)

-----------------------------------------------------------------------------
(* Properties. *)

Defined(f) == mod.body[f] # <<>>
InstsOf(f) == {mod.body[f][i] : i \in DOMAIN mod.body[f]}

\* The last label the array gives v, if any, of the entries that count.
Entries(v) == {i \in DOMAIN mod.annos : mod.annos[i].of = v /\ ~mod.annos[i].plain}
GlobalLabel(v) ==
    IF Entries(v) = {} THEN None
    ELSE mod.annos[CHOOSE i \in Entries(v) : \A j \in Entries(v) : j <= i].label

LocalEntries(v) ==
    {i \in UNION {InstsOf(f) : f \in Func} :
        mod.kind[i] = "anno" /\ mod.byInst[i] /\ mod.of[i] = v}
LocalLabel(v) ==
    IF LocalEntries(v) = {} THEN None
    ELSE mod.label[CHOOSE i \in LocalEntries(v) : \A j \in LocalEntries(v) : j <= i]

\* A finished graph has a node for every value of the program that can have
\* one, and a label and an annotation edge exactly where the array has them:
\* of several labels of one value the last is left.  A variable of type char
\* is the one that goes without.
LabelsExact ==
    pc = "done" =>
        /\ \A v \in Value :
              type[v] # None <=>
                 \/ v \in Global /\ (mod.debug[v] \/ Entries(v) # {})
                 \/ v \in Func /\ Defined(v)
                 \/ \E f \in Func : v \in InstsOf(f)
        /\ \A v \in Func \cup Global :
              /\ anno[v] = GlobalLabel(v)
              /\ v \in edges <=> Entries(v) # {}
        /\ \A f \in Func : \A v \in InstsOf(f) : anno[v] = LocalLabel(v)
        /\ edges # {} => type[Annotations] = "ANNO_GLOBAL"

\* What the source says a variable is.
SourceScope(g) ==
    IF mod.owner[g] # None THEN "VAR_STATICALLOCFUNCTIONSCOPE"
    ELSE IF mod.internal[g] THEN "VAR_STATICALLOCMODULESCOPE"
    ELSE "VAR_STATICALLOCGLOBALSCOPE"

\* The linker left the names alone that the guess about g rests on.
NameKept(g) ==
    IF mod.owner[g] = None THEN mod.prefix[g] = None \/ Named(mod.prefix[g]) = {}
    ELSE mod.name[mod.owner[g]] = mod.source[mod.owner[g]]

\* Two searches, one by the name of the variable and one by the name of its
\* debug scope, agree with the source and with each other: a variable is a
\* static variable of a function exactly when it is one in the source, and
\* belongs to that function unless a block stands between.  Where the linker
\* renamed a function, its static variables go to nobody or to the function
\* that kept the name, never to a third one.
StaticsRecognised ==
    \A g \in Global :
        type[g] # None /\ mod.debug[g] =>
            /\ NameKept(g) =>
                  /\ type[g] = SourceScope(g)
                  /\ fn[g] = IF mod.nested[g] THEN None ELSE mod.owner[g]
            /\ fn[g] # None => mod.source[fn[g]] = mod.source[mod.owner[g]]

\* A label, pointed to by an instruction, for a value that stands later in the
\* text than the annotation.
LateLabel(f) ==
    \E i, j \in DOMAIN mod.body[f] :
        LET c == mod.body[f][i]
        IN mod.kind[c] = "anno" /\ mod.byInst[c] /\ mod.of[c] = mod.body[f][j] /\ j >= i

\* An entry about a declared function, and one about a variable with no debug
\* information.
Bodiless(a) == a.of \in Func /\ ~Defined(a.of)
Undescribed(a) == a.of \in Global /\ ~mod.debug[a.of] /\ ~a.plain

\* The construction always fails for the first two reasons, may fail for the
\* third, and fails for no other.
CrashExact ==
    LET late == \E f \in Func : LateLabel(f)
        bodiless == \E i \in DOMAIN mod.annos : Bodiless(mod.annos[i])
        undescribed == \E i \in DOMAIN mod.annos : Undescribed(mod.annos[i])
    IN /\ pc = "done" => ~late /\ ~bodiless
       /\ pc = "crashed" => late \/ bodiless \/ undescribed

\* Every annotation of a local variable labels it, as the recorded output of
\* the exporter has it (validator/test/websrv/pdg_instance.mzn).
LocalLabelsKept ==
    pc = "done" =>
        \A f \in Func : \A i \in InstsOf(f) :
            mod.kind[i] = "anno" => anno[mod.of[i]] # None

=============================================================================
