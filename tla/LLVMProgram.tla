---------------------------- MODULE LLVMProgram ----------------------------
(***************************************************************************)
(* The input of the passes: one LLVM module with its debug information, as *)
(* the passes see it through the LLVM API.  It is a record `prog', chosen  *)
(* from Programs in the initial state and never changed: the passes are    *)
(* analyses.  Instructions are numbered in textual order.  A parameter     *)
(* tree is abstracted to the set of its paths (module ParamTree models how *)
(* the tree is grown): position k >= 1 of a function is its k-th formal    *)
(* argument and position 0 its return value.                               *)
(***************************************************************************)
EXTENDS Integers, Sequences, FiniteSets

CONSTANTS
    Func,      \* the functions the module defines
    Inst,      \* its instructions, numbers in textual order
    Global,    \* its global variables
    Opaque,    \* operands that never get a node: constants and arguments
    Indirect,  \* the callee of a call through a pointer
    External,  \* the callee of a call to a function with no body
    Path,      \* places in a parameter tree
    Root,      \* the root of every tree
    Parent,    \* the place above each place but the root
    Programs   \* the modules under consideration

VARIABLE prog

Value == Inst \cup Global \cup Func \cup Opaque

InstKind == {"call", "ret", "br", "anno", "other"}

EdgeType == {"CONTROLDEP_CALLINV", "CONTROLDEP_CALLRET", "CONTROLDEP_ENTRY",
             "CONTROLDEP_BR", "IND_CALL",
             "DATA_DEF_USE", "DATA_GLOBAL_DEF_USE", "DATA_RAW", "DATA_RET",
             "DATA_INDIRECT_RET", "DATA_ALIAS", "DATA_CALLEE",
             "DATA_ARGPASS_IN", "DATA_ARGPASS_OUT",
             "DATA_ARGPASS_INDIRECT_IN", "DATA_ARGPASS_INDIRECT_OUT",
             "PARAMETER_IN", "PARAMETER_OUT", "PARAMETER_FIELD",
             "ANNO_VAR", "ANNO_GLOBAL"}

\* The types the data dependency pass gives its edges.
DataDepType == {"DATA_DEF_USE", "DATA_RAW", "DATA_ALIAS", "DATA_CALLEE", "ANNO_VAR"}

-----------------------------------------------------------------------------
(* What the passes ask of the module. *)

InstsOf(f) == {i \in Inst : prog.owner[i] = f}

\* addInst keeps the call and return instructions of a function apart.
CallsOf(f) == {i \in InstsOf(f) : prog.kind[i] = "call"}
RetsOf(f)  == {i \in InstsOf(f) : prog.kind[i] = "ret"}

\* getInstructionBeforeInst: the instructions textually before c in its
\* function.
Before(i, c) == prog.owner[i] = prog.owner[c] /\ i < c

Callee(c)    == prog.callee[c]
Actual(c, k) == prog.actual[c][k]
NumActual(c) == Len(prog.actual[c])

\* The places of the tree at position k of f; an argument with no debug
\* variable or no alloca has none.
Shape(f, k)   == {p \in Path : <<f, k, p>> \in prog.shape}
HasTree(f, k) == Shape(f, k) # {}
Positions(f)  == 1 .. prog.arity[f]

\* The arguments before the first one with no tree: where several loops over
\* the arguments stop.
TreePrefix(f) == {k \in Positions(f) : \A j \in 1 .. k : HasTree(f, j)}

\* The address variables the tree nodes collect from uses in the function.
FormalAddr(f, k, p) == {v \in Value : <<f, k, p, v>> \in prog.addr}

\* hasWriteAccess: some store of a value that is no argument goes to v.
Stored(v) == v \in prog.stored

-----------------------------------------------------------------------------
(* What holds of every module the passes accept.  `uses' has the users of a  *)
(* global variable or function that can have nodes; of the constant          *)
(* expressions that use a global variable `inits' has the one the other      *)
(* global is initialised with.  `callee' sees through casts, `uses' does not. *)

WellTyped(P) ==
    /\ P.order \in Seq(Func)
    /\ P.owner \in [Inst -> Func]
    /\ P.kind \in [Inst -> InstKind]
    /\ P.callee \in [Inst -> Func \cup {Indirect, External}]
    /\ P.actual \in [Inst -> Seq(Value)]
    /\ P.arity \in [Func -> Nat]
    /\ P.varArg \subseteq Func
    /\ P.shape \subseteq Func \X Nat \X Path
    /\ P.addr \subseteq Func \X Nat \X Path \X Value
    /\ P.derived \subseteq Inst \X Nat \X Path \X Inst
    /\ P.stored \subseteq Value
    /\ P.dataDeps \subseteq Inst \X (Inst \cup Func) \X DataDepType
    /\ P.branchDeps \subseteq Inst \X Inst
    /\ P.debugged \subseteq Global
    /\ P.uses \subseteq (Global \cup Func) \X (Inst \cup Global \cup Func)
    /\ P.inits \subseteq Global \X Global
    /\ P.annotated \subseteq P.debugged \cup Func
    /\ P.matches \subseteq Inst \X Func

\* The functions are listed once each.
ListedOnce(P) ==
    /\ \A f \in Func : \E n \in 1 .. Len(P.order) : P.order[n] = f
    /\ \A m, n \in 1 .. Len(P.order) : P.order[m] = P.order[n] => m = n

\* Trees are closed under Parent and the return value always has a root.
TreesClosed(P) ==
    /\ \A f \in Func : <<f, 0, Root>> \in P.shape
    /\ \A s \in P.shape : /\ s[2] \in 0 .. P.arity[s[1]]
                          /\ <<s[1], s[2], Root>> \in P.shape
                          /\ s[3] # Root => <<s[1], s[2], Parent[s[3]]>> \in P.shape
    /\ \A d \in P.derived : d[3] # Root

\* A direct or matching call passes as many arguments as its callee takes, and
\* one value has one type, hence one shape.
MayCall(P, c, f) ==
    /\ P.kind[c] = "call"
    /\ f \notin P.varArg
    /\ P.callee[c] = f \/ <<c, f>> \in P.matches
Places(P, f, k) == {p \in Path : <<f, k, p>> \in P.shape}
CallsFit(P) ==
    \A c \in Inst, f \in Func :
        MayCall(P, c, f) =>
           /\ Len(P.actual[c]) = P.arity[f]
           /\ \A j, k \in 1 .. P.arity[f] :
                 /\ P.actual[c][j] = P.actual[c][k]
                 /\ Places(P, f, j) # {}
                 /\ Places(P, f, k) # {}
                 => Places(P, f, j) = Places(P, f, k)

WellFormed(P) ==
    /\ ListedOnce(P)
    /\ TreesClosed(P)
    /\ CallsFit(P)
    /\ P.matches \cap (Inst \X P.varArg) = {}

ASSUME NamesAssumption ==
    /\ Func # {}
    /\ Inst \subseteq Nat
    /\ Root \in Path
    /\ Parent \in [Path \ {Root} -> Path]
    /\ Indirect \notin Func
    /\ External \notin Func \cup {Indirect}

ASSUME ProgramsAssumption ==
    \A P \in Programs : WellTyped(P) /\ WellFormed(P)

=============================================================================
