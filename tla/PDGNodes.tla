------------------------------ MODULE PDGNodes ------------------------------
(***************************************************************************)
(* The nodes a program dependence graph can have for `prog', and which     *)
(* parameter trees its functions and calls are given.  Nothing here        *)
(* depends on the state of the construction.                               *)
(***************************************************************************)
EXTENDS LLVMProgram

-----------------------------------------------------------------------------
(* Nodes: one for a value that has one, and one for each place of a tree. *)

ValNode(v)        == <<"val", v>>
AnnotationsNode   == <<"annotations">>
FIn(f, k, p)      == <<"fin", f, k, p>>
FOut(f, k, p)     == <<"fout", f, k, p>>
AIn(c, f, k, p)   == <<"ain", c, f, k, p>>
AOut(c, f, k, p)  == <<"aout", c, f, k, p>>

Node == ({"val"} \X (Inst \cup Global \cup Func))
        \cup {AnnotationsNode}
        \cup ({"fin", "fout"} \X Func \X Nat \X Path)
        \cup ({"ain", "aout"} \X Inst \X Func \X Nat \X Path)

\* The nodes of both trees at position k.
FormalTrees(f, k) == {FIn(f, k, p) : p \in Shape(f, k)}
                     \cup {FOut(f, k, p) : p \in Shape(f, k)}
ActualTrees(c, f, k) == {AIn(c, f, k, p) : p \in Shape(f, k)}
                        \cup {AOut(c, f, k, p) : p \in Shape(f, k)}

Below(f, k) == Shape(f, k) \ {Root}
FormalFields(f, k) ==
    {<<FIn(f, k, Parent[p]), FIn(f, k, p), "PARAMETER_FIELD">> : p \in Below(f, k)}
    \cup {<<FOut(f, k, Parent[p]), FOut(f, k, p), "PARAMETER_FIELD">> : p \in Below(f, k)}
ActualFields(c, f, k) ==
    {<<AIn(c, f, k, Parent[p]), AIn(c, f, k, p), "PARAMETER_FIELD">> : p \in Below(f, k)}
    \cup {<<AOut(c, f, k, Parent[p]), AOut(c, f, k, p), "PARAMETER_FIELD">> : p \in Below(f, k)}

-----------------------------------------------------------------------------
(* The trees of a call.  They are made argument by argument up to the first *)
(* formal argument with no tree, and filed under the argument's value: an   *)
(* argument passed twice keeps the tree of its first position.              *)

Built(c, f) == IF f \in prog.varArg THEN {} ELSE TreePrefix(f)

\* Mutant: the first tree of the call whatever the value of the argument.
TreeOfAnyValue(c, f, k) == {j \in Built(c, f) : \A i \in Built(c, f) : j <= i}

\* The position, if any, whose tree the k-th actual argument is given.
TreeOf(c, f, k) ==
    {j \in Built(c, f) :
        /\ Actual(c, j) = Actual(c, k)
        /\ \A i \in Built(c, f) : Actual(c, i) = Actual(c, k) => j <= i}

CallFields(c, f) == UNION {ActualFields(c, f, k) : k \in Built(c, f) \cup {0}}
CallTrees(c, f) == UNION {TreeOf(c, f, k) : k \in 1 .. NumActual(c)}

\* The address variables of an actual tree: at the root the argument, or the
\* call itself for the value it returns.
ActualAddr(c, k, p) ==
    IF p = Root THEN {IF k = 0 THEN c ELSE Actual(c, k)}
    ELSE {i \in Inst : <<c, k, p, i>> \in prog.derived}

=============================================================================
