-------------------------- MODULE MCDataDependency --------------------------
(***************************************************************************)
(* Two functions.  The first has a local variable that holds a pointer and *)
(* three instructions, each a load, store, cast or call of any operands    *)
(* before it, in one block or two.  The second passes the first one its    *)
(* own local, which is annotated.                                          *)
(***************************************************************************)
EXTENDS DataDependency

CONSTANTS f, g, arg  \* model values

Pointers(i) == (1 .. i - 1) \cup {arg}

Forms(i) ==
    {<<"load", <<p>>>> : p \in Pointers(i)}
    \cup {<<"store", <<v, p>>>> : v \in Pointers(i), p \in Pointers(i)}
    \cup {<<"bitcast", <<p>>>> : p \in Pointers(i)}
    \cup {<<"call", <<arg, c>>>> : c \in {f, i - 1}}

Program(x, split, order) ==
    [order |-> order,
     owner |-> [i \in Inst |-> IF i <= 4 THEN f ELSE g],
     block |-> [i \in Inst |-> IF i <= 4 THEN IF i < split THEN 1 ELSE 2 ELSE 3],
     kind  |-> [i \in Inst |-> CASE i \in {1, 5} -> "alloca" [] i = 6 -> "anno"
                                    [] i = 7 -> "call" [] OTHER -> x[i][1]],
     operands |-> [i \in Inst |-> CASE i \in {1, 5} -> <<>> [] i = 6 -> <<5, arg>>
                                    [] i = 7 -> <<5, f>> [] OTHER -> x[i][2]],
     pointers |-> {arg} \cup {i \in 1 .. 5 : i \in {1, 5} \/ x[i][1] # "store"}]

MCPrograms ==
    {P \in {Program(<<0, c, d, e>>, s, o) : c \in Forms(2), d \in Forms(3), e \in Forms(4),
                                            s \in {3, 5}, o \in {<<f, g>>, <<g, f>>}} :
        WellFormedProgram(P)}
=============================================================================
