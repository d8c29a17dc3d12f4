---------------------- MODULE MCProgramDependencyGraph ----------------------
(***************************************************************************)
(* Small modules for TLC.  Two functions fun1 and fun2.  fun1 holds instructions    *)
(* 1 .. 4: a load of its first parameter, a field access, a call and a     *)
(* return; fun2 holds 5 .. 8 likewise.  Each tree is absent, a single node or *)
(* a pointer with the object below it.                                     *)
(***************************************************************************)
EXTENDS ProgramDependencyGraph

CONSTANTS fun1, fun2, glob, const, indirect, external

MCFunc == {fun1, fun2}
MCInst == 1 .. 8
MCParent == [p \in {"object"} |-> "root"]
Owner == [i \in MCInst |-> IF i <= 4 THEN fun1 ELSE fun2]
Kind == [i \in MCInst |-> CASE i \in {3, 7} -> "call"
                            [] i \in {4, 8} -> "ret"
                            [] OTHER -> "other"]

None    == {}
Scalar  == {"root"}
Pointer == {"root", "object"}

\* The trees of both functions, and the variables that use them: the load of
\* the first parameter at its root, the field access below.
Trees(shapes) == UNION {{<<h, k, p>> : p \in shapes[h][k]} : h \in MCFunc, k \in DOMAIN shapes[fun1]}
                 \cup {<<h, 0, "root">> : h \in MCFunc}
Uses(shapes) ==
    {u \in {<<fun1, 1, "root", 1>>, <<fun1, 1, "object", 2>>,
            <<fun2, 1, "root", 5>>, <<fun2, 1, "object", 6>>, <<fun2, 2, "root", 5>>,
            <<fun2, 3, "root", 6>>, <<fun2, 0, "root", 6>>} :
        <<u[1], u[2], u[3]>> \in Trees(shapes)}

\* Instruction 3 of fun1 calls calls[1] with args, instruction 7 of fun2 calls
\* calls[2] with a global and constants.  The initial value of the global holds
\* its own address; in some programs the global is a pointer to fun2.
Program(order, calls, args, shapes, stored, varArg, takers) ==
    [order |-> order,
     owner |-> Owner,
     kind |-> Kind,
     callee |-> [i \in MCInst |-> IF i = 3 THEN calls[1] ELSE IF i = 7 THEN calls[2] ELSE external],
     actual |-> [i \in MCInst |->
                    IF i = 3 THEN args
                    ELSE IF i = 7 THEN [k \in DOMAIN shapes[fun1] |-> IF k = 1 THEN glob ELSE const]
                    ELSE <<>>],
     arity |-> [h \in MCFunc |-> Len(shapes[h])],
     varArg |-> varArg,
     shape |-> Trees(shapes),
     addr |-> Uses(shapes),
     derived |-> {<<3, 1, "object", 2>>},
     stored |-> stored,
     dataDeps |-> {<<1, 2, "DATA_ALIAS">>, <<5, 6, "DATA_ALIAS">>, <<1, 3, "DATA_DEF_USE">>}
                  \cup {<<3, h, "DATA_CALLEE">> : h \in {calls[1]} \cap MCFunc},
     branchDeps |-> {<<1, 2>>},
     debugged |-> {glob},
     uses |-> {<<glob, 7>>} \cup ({fun2} \X takers)
              \cup {u \in {<<calls[1], 3>>, <<calls[2], 7>>} : u[1] \in MCFunc},
     inits |-> {<<glob, glob>>},
     annotated |-> {fun2},
     matches |-> {3, 7} \X ({fun2} \ varArg)]

\* The address of fun2 only matters when some call goes through a pointer.
Interesting(P) == <<fun2, glob>> \in P.uses => indirect \in {P.callee[3], P.callee[7]}

\* Two arguments, both orders of the functions, calls of every kind, direct
\* recursion and mutual recursion among them.
MCPrograms ==
    LET shapes == {[h \in MCFunc |-> IF h = fun1 THEN <<Pointer, Scalar>> ELSE s] :
                      s \in {None, Scalar, Pointer} \X {None, Pointer}}
    IN  {P \in {Program(o, <<c1, c2>>, a, s, w, {}, t) :
                  o \in {<<fun1, fun2>>, <<fun2, fun1>>},
                  c1 \in {fun1, fun2, indirect, external},
                  c2 \in {fun1, indirect, external},
                  a \in {<<1, 2>>, <<1, 1>>, <<const, glob>>},
                  s \in shapes,
                  w \in {{}, {5}, {2, 6}},
                  t \in {{}, {glob}}} : WellFormed(P) /\ Interesting(P)}

\* Three arguments, with gaps between the trees and values passed twice.
MCGapPrograms ==
    LET shapes == {[h \in MCFunc |-> IF h = fun1 THEN <<Scalar, Scalar, None>> ELSE s] :
                      s \in {None, Pointer} \X {None, Scalar, Pointer} \X {None, Scalar, Pointer}}
    IN  {P \in {Program(o, <<c1, external>>, a, s, w, v, {glob}) :
                  o \in {<<fun1, fun2>>, <<fun2, fun1>>},
                  c1 \in {fun2, indirect},
                  a \in {<<1, 2, 1>>, <<1, 1, 1>>, <<const, 2, const>>, <<1, 2, 1, const>>},
                  s \in shapes,
                  w \in {{2, 6}},
                  v \in {{}, {fun2}}} : WellFormed(P)}

MCAllPrograms == MCPrograms \cup MCGapPrograms
=============================================================================
