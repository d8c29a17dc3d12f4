---------------------------- MODULE MCGraphBuild ----------------------------
(***************************************************************************)
(* Small modules: two functions, two global variables, four instructions.  *)
(***************************************************************************)
EXTENDS GraphBuild

CONSTANTS fun1, fun2, glob1, glob2

MCFunc == {fun1, fun2}
MCGlobal == {glob1, glob2}
MCInst == 1 .. 4
MCName == {"f", "h", "v", "f.1"}

\* Both functions in either order; fun2 is defined or declared.  Two functions
\* of one source name are told apart by a number.
Module(order, names, defined, g, annos, local) ==
    [funcs    |-> order,
     globals  |-> <<glob1, glob2>>,
     name     |-> [f \in MCFunc |-> IF f = fun1 THEN names[1] ELSE names[2]],
     source   |-> [f \in MCFunc |-> IF f = fun1 \/ names[2] # "h" THEN "f" ELSE "h"],
     body     |-> [f \in MCFunc |-> IF f = fun1 THEN <<1, 2, 3>>
                                    ELSE IF defined THEN <<4>> ELSE <<>>],
     debug    |-> [v \in MCGlobal |-> IF v = glob1 THEN g.debug ELSE TRUE],
     owner    |-> [v \in MCGlobal |-> IF v = glob1 THEN g.owner ELSE fun1],
     nested   |-> [v \in MCGlobal |-> v = glob1 /\ g.nested],
     internal |-> [v \in MCGlobal |-> v = glob1 => g.internal],
     prefix   |-> [v \in MCGlobal |-> IF v = glob1 THEN g.prefix ELSE "f"],
     kind     |-> [i \in MCInst |-> CASE i = local.first -> "anno" [] i = 3 -> "br"
                                      [] i = 4 -> "ret" [] i = local.second -> "anno"
                                      [] OTHER -> "call"],
     of       |-> [i \in MCInst |-> IF i \in {local.first, local.second} THEN local.of ELSE None],
     label    |-> [i \in MCInst |-> IF i = local.first THEN "RED" ELSE "BLUE"],
     byInst   |-> [i \in MCInst |-> local.byInst],
     annos    |-> annos]

Orders == {<<fun1, fun2>>, <<fun2, fun1>>}

\* The names of the functions; the second pair is of one source name.
Names == {<<"f", "h">>, <<"f", "f.1">>, <<"f.1", "f">>}

Sources(names) == [f \in MCFunc |-> IF f = fun1 \/ names[2] # "h" THEN "f" ELSE "h"]

Variables(names) ==
    [debug : BOOLEAN, owner : {None}, nested : {FALSE}, internal : BOOLEAN,
     prefix : {None, "f", "h", "v"}]
    \cup UNION {[debug : BOOLEAN, owner : {f}, nested : BOOLEAN, internal : {TRUE},
                 prefix : {Sources(names)[f]}] : f \in MCFunc}

NoLocal == [first |-> 0, second |-> 0, of |-> None, byInst |-> FALSE]

Locals ==
    {l \in [first : {1, 2}, second : {0, 2}, of : {1, 3}, byInst : BOOLEAN] :
        l.of # l.first /\ l.first # l.second}

Annos == [of : {glob1}, plain : {TRUE, FALSE}, label : {"RED"}]
         \cup [of : {glob1, fun1, fun2}, plain : {FALSE}, label : {"BLUE"}]

Lists == {<<>>} \cup {<<a>> : a \in Annos} \cup (Annos \X Annos)

Plain(names, debug) ==
    [debug |-> debug, owner |-> None, nested |-> FALSE, internal |-> FALSE, prefix |-> None]

\* Every way to name things, few annotations.
NameModules ==
    UNION {{Module(o, n, d, g, a, NoLocal) :
               o \in Orders, d \in BOOLEAN, g \in Variables(n),
               a \in {<<>>, <<[of |-> fun1, plain |-> FALSE, label |-> "RED"]>>}} : n \in Names}

\* Every way to annotate, plain names.
LabelModules ==
    {Module(<<fun1, fun2>>, n, d, Plain(n, b), a, l) :
        n \in {<<"f", "h">>}, d \in BOOLEAN, b \in BOOLEAN, a \in Lists, l \in Locals \cup {NoLocal}}

MCModules == NameModules \cup LabelModules
=============================================================================
