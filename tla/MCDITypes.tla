------------------------------ MODULE MCDITypes ------------------------------
(***************************************************************************)
(* A list node, a structure that holds one, pointers to it, typedefs and   *)
(* constants of both, a void pointer and an array.  A program starts from  *)
(* a local variable, a global or an argument of one of these types and     *)
(* computes one value from the last, in every way the types allow; in      *)
(* some, one block of instructions is laid out after a later one.          *)
(***************************************************************************)
EXTENDS DITypes

MCDIType == {"int", "node", "data", "next", "outer", "inner", "tail", "node_t", "const node_t",
             "node*", "node**", "node_p", "const node_p", "const node_t*", "outer*", "void*",
             "node[2]"}

MCTag == [t \in MCDIType |->
             CASE t \in {"node", "outer"} -> "struct"
               [] t \in {"data", "next", "inner", "tail"} -> "member"
               [] t \in {"node_t", "node_p"} -> "typedef"
               [] t \in {"const node_t", "const node_p"} -> "const"
               [] t \in {"int", "node[2]"} -> "base"
               [] OTHER -> "pointer"]

MCBase == [t \in MCDIType |->
              CASE t \in {"data", "tail"} -> "int"
                [] t \in {"next", "node**", "node_p"} -> "node*"
                [] t \in {"inner", "node_t", "node*"} -> "node"
                [] t = "const node_t" -> "node_t"
                [] t = "const node_p" -> "node_p"
                [] t = "const node_t*" -> "const node_t"
                [] t = "outer*" -> "outer"
                [] OTHER -> Null]

MCElements == [t \in MCDIType |-> CASE t = "node" -> <<"data", "next">>
                                    [] t = "outer" -> <<"inner", "tail">>
                                    [] OTHER -> <<>>]

MCOffset == [t \in MCDIType |-> CASE t = "next" -> 64 [] t = "tail" -> 128 [] OTHER -> 0]

MCLType == {"i32", "i32*", "i8*", "i8**", "%node", "%node*", "%node**", "%node***",
            "%outer", "%outer*", "%outer**", "[2 x %node]", "[2 x %node]*"}

Pointee == ("i32*" :> "i32") @@ ("i8**" :> "i8*")
           @@ ("%node*" :> "%node") @@ ("%node**" :> "%node*") @@ ("%node***" :> "%node**")
           @@ ("%outer*" :> "%outer") @@ ("%outer**" :> "%outer*")
           @@ ("[2 x %node]*" :> "[2 x %node]")

MCPointsTo == Pointee @@ [t \in MCLType |-> Null]

MCLayout == [t \in MCLType \cup {Null} |-> CASE t = "%node" -> <<0, 64>>
                                             [] t = "%outer" -> <<0, 128>>
                                             [] OTHER -> <<>>]

MCFields == [t \in MCLType \cup {Null} |-> CASE t = "%node" -> <<"i32", "%node*">>
                                             [] t = "%outer" -> <<"%node", "i32">>
                                             [] OTHER -> <<>>]

MCLowered == [t \in MCDIType |->
                 CASE t \in {"int", "data", "tail"} -> "i32"
                   [] t \in {"node", "node_t", "const node_t", "inner"} -> "%node"
                   [] t \in {"next", "node*", "node_p", "const node_p", "const node_t*"} -> "%node*"
                   [] t = "node**" -> "%node**"
                   [] t = "outer" -> "%outer"
                   [] t = "outer*" -> "%outer*"
                   [] t = "void*" -> "i8*"
                   [] t = "node[2]" -> "[2 x %node]"]

-----------------------------------------------------------------------------
(* Programs. *)

Op(o, n, l, from, to) == [op |-> o, indices |-> n, last |-> l, from |-> from, to |-> to]

Ops ==
    {Op("load", 0, Unknown, t, Pointee[t]) :
        t \in {"i8**", "%node**", "%node***", "%outer**", "%node*"}}
    \cup {Op("gep", 2, 0, "%node*", "i32*"), Op("gep", 2, 1, "%node*", "%node**"),
          Op("gep", 2, 0, "%outer*", "%node*"), Op("gep", 2, 1, "%outer*", "i32*"),
          Op("gep", 3, 1, "%outer*", "%node**"), Op("gep", 2, 1, "[2 x %node]*", "%node*")}
    \cup {Op("gep", 1, l, t, t) : l \in {1, Unknown}, t \in {"%node*", "%outer*"}}
    \cup {Op("cast", 0, Unknown, "%node*", "%outer*"), Op("cast", 0, Unknown, "i8*", "%node*")}

\* The types of a variable, and of the address of one.
Variable == {"node", "const node_t", "node*", "node**", "node_p", "const node_p",
             "const node_t*", "outer", "outer*", "void*", "node[2]"}
AddressOf(t) == CHOOSE p \in DOMAIN Pointee : Pointee[p] = MCLowered[t]

Start(root, t) == [root |-> root, di |-> t, type |-> AddressOf(t), ops |-> <<>>]

Extend(S) == S \cup UNION {{[c EXCEPT !.type = o.to, !.ops = Append(@, o)] :
                               o \in {p \in Ops : p.from = c.type}} : c \in S}

Chains == Extend(Extend(Extend(Extend({Start("local", t) : t \in Variable}))))
          \cup Extend(Extend({Start(r, t) : r \in {"global", "unnamed", "argument"}, t \in Variable}))

\* The chain as a program whose n-th operation is the instruction at[n]; the
\* alloca of a local variable is instruction 0.
Operation(c, at) ==
    LET n == Len(c.ops)
        G == IF c.root \in {"global", "unnamed"} THEN {100} ELSE {}
        i == IF c.root = "local" THEN 0 ELSE IF c.root = "argument" THEN 200 ELSE 100
        nth == [j \in {at[m] : m \in 1 .. n} |-> CHOOSE m \in 1 .. n : at[m] = j]
        I == DOMAIN nth \cup {0}
    IN  [op |-> [j \in I |-> IF j = 0 THEN "alloca" ELSE c.ops[nth[j]].op],
         operand |-> [j \in I |-> CASE j = 0 -> 200
                                    [] nth[j] = 1 -> i
                                    [] OTHER -> at[nth[j] - 1]],
         indices |-> [j \in I |-> IF j = 0 THEN 0 ELSE c.ops[nth[j]].indices],
         last |-> [j \in I |-> IF j = 0 THEN Unknown ELSE c.ops[nth[j]].last],
         type |-> [j \in I \cup G \cup {200} |->
                      CASE j \in {0, 100} -> AddressOf(c.di)
                        [] j = 200 -> AddressOf(c.di)
                        [] OTHER -> c.ops[nth[j]].to],
         declared |-> IF c.root \in {"local", "argument"} THEN <<<<i, c.di>>>> ELSE <<>>,
         global |-> G,
         globalType |-> [g \in G |-> IF c.root = "global" THEN c.di ELSE Null]]

MCPrograms ==
    {P \in {Operation(c, <<1, 2, 3, 4>>) : c \in Chains}
           \cup {Operation(c, <<1, 3, 2, 4>>) : c \in {d \in Chains : Len(d.ops) >= 3}} : WellTyped(P)}
=============================================================================
