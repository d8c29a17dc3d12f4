------------------------------ MODULE ParamTree ------------------------------
(***************************************************************************)
(* How the four trees of a parameter grow (Tree.cpp, and the callers in    *)
(* FunctionWrapper.cpp and CallWrapper.cpp): formal-in from the debug type *)
(* of the parameter, the others from copies of its root.  Each tree is     *)
(* grown breadth first down to a fixed depth, and each new node takes the  *)
(* variables of the program that hold its address or value from the ones   *)
(* of its parent.                                                          *)
(*                                                                         *)
(* A node of a tree is its place: the child numbers from the root down.    *)
(***************************************************************************)
EXTENDS Integers, FiniteSets, Sequences, SequencesExt

CONSTANTS
    DIType,        \* debug types
    Val,           \* IR values
    Null,          \* no type
    MaxTreeDepth,  \* Tree::build's default argument
    Garbage,       \* what an uninitialized int may hold
    Inputs         \* the parameters to grow trees for

ASSUME NullAssumption  == Null \notin DIType
ASSUME DepthAssumption == MaxTreeDepth \in Nat \ {0}
ASSUME GarbageAssumption == Garbage \subseteq Int

Kind == <<"FORMALIN", "FORMALOUT", "ACTUALIN", "ACTUALOUT">>
Tag  == {"pointer", "struct", "typedef", "member", "base"}
DerivedTag == {"pointer", "typedef", "member"}

(***************************************************************************)
(* A parameter, or the value a function returns: the debug types around    *)
(* it, the type of its root (none for a function that returns nothing),    *)
(* the variables its roots start with, and which values load from, or      *)
(* index into, which.  The tag typedef stands for const and volatile too.  *)
(* A type contains itself only by way of a structure.                      *)
(***************************************************************************)
InputRecord ==
    [returned : BOOLEAN, tag : [DIType -> Tag], base : [DIType -> DIType \cup {Null}],
     elems : [DIType -> Seq(DIType)], offset : [DIType -> Nat],
     root : DIType \cup {Null}, formal : SUBSET Val, actual : SUBSET Val,
     loads : SUBSET (Val \X Val), geps : SUBSET (Val \X Val), at : [Val -> Nat]]

WellFormed(i) ==
    /\ i \in InputRecord
    /\ i.root = Null => i.returned
    /\ \A t \in DIType :
          /\ i.tag[t] = "struct" <=> i.elems[t] # <<>>
          /\ \A m \in ToSet(i.elems[t]) : i.tag[m] = "member"
          /\ i.tag[t] \in {"typedef", "member"} => i.base[t] # Null
          /\ i.tag[t] \in {"struct", "base"} => i.base[t] = Null
          /\ i.tag[t] # "member" => i.offset[t] = 0
    /\ \A S \in (SUBSET {t \in DIType : i.tag[t] \in DerivedTag}) \ {{}} :
          \E t \in S : i.base[t] \notin S

ASSUME InputsAssumption == \A i \in Inputs : WellFormed(i)

VARIABLES
    in,             \* the parameter
    k,              \* the tree being grown, by its place in Kind
    pc,
    queue, level, left,  \* build's queue, current_tree_depth and queue_size
    type, addr,     \* for each tree and node: its debug type, its variables
    size            \* for each tree: _size

vars == <<in, k, pc, queue, level, left, type, addr, size>>

Top == <<>>

Init ==
    /\ in \in Inputs
    /\ k = 1
    /\ pc = "new"
    /\ queue = <<>>
    /\ level = 0
    /\ left = 0
    /\ type = [t \in ToSet(Kind) |-> <<>>]
    /\ addr = [t \in ToSet(Kind) |-> <<>>]
    /\ size = [t \in ToSet(Kind) |-> 0]

T == Kind[k]
Nodes(t) == DOMAIN type[t]

-----------------------------------------------------------------------------
(* Debug types (DebugInfoUtils.cpp). *)

Derived(t) == in.tag[t] \in DerivedTag

StripAttributes[t \in DIType] ==
    IF in.tag[t] = "typedef" THEN StripAttributes[in.base[t]] ELSE t

StripMemberTag(t) == IF in.tag[t] = "member" THEN in.base[t] ELSE t

Lowest[t \in DIType \cup {Null}] ==
    IF t # Null /\ Derived(t) THEN Lowest[in.base[t]] ELSE t

IsStruct(t)        == t # Null /\ in.tag[t] = "struct"
IsStructPointer(t) == t # Null /\ in.tag[t] = "pointer" /\ IsStruct(Lowest[t])

\* What TreeNode::expandNode looks at: attributes are stripped first, so those
\* behind a member stay.
Expanded(t) == StripMemberTag(StripAttributes[t])

\* The types of the children of a node of type t.
ChildTypes(t) ==
    IF t = Null THEN <<>>
    ELSE CASE in.tag[Expanded(t)] = "pointer" -> <<Lowest[Expanded(t)]>>
           [] in.tag[Expanded(t)] = "struct"  -> in.elems[Expanded(t)]
           [] OTHER -> <<>>

-----------------------------------------------------------------------------
(* Growing. *)

Geps(base) == {g \in Val : \E b \in base : <<b, g>> \in in.geps}

\* isGEPOffsetMatchDIOffset: at stands for the bit offset the code finds from an
\* index's constants and the layout of the structure type it indexes.
FieldAddr(base, t) == {g \in Geps(base) : in.at[g] = in.offset[t]}

LoadAddr(base) == {l \in Val : \E b \in base : <<b, l>> \in in.loads}

\* Mutant: a field behind a pointer starts from the structure instead.
DerivedAddrParent(p, t) ==
    LET base == addr[T][p]
    IN IF t = Null THEN {}
       ELSE FieldAddr(base, t) \cup (IF IsStruct(type[T][p]) THEN {} ELSE LoadAddr(base))

\* computeDerivedAddrVarsFromParent: a field behind a pointer starts from the
\* variables of the pointer, and does not take what is loaded from it.
DerivedAddr(p, t) ==
    LET parent  == type[T][p]
        pointed == p # Top /\ IsStruct(parent) /\ IsStructPointer(type[T][Front(p)])
        base    == addr[T][IF pointed THEN Front(p) ELSE p]
    IN IF t = Null THEN {}
       ELSE FieldAddr(base, t) \cup (IF IsStruct(parent) THEN {} ELSE LoadAddr(base))

\* Mutant: the second tree of a pair counts on from the first.
StartSizesOn == IF T = "ACTUALOUT" THEN {size["ACTUALIN"]}
                ELSE IF T = "FORMALIN" /\ ~in.returned THEN Garbage ELSE {0}

StartSizes == IF T = "FORMALIN" /\ ~in.returned THEN Garbage ELSE {0}

\* Mutant: the formal-out tree starts without variables.
RootAddrNone == IF T = "FORMALIN" THEN in.formal
                ELSE IF T = "FORMALOUT" THEN {} ELSE in.actual

RootAddr == IF T = "FORMALIN" THEN in.formal
            ELSE IF T = "FORMALOUT" THEN addr["FORMALIN"][Top] ELSE in.actual

\* A new tree: formal-in by Tree(Value&), which leaves its size uninitialized
\* (for the return value by Tree(), called in a way that clears it), the others
\* by Tree(const Tree&).
NewTree ==
    /\ pc = "new"
    /\ type' = [type EXCEPT ![T] = [p \in {Top} |-> in.root]]
    /\ addr' = [addr EXCEPT ![T] = [p \in {Top} |-> RootAddr]]
    /\ \E n \in StartSizes : size' = [size EXCEPT ![T] = n]
    /\ queue' = <<Top>>
    /\ level' = 0
    /\ pc' = "level"
    /\ UNCHANGED <<in, k, left>>

\* Mutant: one level too few.
DeepEnoughEarly == level + 1 >= MaxTreeDepth

DeepEnough == level + 1 > MaxTreeDepth

\* Tree::build, outer loop.
NewLevel ==
    /\ pc = "level"
    /\ queue # <<>>
    /\ ~DeepEnough
    /\ level' = level + 1
    /\ left' = Len(queue)
    /\ pc' = "expand"
    /\ UNCHANGED <<in, k, queue, type, addr, size>>

\* Tree::build, inner loop with TreeNode::expandNode.
Expand ==
    /\ pc = "expand"
    /\ left > 0
    /\ LET p        == Head(queue)
           children == ChildTypes(type[T][p])
           new      == {Append(p, i) : i \in DOMAIN children}
       IN /\ queue' = Tail(queue) \o [i \in DOMAIN children |-> Append(p, i)]
          /\ type' = [type EXCEPT ![T] = [q \in Nodes(T) \cup new |->
                         IF q \in new THEN children[Last(q)] ELSE @[q]]]
          /\ addr' = [addr EXCEPT ![T] = [q \in Nodes(T) \cup new |->
                         IF q \in new THEN DerivedAddr(p, children[Last(q)]) ELSE @[q]]]
    /\ size' = [size EXCEPT ![T] = @ + 1]
    /\ left' = left - 1
    /\ UNCHANGED <<in, k, level, pc>>

EndLevel ==
    /\ pc = "expand"
    /\ left = 0
    /\ pc' = "level"
    /\ UNCHANGED <<in, k, queue, level, left, type, addr, size>>

\* Mutant: a tree that reached the depth limit is grown once more.
NextTreeAgain == IF k < Len(Kind) /\ queue = <<>>
                 THEN k' = k + 1 /\ pc' = "new"
                 ELSE k' = k /\ pc' = IF queue = <<>> THEN "done" ELSE "new"

NextTree == IF k < Len(Kind) THEN k' = k + 1 /\ pc' = "new"
                             ELSE k' = k /\ pc' = "done"

\* Tree::build returns: with an empty queue, or deep enough with the nodes of
\* the last level still in it.
Built ==
    /\ pc = "level"
    /\ queue = <<>> \/ DeepEnough
    /\ NextTree
    /\ UNCHANGED <<in, queue, level, left, type, addr, size>>

Next ==
    \/ NewTree
    \/ NewLevel
    \/ Expand
    \/ EndLevel
    \/ Built

Spec == Init /\ [][Next]_vars /\ WF_vars(Next)

-----------------------------------------------------------------------------
(* Properties. *)

Finished == {Kind[j] : j \in IF pc = "done" THEN DOMAIN Kind ELSE 1 .. k - 1}

\* What the types say: the nodes n levels below the root, with their types.
Reference[n \in 0 .. MaxTreeDepth] ==
    IF n = 0 THEN {<<Top, in.root>>}
    ELSE UNION {{<<Append(x[1], i), ChildTypes(x[2])[i]>> : i \in DOMAIN ChildTypes(x[2])} :
                   x \in Reference[n - 1]}

\* All four trees are the whole tree of the types down to the depth limit, also
\* when types contain themselves; so walking two of them in lockstep is safe.
WholeTrees ==
    \A t \in Finished :
        {<<p, type[t][p]>> : p \in Nodes(t)} = UNION {Reference[n] : n \in 0 .. MaxTreeDepth}

\* The size of a tree counts its nodes above the last level, so that copies
\* agree on it, but for what the first tree's size started from.
SizesAgree ==
    \A t \in Finished :
        LET counted == Cardinality({p \in Nodes(t) : Len(p) < MaxTreeDepth})
        IN IF t = "FORMALIN" /\ ~in.returned THEN \E n \in Garbage : size[t] = n + counted
           ELSE size[t] = counted

\* The values computed from those of S.
Computed(S) ==
    {v \in Val : \A V \in SUBSET Val : S \cup LoadAddr(V) \cup Geps(V) \subseteq V => v \in V}

Children(t, q) == {Append(q, i) : i \in DOMAIN ChildTypes(type[t][q])} \cap Nodes(t)

\* The places for which the variables of q hold the address of the whole that
\* they are part of: the places below q, but the fields of a structure behind a
\* pointer type are addressed by the pointer.
PartsOf(t, q) ==
    {p \in Children(t, q) :
        ~(q # Top /\ IsStruct(type[t][q]) /\ IsStructPointer(type[t][Front(q)]))}
    \cup UNION {Children(t, c) : c \in {c \in Children(t, q) :
                    IsStruct(type[t][c]) /\ IsStructPointer(type[t][q])}}

\* What the program gets at p, a part of q, from the variables of q: what is
\* loaded from them, unless p is a field, and what indexes into them at the
\* offset of p.
Accessed(t, q, p) ==
    {v \in Val : \E b \in addr[t][q] :
        \/ <<b, v>> \in in.loads /\ ~IsStruct(type[t][Front(p)])
        \/ <<b, v>> \in in.geps /\ in.at[v] = in.offset[type[t][p]]}

\* No variable is lost on the way down: a node with a type has all that its tree
\* reaches at its place.  None is made up either: every variable is computed from
\* those of the root, and sibling fields at different offsets share none.
AddrFollowsTypes ==
    /\ \A t \in Finished : \A q \in Nodes(t) : \A p \in PartsOf(t, q) :
          type[t][p] # Null => Accessed(t, q, p) \subseteq addr[t][p]
    /\ \A t \in Finished :
          UNION {addr[t][p] : p \in Nodes(t)} \subseteq Computed(addr[t][Top])
    /\ \A t \in Finished : \A p \in Nodes(t) : IsStruct(type[t][p]) =>
          \A i, j \in DOMAIN in.elems[type[t][p]] :
              {Append(p, i), Append(p, j)} \subseteq Nodes(t) =>
                  LET m == in.elems[type[t][p]]
                  IN in.offset[m[i]] # in.offset[m[j]] =>
                         addr[t][Append(p, i)] \cap addr[t][Append(p, j)] = {}

\* The formal-out tree has the variables of the formal-in tree at each place.
FormalTreesAgree ==
    "FORMALOUT" \in Finished => addr["FORMALOUT"] = addr["FORMALIN"]

\* Every tree is finished, whatever types contain themselves.
Termination == <>(pc = "done")

=============================================================================
