------------------------------- MODULE DITypes -------------------------------
(***************************************************************************)
(* How the nodes of the graph get their debug types                        *)
(* (ProgramGraph::bindDITypeToNodes): from the declarations of local       *)
(* variables first, then, one instruction after the other in textual       *)
(* order, from the types of operands; from the debug information of global *)
(* variables last.  The node of a variable's address carries the type of   *)
(* the variable, and so does that of a field's address; the node of a      *)
(* loaded value carries its own type or that of what it points to.         *)
(***************************************************************************)
EXTENDS Integers, FiniteSets, FiniteSetsExt, Sequences, SequencesExt

CONSTANTS
    DIType,     \* debug types
    Null,       \* no type
    Tag,        \* "pointer", "typedef", "const", "member", "struct" or "base"
    Base,       \* the type each derived type is made from, or Null
    Elements,   \* the members of each structure
    Offset,     \* the offset of each member, in bits
    LType,      \* types of the IR
    PointsTo,   \* what each of them points to, or Null
    Layout,     \* the offsets of the elements of each structure of the IR
    Fields,     \* the types of these elements
    Lowered,    \* the IR type of what a debug type describes
    Unknown,    \* an index that is negative or no constant
    Programs

Derived(t) == Tag[t] \in {"pointer", "typedef", "const", "member"}

(***************************************************************************)
(* What debug information says of the types that a module uses.  A type    *)
(* contains itself only by way of a structure.  The fields of a structure  *)
(* are at offsets of their own: no unions, bit fields or empty fields.     *)
(***************************************************************************)
TypesTyped ==
    /\ Null \notin DIType \cup LType
    /\ Tag \in [DIType -> {"pointer", "typedef", "const", "member", "struct", "base"}]
    /\ Base \in [DIType -> DIType \cup {Null}]
    /\ Elements \in [DIType -> Seq(DIType)]
    /\ Lowered \in [DIType -> LType]
    /\ Layout[Null] = <<>>

TypesFit ==
    /\ \A S \in (SUBSET {t \in DIType : Derived(t)}) \ {{}} : \E t \in S : Base[t] \notin S
    /\ \A t \in DIType :
          /\ Base[t] # Null =>
                /\ Derived(t) /\ Tag[Base[t]] # "member"
                /\ Lowered[Base[t]] = IF Tag[t] = "pointer" THEN PointsTo[Lowered[t]] ELSE Lowered[t]
          /\ Derived(t) /\ Base[t] = Null =>
                Layout[Lowered[t]] = <<>> /\ Layout[PointsTo[Lowered[t]]] = <<>>
          /\ Tag[t] \in {"pointer", "base"} => Layout[Lowered[t]] = <<>>
          /\ ~Derived(t) => PointsTo[Lowered[t]] = Null
          /\ Tag[t] = "struct" =>
                /\ \A m \in ToSet(Elements[t]) : Tag[m] = "member"
                /\ Layout[Lowered[t]] = [n \in DOMAIN Elements[t] |-> Offset[Elements[t][n]]]
                /\ Fields[Lowered[t]] = [n \in DOMAIN Elements[t] |-> Lowered[Elements[t][n]]]
    /\ \A l \in LType : IsInjective(Layout[l])

ASSUME TypesAssumption == TypesTyped /\ TypesFit

(***************************************************************************)
(* A function and the globals: instructions are numbers in textual order,  *)
(* with their operation and their (pointer) operand; geps with the number  *)
(* of their indices and the last one; the variables declared, in order.    *)
(***************************************************************************)
Insts(P) == DOMAIN P.op

\* What the IR's own typing says of a program's instructions.  An instruction
\* that computes an address from a global is folded into a constant.
WellTyped(P) ==
    /\ Insts(P) \subseteq Nat /\ Insts(P) \cap P.global = {}
    /\ P.declared \in Seq((DOMAIN P.type) \X DIType)
    /\ \A n \in DOMAIN P.declared : PointsTo[P.type[P.declared[n][1]]] = Lowered[P.declared[n][2]]
    /\ \A g \in P.global : P.globalType[g] # Null =>
          P.globalType[g] \in DIType /\ PointsTo[P.type[g]] = Lowered[P.globalType[g]]
    /\ \A i \in Insts(P) :
          LET a == P.operand[i]
              s == PointsTo[P.type[a]]
          IN  /\ a # i
              /\ P.op[i] = "load" => P.type[i] = s
              /\ P.op[i] \in {"gep", "cast"} => a \notin P.global
              /\ P.op[i] = "gep" /\ P.indices[i] = 1 => P.type[i] = P.type[a]
              /\ P.op[i] = "gep" /\ P.indices[i] = 2 /\ Layout[s] # <<>> =>
                    /\ P.last[i] # Unknown /\ P.last[i] + 1 \in DOMAIN Layout[s]
                    /\ PointsTo[P.type[i]] = Fields[s][P.last[i] + 1]

ASSUME ProgramsAssumption == \A P \in Programs : WellTyped(P)

VARIABLES
    prog,
    pc,        \* "declares", "insts", "globals", "done"
    pos,       \* the declarations bound
    left,      \* the instructions or globals to bind
    ditype     \* the type of each node

bindVars == <<prog, pc, pos, left, ditype>>

BindInit ==
    /\ prog \in Programs
    /\ pc = "declares"
    /\ pos = 0
    /\ left = {}
    /\ ditype = [v \in Insts(prog) \cup {g \in prog.global : prog.globalType[g] # Null} |-> Null]

-----------------------------------------------------------------------------
(* Debug types (DebugInfoUtils.cpp). *)

HasNode(v) == v \in DOMAIN ditype

GetBaseDIType(t) == IF Derived(t) THEN Base[t] ELSE Null

Pointed[t \in DIType \cup {Null}] ==
    IF t # Null /\ Tag[t] = "pointer" THEN Pointed[Base[t]] ELSE t

Lowest[t \in DIType \cup {Null}] ==
    IF t # Null /\ Derived(t) THEN Lowest[Base[t]] ELSE t

\* Mutant: only pointers are looked through.
GetLowestPointed(t) == Pointed[t]

\* The type below every pointer, typedef, qualifier and member.
GetLowestDIType(t) == Lowest[t]

StripAttributes[t \in DIType \cup {Null}] ==
    IF t # Null /\ Tag[t] \in {"typedef", "const"} THEN StripAttributes[Base[t]] ELSE t

-----------------------------------------------------------------------------
(* The field a gep computes the address of (PDGUtils.cpp). *)

\* getStructTypeFromGEP: the structure the base points to, when it is one.
GepStruct(i) == PointsTo[prog.type[prog.operand[i]]]

\* getGEPAccessFieldOffset: the last index, whichever number of indices there is.
AccessField(i) == prog.last[i]

\* Mutant: fields are counted from one.
OffsetMatchesOne(m, i) ==
    /\ AccessField(i) \in DOMAIN Layout[GepStruct(i)]
    /\ Layout[GepStruct(i)][AccessField(i)] = Offset[m]

IsGEPOffsetMatchDIOffset(m, i) ==
    /\ GepStruct(i) \in LType
    /\ AccessField(i) # Unknown
    /\ AccessField(i) + 1 \in DOMAIN Layout[GepStruct(i)]
    /\ Layout[GepStruct(i)][AccessField(i) + 1] = Offset[m]

-----------------------------------------------------------------------------
(* computeNodeDIType. *)

LoadType(i) ==
    LET a == prog.operand[i]
    IN  CASE a \in Insts(prog) ->
               IF ditype[a] = Null THEN Null ELSE StripAttributes[GetBaseDIType(ditype[a])]
          [] a \in prog.global ->
               IF prog.globalType[a] = Null THEN Null ELSE GetBaseDIType(prog.globalType[a])
          [] OTHER -> Null

\* The first member at the field's offset.
FieldType(i) ==
    LET a == prog.operand[i]
        s == IF HasNode(a) THEN GetLowestDIType(ditype[a]) ELSE Null
        M == IF s # Null /\ Tag[s] = "struct"
             THEN {n \in DOMAIN Elements[s] : IsGEPOffsetMatchDIOffset(Elements[s][n], i)}
             ELSE {}
    IN  IF M = {} THEN Null ELSE Elements[s][Min(M)]

ComputeNodeDIType(i) ==
    CASE prog.op[i] = "alloca" -> ditype[i]
      [] prog.op[i] = "load"   -> LoadType(i)
      [] prog.op[i] = "gep"    -> FieldType(i)
      [] prog.op[i] = "cast"   -> IF HasNode(prog.operand[i]) THEN ditype[prog.operand[i]] ELSE Null
      [] OTHER -> Null

-----------------------------------------------------------------------------
(* bindDITypeToNodes. *)

SetDIType(v, t) == IF HasNode(v) THEN [ditype EXCEPT ![v] = t] ELSE ditype

BindDeclare ==
    /\ pc = "declares"
    /\ pos < Len(prog.declared)
    /\ pos' = pos + 1
    /\ ditype' = SetDIType(prog.declared[pos + 1][1], prog.declared[pos + 1][2])
    /\ UNCHANGED <<prog, pc, left>>

\* Mutant: from the last instruction to the first.
NextInstLast == Max(left)

NextInst == Min(left)

BindInst ==
    /\ pc = "insts"
    /\ left # {}
    /\ ditype' = SetDIType(NextInst, ComputeNodeDIType(NextInst))
    /\ left' = left \ {NextInst}
    /\ UNCHANGED <<prog, pc, pos>>

BindGlobal ==
    /\ pc = "globals"
    /\ \E g \in left :
          /\ left' = left \ {g}
          /\ ditype' = SetDIType(g, prog.globalType[g])
    /\ UNCHANGED <<prog, pc, pos>>

GoTo(stage, work) == pc' = stage /\ left' = work /\ UNCHANGED <<prog, pos, ditype>>

Advance ==
    \/ pc = "declares" /\ pos = Len(prog.declared) /\ GoTo("insts", Insts(prog))
    \/ pc = "insts" /\ left = {} /\ GoTo("globals", prog.global)
    \/ pc = "globals" /\ left = {} /\ GoTo("done", {})

BindNext ==
    \/ BindDeclare
    \/ BindInst
    \/ BindGlobal
    \/ Advance

BindSpec == BindInit /\ [][BindNext]_bindVars /\ WF_bindVars(BindNext)

-----------------------------------------------------------------------------
(* Properties. *)

\* A type describes a value, or what the value points to.
Describes(t, v) == Lowered[t] \in {prog.type[v], PointsTo[prog.type[v]]}

\* The address of a variable whose type has a typedef or qualifier on another,
\* loaded from a global: of these, one only is taken off.
NamedTwice(v) ==
    LET t == prog.globalType[prog.operand[v]]
    IN /\ v \in Insts(prog) /\ prog.op[v] = "load" /\ prog.operand[v] \in prog.global
       /\ t # Null /\ Tag[t] # "pointer" /\ Base[t] # Null /\ Tag[Base[t]] \in {"typedef", "const"}

\* i is computed by loads and accesses to fields from a variable: by no cast, no
\* gep that indexes more or less than a field, and no load from what was
\* NamedTwice.
Direct(i) ==
    \E S \in SUBSET Insts(prog) :
        /\ i \in S
        /\ \A j \in S :
              /\ prog.op[j] # "cast"
              /\ prog.op[j] = "gep" => prog.indices[j] = 2
              /\ prog.op[j] = "load" => ~NamedTwice(prog.operand[j])
              /\ prog.op[j] # "alloca" /\ prog.operand[j] \in Insts(prog) => prog.operand[j] \in S

\* The type of a node is true to the IR: it describes the value or what the
\* value points to, through any number of loads and fields, typedefs, constants
\* and pointers.  After a cast it may not, and it may not after an array index.
BoundTypesTrue ==
    \A i \in Insts(prog) :
       ditype[i] # Null /\ Direct(i) => Describes(ditype[i], i)

\* The address of a field is given the field's own type, whenever the type of
\* the base is known and the base is a pointer to a structure.
FieldsFound ==
    \A i \in Insts(prog) :
       LET a == prog.operand[i]
           s == GepStruct(i)
       IN  /\ pc \in {"globals", "done"}
           /\ prog.op[i] = "gep"
           /\ prog.last[i] # Unknown
           /\ Direct(i)
           /\ a \in Insts(prog) /\ a < i
           /\ ditype[a] # Null
           /\ Layout[s] # <<>>
           => /\ ditype[i] # Null
              /\ Tag[ditype[i]] = "member"
              /\ Offset[ditype[i]] = Layout[s][prog.last[i] + 1]

\* One pass is enough: binding an instruction once more gives it the type it
\* has, except where its operand follows it in the text.
Settled ==
    pc = "done" =>
       \A i \in Insts(prog) :
          \/ prog.operand[i] \in Insts(prog) /\ prog.operand[i] > i
          \/ ditype[i] = ComputeNodeDIType(i)

=============================================================================
