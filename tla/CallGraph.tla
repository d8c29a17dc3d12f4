------------------------------ MODULE CallGraph ------------------------------
(***************************************************************************)
(* The call graph (PDGCallGraph.cpp): which functions it joins, for direct *)
(* calls and for calls through pointers, whose callees are guessed by      *)
(* their types, and the search for a path of calls from one function to    *)
(* another.  The recursion of computePathsHelper is a stack of frames.     *)
(***************************************************************************)
EXTENDS Integers, FiniteSets, Sequences, SequencesExt

CONSTANTS
    Func,       \* the functions of the module
    Type,       \* LLVM types of arguments and results
    StructPtr,  \* those that are pointers to structures
    Name,       \* the name of the structure each points to, cut at its dots
    Source,     \* the type of the source program each type came from
    Pointer,    \* the called operand is a pointer loaded or computed
    Constant,   \* it is an alias, inline assembly or another constant
    Programs

Operand == Func \cup {Pointer, Constant}

Signature == [ret : Type, args : Seq(Type)]

(***************************************************************************)
(* A module: its functions with a body, their signatures, the functions    *)
(* with a variable argument list, those some value in the graph uses, and  *)
(* its calls in textual order.  A direct call may go through casts of the  *)
(* function.  The queries are the pairs a client asks a path between.      *)
(***************************************************************************)
WellTyped(P) ==
    /\ P.body \subseteq Func
    /\ P.sig \in [Func -> Signature]
    /\ P.varArg \subseteq Func
    /\ P.used \subseteq Func
    /\ P.queries \subseteq P.body \X P.body
    /\ P.calls \in Seq([caller : P.body, called : Operand, sig : Signature])

ASSUME TypesAssumption ==
    /\ StructPtr \subseteq Type
    /\ \A t \in StructPtr : Name[t] \in Seq(STRING)
    /\ Pointer \notin Func
    /\ Constant \notin Func \cup {Pointer}

ASSUME ProgramsAssumption == \A P \in Programs : WellTyped(P)

VARIABLES
    prog,
    pc,         \* "nodes", "calls", "search", "done"
    pending,    \* the calls build has not looked at
    nodes, edges,
    source, sink,
    frames,     \* the calls of computePathsHelper under way, the first one its caller
    found,      \* found_path
    paths       \* path_vecs

vars == <<prog, pc, pending, nodes, edges, source, sink, frames, found, paths>>

Init ==
    /\ prog \in Programs
    /\ pc = "nodes"
    /\ pending = prog.calls
    /\ nodes = {}
    /\ edges = {}
    /\ \E q \in prog.queries : source = q[1] /\ sink = q[2]
    /\ frames = <<>>
    /\ found = FALSE
    /\ paths = <<>>

Calls == ToSet(prog.calls)

-----------------------------------------------------------------------------
(* Which functions a call may reach. *)

\* Mutant: the name is kept as it is.
NameKept(name) == name

\* Cut at the second dot, the one the linker put before its tag.
StripVersionTag(name) == IF Len(name) <= 2 THEN name ELSE SubSeq(name, 1, 2)

\* llvm-link leaves duplicates of a structure, told apart by a tag; only
\* pointers straight to structures are compared by name.  (A build with
\* assertions stops at a pointer to a structure that never had a name.)
IsTypeEqual(t, u) ==
    \/ t = u
    \/ /\ {t, u} \subseteq StructPtr
       /\ StripVersionTag(Name[t]) = StripVersionTag(Name[u])

\* Mutant: the results are not compared.
SignatureMatchesArgs(s, f) ==
    /\ f \notin prog.varArg
    /\ Len(s.args) = Len(prog.sig[f].args)
    /\ \A i \in DOMAIN s.args : IsTypeEqual(s.args[i], prog.sig[f].args[i])

IsFuncSignatureMatch(s, f) ==
    /\ f \notin prog.varArg
    /\ Len(s.args) = Len(prog.sig[f].args)
    /\ IsTypeEqual(s.ret, prog.sig[f].ret)
    /\ \A i \in DOMAIN s.args : IsTypeEqual(s.args[i], prog.sig[f].args[i])

GetIndirectCallCandidates(c) == {f \in prog.body : IsFuncSignatureMatch(c.sig, f)}

Callees(c) ==
    IF c.called \in Func THEN {<<c.called, "CONTROLDEP_CALLINV">>}
    ELSE GetIndirectCallCandidates(c) \X {"IND_CALL"}

(* The dependence graph has functions of its own for the same questions. *)

\* ProgramDependencyGraph::isTypeEqual
PdgIsTypeEqual(t, u) ==
    t # u => /\ {t, u} \subseteq StructPtr
             /\ StripVersionTag(Name[t]) = StripVersionTag(Name[u])

\* Mutant: this copy does not turn variadic functions away.
PdgIsFuncSignatureMatchVariadic(s, f) ==
    LET r == prog.sig[f]
    IN  /\ DOMAIN s.args = DOMAIN r.args
        /\ PdgIsTypeEqual(s.ret, r.ret)
        /\ \A i \in DOMAIN r.args : PdgIsTypeEqual(s.args[i], r.args[i])

\* ProgramDependencyGraph::isFuncSignatureMatch
PdgIsFuncSignatureMatch(s, f) ==
    LET r == prog.sig[f]
    IN  /\ f \notin prog.varArg
        /\ DOMAIN s.args = DOMAIN r.args
        /\ PdgIsTypeEqual(s.ret, r.ret)
        /\ \A i \in DOMAIN r.args : PdgIsTypeEqual(s.args[i], r.args[i])

\* connectInterprocDependencies and connectCallerIndirect: candidates are
\* looked for only when the operand is no constant, and only among the
\* functions that some node uses.
PdgCallees(c) ==
    CASE c.called \in prog.body -> {c.called}
      [] c.called = Pointer ->
            {f \in prog.body : PdgIsFuncSignatureMatch(c.sig, f) /\ f \in prog.used}
      [] OTHER -> {}

-----------------------------------------------------------------------------
(* PDGCallGraph::build. *)

BuildNodes ==
    /\ pc = "nodes"
    /\ nodes' = prog.body
    /\ pc' = "calls"
    /\ UNCHANGED <<prog, pending, edges, source, sink, frames, found, paths>>

CallEdges(c) == {<<c.caller, g[1], g[2]>> : g \in {h \in Callees(c) : h[1] \in nodes}}

ConnectCall ==
    /\ pc = "calls"
    /\ pending # <<>>
    /\ pending' = Tail(pending)
    /\ edges' = edges \cup CallEdges(Head(pending))
    /\ UNCHANGED <<prog, pc, nodes, source, sink, frames, found, paths>>

-----------------------------------------------------------------------------
(* computePaths and its helper. *)

OutNeighbors(f) == {e[2] : e \in {d \in edges : d[1] = f}}

\* computePaths makes the first call of the helper, as if from a frame whose
\* only neighbour is the source.
ComputePaths ==
    /\ pc = "calls"
    /\ pending = <<>>
    /\ pc' = "search"
    /\ frames' = <<[func |-> Constant, left |-> {source}]>>
    /\ UNCHANGED <<prog, pending, nodes, edges, source, sink, found, paths>>

\* cur_path and visited_funcs are passed by value: they hold the functions of
\* the frames.
CurPath == [i \in 1 .. Len(frames) - 1 |-> frames[i + 1].func]
Visited(f) == f \in Range(CurPath)

Left == frames[Len(frames)].left

Took(f) == [frames EXCEPT ![Len(frames)].left = @ \ {f}]

\* Mutant: the flag is looked at by no one.
TurnedAwayVisited(f) == Visited(f)

TurnedAway(f) == found \/ Visited(f)

\* Mutant: the loop does not get past a function it was turned away from.
SkipAgain(f) == TurnedAway(f) /\ frames' = frames

Skip(f) == TurnedAway(f) /\ frames' = Took(f)

Arrive(f) ==
    /\ ~TurnedAway(f)
    /\ f = sink
    /\ frames' = Took(f)

Descend(f) ==
    /\ ~TurnedAway(f)
    /\ f # sink
    /\ frames' = Append(Took(f), [func |-> f, left |-> OutNeighbors(f)])

\* A call of the helper for one neighbour, in any order: neighbours are kept
\* in a set of pointers.
Visit ==
    /\ pc = "search"
    /\ \E f \in Left :
          \/ (Skip(f) \/ Descend(f)) /\ UNCHANGED <<found, paths>>
          \/ Arrive(f) /\ found' = TRUE /\ paths' = Append(paths, Append(CurPath, f))
    /\ UNCHANGED <<prog, pc, pending, nodes, edges, source, sink>>

Return ==
    /\ pc = "search"
    /\ Left = {}
    /\ frames' = Front(frames)
    /\ pc' = IF Len(frames) = 1 THEN "done" ELSE pc
    /\ UNCHANGED <<prog, pending, nodes, edges, source, sink, found, paths>>

Next ==
    \/ BuildNodes
    \/ ConnectCall
    \/ ComputePaths
    \/ Visit
    \/ Return

Spec == Init /\ [][Next]_vars /\ WF_vars(Next)

-----------------------------------------------------------------------------
(* Properties. *)

Built == pc \in {"search", "done"}

Joined(f, g) == \E e \in edges : e[1] = f /\ e[2] = g

SameSource(t, u) == Source[t] = Source[u]

\* Duplicates that isTypeEqual does not recognise: structures that are not
\* what the two pointers point to, but lie behind further pointers.
DeepDuplicate(t, u) == SameSource(t, u) /\ t # u /\ ~({t, u} \subseteq StructPtr)

\* The two signatures name the same types up to duplicates of structures.
SourceMatches(s, r) ==
    /\ SameSource(s.ret, r.ret)
    /\ Len(s.args) = Len(r.args)
    /\ \A i \in DOMAIN s.args : SameSource(s.args[i], r.args[i])

Overlooked(s, r) ==
    \/ DeepDuplicate(s.ret, r.ret)
    \/ \E i \in DOMAIN s.args : DeepDuplicate(s.args[i], r.args[i])

\* A direct call leads to its callee, and a call through a pointer to every
\* function whose type in the source is the call's, also when linking gave the
\* structures they point to different names.  There are two exceptions and no
\* more: functions with a variable argument list, and duplicates of structures
\* behind further pointers (PDGCallGraph.cpp:87), are missed.
CallsCovered ==
    Built =>
       \A c \in Calls :
          /\ c.called \in nodes => Joined(c.caller, c.called)
          /\ c.called = Pointer =>
                \A f \in nodes : SourceMatches(c.sig, prog.sig[f]) =>
                   \/ Joined(c.caller, f)
                   \/ f \in prog.varArg
                   \/ Overlooked(c.sig, prog.sig[f])

\* Types with the name, up to the second dot, of one another.
SameStem(t, u) ==
    {t, u} \subseteq StructPtr /\ \A i \in 1 .. 2 :
        i \in DOMAIN Name[t] \cup DOMAIN Name[u] =>
            i \in DOMAIN Name[t] \cap DOMAIN Name[u] /\ Name[t][i] = Name[u][i]

\* A linker tells duplicates of a structure apart behind the second dot.
ASSUME LinkerAssumption ==
    \A t, u \in StructPtr : Source[t] = Source[u] => SameStem(t, u)

\* No function is guessed to be the callee whose type differs from the call's
\* in more than the structures that share their name's first two parts.
EdgesJustified ==
    \A e \in edges : e[3] = "IND_CALL" =>
       \E c \in Calls :
          LET s == <<c.sig.ret>> \o c.sig.args
              r == <<prog.sig[e[2]].ret>> \o prog.sig[e[2]].args
          IN  /\ c.caller = e[1]
              /\ c.called \notin Func
              /\ Len(s) = Len(r)
              /\ \A i \in DOMAIN s : s[i] = r[i] \/ SameStem(s[i], r[i])

\* The two copies agree on who is called.  The dependence graph joins a call
\* only to functions the call graph joins its caller to; and of what the call
\* graph joins because of a call the dependence graph leaves out no more than
\* functions that nothing in it uses, and the guesses for constants.
CalleesAgree ==
    Built => \A c \in Calls :
        /\ \A f \in PdgCallees(c) : Joined(c.caller, f)
        /\ \A e \in CallEdges(c) :
              e[2] \in PdgCallees(c) \/ c.called = Constant \/ e[2] \notin prog.used

Closed(S) == \A e \in edges : e[1] \in S => e[2] \in S
Reachable == \A S \in SUBSET nodes : source \in S /\ Closed(S) => sink \in S

SimplePath(p) ==
    /\ p[1] = source
    /\ p[Len(p)] = sink
    /\ \A i \in 1 .. Len(p) - 1 : Joined(p[i], p[i + 1])
    /\ \A i, j \in DOMAIN p : p[i] = p[j] => i = j

\* The search yields one path without repetition when there is any, and none
\* when there is none, although visited functions are forgotten on the way back
\* and the flag that stops it is shared by all its calls.
PathRight ==
    /\ \A i \in DOMAIN paths : SimplePath(paths[i])
    /\ pc = "done" => Len(paths) = IF Reachable THEN 1 ELSE 0

\* The search ends, whatever cycles the calls make.
Termination == <>(pc = "done")

=============================================================================
