--------------------------- MODULE CallGraph_proofs ---------------------------
(***************************************************************************)
(* Proofs about the call graph and the search for a path in it, for every  *)
(* well-formed program.                                                    *)
(*                                                                         *)
(* The edges are those of the calls looked at so far, and in the end all   *)
(* have been.  The search is right although it forgets, on the way back,   *)
(* where it has been: what it comes back from without an answer is sealed  *)
(* off from the sink by the functions that are still on the current path,  *)
(* and when the path is empty nothing is left to seal the source off.      *)
(***************************************************************************)
EXTENDS CallGraph, SequenceTheorems, WellFoundedInduction, TLAPS

CallRecord == [caller : prog.body, called : Operand, sig : Signature]

\* The part of the invariant that is about the construction.
BuildInv ==
    /\ prog \in Programs
    /\ pc \in {"nodes", "calls", "search", "done"}
    /\ pending \in Seq(CallRecord)
    /\ pc = "nodes" => nodes = {} /\ edges = {} /\ pending = prog.calls
    /\ pc # "nodes" => nodes = prog.body
    /\ Built => pending = <<>>
    /\ \A c \in Calls : c \in ToSet(pending) \/ CallEdges(c) \subseteq edges
    /\ \A e \in edges : \E c \in Calls : e \in CallEdges(c)
    /\ ToSet(pending) \subseteq Calls
    /\ source \in prog.body /\ sink \in prog.body

-----------------------------------------------------------------------------
(* The search.  A frame is a function on the current path with those of its *)
(* callees that are left to visit; the first one stands before the source.  *)

Frame == [func : Func \cup {Constant}, left : SUBSET prog.body]

\* The functions of the path up to frame i.
On(fs, i) == {fs[j].func : j \in 2 .. i}

Offered(fs, i) == IF i = 1 THEN {source} ELSE OutNeighbors(fs[i].func)

\* Every way from g to the sink leads through S.
Sealing(C, S) ==
    /\ sink \notin C
    /\ \A e \in edges : e[1] \in C => e[2] \in C \cup S
Sealed(g, S) == \E C \in SUBSET prog.body : g \in C /\ Sealing(C, S)

\* The frames spell a path from the source that visits nothing twice.
PathInv(fs) ==
    /\ fs \in Seq(Frame)
    /\ \A i \in 1 .. Len(fs) : fs[i].left \subseteq Offered(fs, i)
    /\ \A i \in 2 .. Len(fs) : fs[i].func \in prog.body /\ fs[i].func # sink
    /\ Len(fs) >= 2 => fs[2].func = source
    /\ \A i \in 3 .. Len(fs) : Joined(fs[i - 1].func, fs[i].func)
    /\ \A i, j \in 2 .. Len(fs) : fs[i].func = fs[j].func => i = j

\* What a frame has been offered and has not left to visit, lies on the path or
\* is sealed off by it.
TriedInv(fs) ==
    \A i \in 1 .. Len(fs) : \A g \in Offered(fs, i) \ fs[i].left :
        \/ g \in On(fs, i)
        \/ i < Len(fs) /\ g = fs[i + 1].func
        \/ Sealed(g, On(fs, i))

SearchInv ==
    /\ pc = "search" => frames # <<>> /\ PathInv(frames) /\ (~found => TriedInv(frames))
    /\ pc = "done" => found \/ Sealed(source, {})
    /\ found \in BOOLEAN
    /\ paths = <<>> \/ \E p \in Seq(prog.body) : paths = <<p>> /\ p # <<>> /\ SimplePath(p)
    /\ found <=> paths # <<>>
    /\ found => Built


-----------------------------------------------------------------------------
(* Names of structures. *)

\* Two names are the same up to the second dot exactly when they agree in their
\* first two parts.
LEMMA StemsEqual ==
    ASSUME NEW t \in StructPtr, NEW u \in StructPtr
    PROVE  SameStem(t, u) <=> StripVersionTag(Name[t]) = StripVersionTag(Name[u])
<1> DEFINE n == Name[t]
           m == Name[u]
           Stem(s) == StripVersionTag(s)
<1>1. n \in Seq(STRING) /\ m \in Seq(STRING)
  BY TypesAssumption
<1>2. \A s \in Seq(STRING) :
          /\ Stem(s) \in Seq(STRING)
          /\ Len(Stem(s)) = IF Len(s) <= 2 THEN Len(s) ELSE 2
          /\ \A i \in 1 .. 2 : i <= Len(s) => Stem(s)[i] = s[i]
  <2> TAKE s \in Seq(STRING)
  <2>1. CASE Len(s) <= 2
    BY <2>1 DEF StripVersionTag
  <2>2. CASE Len(s) > 2
    <3>1. /\ SubSeq(s, 1, 2) \in Seq(STRING)
          /\ Len(SubSeq(s, 1, 2)) = 2
          /\ \A i \in 1 .. 2 : SubSeq(s, 1, 2)[i] = s[i]
      BY <2>2
    <3> QED
      BY <2>2, <3>1 DEF StripVersionTag
  <2> QED
    BY <2>1, <2>2
<1>3. ASSUME SameStem(t, u) PROVE Stem(n) = Stem(m)
  <2>1. \A i \in 1 .. 2 : i \in DOMAIN n \cup DOMAIN m => i \in DOMAIN n \cap DOMAIN m /\ n[i] = m[i]
    BY <1>3 DEF SameStem
  <2>2. \A i \in 1 .. 2 : i <= Len(n) <=> i <= Len(m)
    BY <1>1, <2>1
  <2>3. Len(Stem(n)) = Len(Stem(m)) /\ Len(Stem(n)) <= 2
    <3>1. Len(n) \in Nat /\ Len(m) \in Nat
      BY <1>1
    <3>2. (1 <= Len(n) <=> 1 <= Len(m)) /\ (2 <= Len(n) <=> 2 <= Len(m))
      BY <2>2
    <3>3. /\ Len(Stem(n)) = IF Len(n) <= 2 THEN Len(n) ELSE 2
          /\ Len(Stem(m)) = IF Len(m) <= 2 THEN Len(m) ELSE 2
      BY <1>1, <1>2
    <3> HIDE DEF Stem, n, m
    <3>4. CASE Len(n) <= 2
      BY <3>1, <3>2, <3>3, <3>4
    <3>5. CASE Len(n) > 2
      BY <3>1, <3>2, <3>3, <3>5
    <3> QED
      BY <3>1, <3>4, <3>5
  <2>4. \A i \in 1 .. Len(Stem(n)) : Stem(n)[i] = Stem(m)[i]
    BY <1>1, <1>2, <2>1, <2>2, <2>3
  <2> HIDE DEF Stem
  <2> QED
    BY <1>1, <1>2, <2>3, <2>4, SeqEqual
<1>4. ASSUME Stem(n) = Stem(m) PROVE SameStem(t, u)
  <2> HIDE DEF Stem
  <2>1. \A i \in 1 .. 2 : i <= Len(n) <=> i <= Len(m)
    BY <1>1, <1>2, <1>4
  <2>2. ASSUME NEW i \in 1 .. 2, i <= Len(n) PROVE n[i] = m[i]
    <3>1. Stem(n)[i] = n[i] /\ Stem(m)[i] = m[i]
      BY <1>1, <1>2, <2>1, <2>2
    <3> QED
      BY <1>4, <3>1
  <2> QED
    BY <1>1, <2>1, <2>2 DEF SameStem
<1> QED
  BY <1>3, <1>4

\* So a type is taken for another when both came from one type of the source,
\* unless that is behind further pointers, and only for one with its stem.
LEMMA TypesCompared ==
    \A t, u : /\ SameSource(t, u) => IsTypeEqual(t, u) \/ DeepDuplicate(t, u)
              /\ IsTypeEqual(t, u) => t = u \/ SameStem(t, u)
<1> TAKE t, u
<1>1. CASE t \in StructPtr /\ u \in StructPtr
  BY <1>1, StemsEqual, LinkerAssumption DEF SameSource, IsTypeEqual
<1>2. CASE ~(t \in StructPtr /\ u \in StructPtr)
  BY <1>2 DEF DeepDuplicate, IsTypeEqual
<1> QED
  BY <1>1, <1>2

-----------------------------------------------------------------------------
(* The construction. *)

LEMMA ProgramTyped ==
    ASSUME prog \in Programs
    PROVE  /\ prog.body \subseteq Func
           /\ prog.sig \in [Func -> Signature]
           /\ prog.queries \subseteq prog.body \X prog.body
           /\ prog.calls \in Seq(CallRecord)
           /\ Calls \subseteq CallRecord
<1>1. WellTyped(prog)
  BY ProgramsAssumption
<1>2. prog.calls \in Seq(CallRecord)
  BY <1>1 DEF WellTyped, CallRecord
<1> QED
  BY <1>1, <1>2 DEF WellTyped, Calls, ToSet

LEMMA Taken ==
    ASSUME NEW S, NEW s \in Seq(S), s # <<>>
    PROVE  /\ Tail(s) \in Seq(S)
           /\ Head(s) \in ToSet(s)
           /\ ToSet(s) = {Head(s)} \cup ToSet(Tail(s))
<1>1. /\ Tail(s) \in Seq(S) /\ Len(s) \in Nat \ {0} /\ Len(Tail(s)) = Len(s) - 1
      /\ \A i \in 1 .. Len(Tail(s)) : Tail(s)[i] = s[i + 1]
  BY HeadTailProperties, EmptySeq
<1>2. Head(s) = s[1]
  OBVIOUS
<1>3. ToSet(s) = {s[i] : i \in 1 .. Len(s)} /\ ToSet(Tail(s)) = {Tail(s)[i] : i \in 1 .. Len(Tail(s))}
  BY <1>1, LenProperties DEF ToSet
<1>4. \A i \in 1 .. Len(s) : i = 1 \/ (i - 1 \in 1 .. Len(Tail(s)) /\ s[i] = Tail(s)[i - 1])
  BY <1>1
<1>5. \A i \in 1 .. Len(Tail(s)) : i + 1 \in 1 .. Len(s)
  BY <1>1
<1>6. ToSet(s) \subseteq {Head(s)} \cup ToSet(Tail(s))
  BY <1>2, <1>3, <1>4
<1>7. ToSet(Tail(s)) \subseteq ToSet(s)
  BY <1>1, <1>3, <1>5
<1>8. Head(s) \in ToSet(s)
  BY <1>1, <1>2, <1>3
<1> QED
  BY <1>1, <1>6, <1>7, <1>8

LEMMA BuildInvInit ==
    ASSUME Init PROVE BuildInv
<1>1. prog \in Programs
  BY DEF Init
<1>2. source \in prog.body /\ sink \in prog.body
  BY <1>1, ProgramTyped DEF Init
<1>3. pending \in Seq(CallRecord)
  BY <1>1, ProgramTyped DEF Init
<1>4. ToSet(pending) = Calls
  BY DEF Init, Calls
<1> QED
  BY <1>1, <1>2, <1>3, <1>4 DEF Init, BuildInv, Built

LEMMA BuildInvNext ==
    ASSUME BuildInv, [Next]_vars PROVE BuildInv'
<1>1. CASE BuildNodes
  <2>1. /\ pc = "nodes" /\ pc' = "calls" /\ nodes' = prog.body /\ edges = {} /\ pending = prog.calls
        /\ UNCHANGED <<prog, pending, edges, source, sink>>
    BY <1>1 DEF BuildNodes, BuildInv
  <2>2. ToSet(pending) = Calls
    BY <2>1 DEF Calls
  <2> QED
    BY <2>1, <2>2 DEF BuildInv, Built, Calls, CallRecord
<1>2. CASE ConnectCall
  <2>1. /\ pc = "calls" /\ pending # <<>> /\ pending' = Tail(pending)
        /\ edges' = edges \cup CallEdges(Head(pending))
        /\ UNCHANGED <<prog, pc, nodes, source, sink>>
    BY <1>2 DEF ConnectCall
  <2>2. /\ pending' \in Seq(CallRecord)
        /\ Head(pending) \in ToSet(pending)
        /\ ToSet(pending) = {Head(pending)} \cup ToSet(pending')
    BY <2>1, Taken DEF BuildInv
  <2>3. \A c : CallEdges(c)' = CallEdges(c)
    BY <2>1 DEF CallEdges, Callees, GetIndirectCallCandidates, IsFuncSignatureMatch
  <2>4. CallRecord' = CallRecord /\ Calls' = Calls
    BY <2>1 DEF CallRecord, Calls
  <2>5. \A c \in Calls : c \in ToSet(pending') \/ CallEdges(c) \subseteq edges'
    BY <2>1, <2>2 DEF BuildInv
  <2>6. \A e \in edges' : \E c \in Calls : e \in CallEdges(c)
    BY <2>1, <2>2 DEF BuildInv
  <2> QED
    BY <2>1, <2>2, <2>3, <2>4, <2>5, <2>6 DEF BuildInv, Built
<1>3. CASE ComputePaths
  <2>1. pc = "calls" /\ pending = <<>> /\ pc' = "search"
        /\ UNCHANGED <<prog, pending, nodes, edges, source, sink>>
    BY <1>3 DEF ComputePaths
  <2>2. \A c : CallEdges(c)' = CallEdges(c)
    BY <2>1 DEF CallEdges, Callees, GetIndirectCallCandidates, IsFuncSignatureMatch
  <2> QED
    BY <2>1, <2>2 DEF BuildInv, Built, CallRecord, Calls
<1>4. CASE Visit \/ Return \/ UNCHANGED vars
  <2>1. UNCHANGED <<prog, pending, nodes, edges, source, sink>>
    BY <1>4 DEF Visit, Return, vars
  <2>2. \A c : CallEdges(c)' = CallEdges(c)
    BY <2>1 DEF CallEdges, Callees, GetIndirectCallCandidates, IsFuncSignatureMatch
  <2>3. pc' = pc \/ (pc = "search" /\ pc' = "done")
    BY <1>4 DEF Visit, Return, vars
  <2> QED
    BY <2>1, <2>2, <2>3 DEF BuildInv, Built, CallRecord, Calls
<1> QED
  BY <1>1, <1>2, <1>3, <1>4 DEF Next

\* Once the graph is built, it holds the edges of every call and no other.
LEMMA CallsConnected ==
    ASSUME BuildInv, Built
    PROVE  /\ nodes = prog.body
           /\ \A c \in Calls : CallEdges(c) \subseteq edges
<1>1. pending = <<>> /\ nodes = prog.body
  BY DEF BuildInv, Built
<1>2. ToSet(pending) = {}
  BY <1>1 DEF ToSet
<1> QED
  BY <1>1, <1>2 DEF BuildInv

LEMMA CalleeJoined ==
    ASSUME BuildInv, Built, NEW c \in Calls, NEW g \in Callees(c), g[1] \in prog.body
    PROVE  Joined(c.caller, g[1])
<1>1. <<c.caller, g[1], g[2]>> \in CallEdges(c)
  BY CallsConnected DEF CallEdges
<1> QED
  BY <1>1, CallsConnected DEF Joined

LEMMA CandidateJoined ==
    ASSUME BuildInv, Built, NEW c \in Calls, c.called \notin Func,
           NEW f \in prog.body, IsFuncSignatureMatch(c.sig, f)
    PROVE  Joined(c.caller, f)
<1>1. <<f, "IND_CALL">> \in Callees(c)
  BY DEF Callees, GetIndirectCallCandidates
<1> QED
  BY <1>1, CalleeJoined

LEMMA AllCallsCovered ==
    ASSUME BuildInv PROVE CallsCovered
<1> SUFFICES ASSUME Built, NEW c \in Calls
             PROVE  /\ c.called \in nodes => Joined(c.caller, c.called)
                    /\ c.called = Pointer =>
                          \A f \in nodes : SourceMatches(c.sig, prog.sig[f]) =>
                             \/ Joined(c.caller, f)
                             \/ f \in prog.varArg
                             \/ Overlooked(c.sig, prog.sig[f])
  BY DEF CallsCovered
<1>1. nodes = prog.body /\ prog.body \subseteq Func
  BY CallsConnected, ProgramTyped DEF BuildInv
<1>2. ASSUME c.called \in nodes PROVE Joined(c.caller, c.called)
  <2>1. <<c.called, "CONTROLDEP_CALLINV">> \in Callees(c)
    BY <1>1, <1>2 DEF Callees
  <2> QED
    BY <1>1, <1>2, <2>1, CalleeJoined
<1>3. ASSUME c.called = Pointer, NEW f \in nodes, SourceMatches(c.sig, prog.sig[f]),
             f \notin prog.varArg, ~Overlooked(c.sig, prog.sig[f])
      PROVE  Joined(c.caller, f)
  <2>1. IsFuncSignatureMatch(c.sig, f)
    BY <1>3, TypesCompared DEF IsFuncSignatureMatch, SourceMatches, Overlooked
  <2> QED
    BY <1>1, <1>3, <2>1, CandidateJoined, TypesAssumption
<1> QED
  BY <1>2, <1>3

\* The two copies of the match give the same answers.
LEMMA MatchesAgree ==
    ASSUME BuildInv, NEW c \in Calls, NEW f \in prog.body
    PROVE  PdgIsFuncSignatureMatch(c.sig, f) <=> IsFuncSignatureMatch(c.sig, f)
<1>1. /\ c.sig.args \in Seq(Type) /\ prog.sig[f].args \in Seq(Type)
      /\ f \in Func
  BY ProgramTyped DEF BuildInv, CallRecord, Signature
<1>2. DOMAIN c.sig.args = DOMAIN prog.sig[f].args <=> Len(c.sig.args) = Len(prog.sig[f].args)
  <2>1. /\ DOMAIN c.sig.args = 1 .. Len(c.sig.args) /\ Len(c.sig.args) \in Nat
        /\ DOMAIN prog.sig[f].args = 1 .. Len(prog.sig[f].args) /\ Len(prog.sig[f].args) \in Nat
    BY <1>1, LenProperties
  <2> QED
    BY <2>1
<1>3. \A t, u : PdgIsTypeEqual(t, u) <=> IsTypeEqual(t, u)
  BY DEF PdgIsTypeEqual, IsTypeEqual
<1>4. DOMAIN c.sig.args = DOMAIN prog.sig[f].args =>
         (PdgIsFuncSignatureMatch(c.sig, f) <=> IsFuncSignatureMatch(c.sig, f))
  BY <1>2, <1>3 DEF PdgIsFuncSignatureMatch, IsFuncSignatureMatch
<1>5. DOMAIN c.sig.args # DOMAIN prog.sig[f].args =>
         ~PdgIsFuncSignatureMatch(c.sig, f) /\ ~IsFuncSignatureMatch(c.sig, f)
  BY <1>2 DEF PdgIsFuncSignatureMatch, IsFuncSignatureMatch
<1> QED
  BY <1>4, <1>5

\* What the dependence graph joins a call to, the call graph does.
LEMMA PdgCalleeJoined ==
    ASSUME BuildInv, Built, NEW c \in Calls, NEW f \in PdgCallees(c)
    PROVE  Joined(c.caller, f)
<1>1. prog.body \subseteq Func
  BY ProgramTyped DEF BuildInv
<1>2. CASE c.called \in prog.body
  <2>1. f = c.called /\ <<f, "CONTROLDEP_CALLINV">> \in Callees(c)
    BY <1>1, <1>2, TypesAssumption DEF PdgCallees, Callees
  <2> QED
    BY <1>2, <2>1, CalleeJoined
<1>3. CASE c.called \notin prog.body
  <2>1. c.called = Pointer
    BY <1>3 DEF PdgCallees
  <2>2. f \in prog.body /\ IsFuncSignatureMatch(c.sig, f)
    BY <1>3, <2>1, MatchesAgree DEF PdgCallees
  <2> QED
    BY <2>1, <2>2, CandidateJoined, TypesAssumption
<1> QED
  BY <1>2, <1>3

LEMMA AllPdgCalls ==
    ASSUME BuildInv PROVE CalleesAgree
<1> SUFFICES ASSUME Built, NEW c \in Calls,
                    NEW e \in CallEdges(c), c.called # Constant, e[2] \in prog.used
             PROVE  e[2] \in PdgCallees(c)
  BY PdgCalleeJoined DEF CalleesAgree
<1>1. PICK g \in Callees(c) : g[1] \in nodes /\ e = <<c.caller, g[1], g[2]>>
  BY DEF CallEdges
<1>2. e[2] = g[1] /\ g[1] \in prog.body /\ prog.body \subseteq Func /\ c.called \in Operand
  BY <1>1, CallsConnected, ProgramTyped DEF BuildInv, CallRecord
<1>3. CASE c.called \in Func
  <2>1. g[1] = c.called
    BY <1>1, <1>3 DEF Callees
  <2> QED
    BY <1>2, <1>3, <2>1, TypesAssumption DEF PdgCallees
<1>4. CASE c.called \notin Func
  <2>1. c.called = Pointer /\ c.called \notin prog.body
    BY <1>2, <1>4 DEF Operand
  <2>2. IsFuncSignatureMatch(c.sig, g[1])
    BY <1>1, <1>4 DEF Callees, GetIndirectCallCandidates
  <2>3. PdgIsFuncSignatureMatch(c.sig, g[1])
    BY <1>2, <2>2, MatchesAgree
  <2> QED
    BY <1>2, <2>1, <2>3 DEF PdgCallees
<1> QED
  BY <1>3, <1>4

LEMMA AllEdgesJustified ==
    ASSUME BuildInv PROVE EdgesJustified
<1> SUFFICES ASSUME NEW e \in edges, e[3] = "IND_CALL"
             PROVE  \E c \in Calls :
                       LET s == <<c.sig.ret>> \o c.sig.args
                           r == <<prog.sig[e[2]].ret>> \o prog.sig[e[2]].args
                       IN  /\ c.caller = e[1]
                           /\ c.called \notin Func
                           /\ Len(s) = Len(r)
                           /\ \A i \in DOMAIN s : s[i] = r[i] \/ SameStem(s[i], r[i])
  BY DEF EdgesJustified
<1>1. PICK c \in Calls : e \in CallEdges(c)
  BY DEF BuildInv
<1>2. PICK g \in Callees(c) : e = <<c.caller, g[1], g[2]>>
  BY <1>1 DEF CallEdges
<1>3. c.called \notin Func /\ g[1] \in prog.body /\ IsFuncSignatureMatch(c.sig, g[1])
  BY <1>2 DEF Callees, GetIndirectCallCandidates
<1> DEFINE f == g[1]
           s == c.sig
           t == prog.sig[f]
<1>4. /\ s.ret \in Type /\ s.args \in Seq(Type)
      /\ t.ret \in Type /\ t.args \in Seq(Type)
  BY <1>3, ProgramTyped DEF BuildInv, CallRecord, Signature
<1>5. /\ Len(s.args) = Len(t.args)
      /\ IsTypeEqual(s.ret, t.ret)
      /\ \A i \in 1 .. Len(s.args) : IsTypeEqual(s.args[i], t.args[i])
  BY <1>3, <1>4 DEF IsFuncSignatureMatch
<1> HIDE DEF s, t
<1>6. /\ Len(<<s.ret>> \o s.args) = Len(<<t.ret>> \o t.args)
      /\ DOMAIN (<<s.ret>> \o s.args) = 1 .. Len(s.args) + 1
  BY <1>4, <1>5
<1>7. \A i \in 1 .. Len(s.args) + 1 :
          /\ (<<s.ret>> \o s.args)[i] = IF i = 1 THEN s.ret ELSE s.args[i - 1]
          /\ (<<t.ret>> \o t.args)[i] = IF i = 1 THEN t.ret ELSE t.args[i - 1]
  BY <1>4, <1>5
<1>8. \A i \in 1 .. Len(s.args) + 1 :
          IsTypeEqual((<<s.ret>> \o s.args)[i], (<<t.ret>> \o t.args)[i])
  <2> TAKE i \in 1 .. Len(s.args) + 1
  <2>1. CASE i = 1
    BY <1>5, <1>7, <2>1
  <2>2. CASE i # 1
    <3>1. i - 1 \in 1 .. Len(s.args)
      BY <1>4, <2>2
    <3>2. /\ (<<s.ret>> \o s.args)[i] = s.args[i - 1]
          /\ (<<t.ret>> \o t.args)[i] = t.args[i - 1]
      BY <1>7, <2>2
    <3> QED
      BY <1>5, <3>1, <3>2
  <2> QED
    BY <2>1, <2>2
<1>9. e[1] = c.caller /\ e[2] = f
  BY <1>2
<1> QED
  BY <1>1, <1>3, <1>6, <1>8, <1>9, TypesCompared DEF s, t

-----------------------------------------------------------------------------
(* The search, about any stack of frames.  *)

LEMMA NeighborsInBody ==
    ASSUME BuildInv PROVE \A f : OutNeighbors(f) \subseteq prog.body
<1>1. \A e \in edges : e[2] \in nodes
  <2> TAKE e \in edges
  <2>1. PICK c \in Calls : e \in CallEdges(c)
    BY DEF BuildInv
  <2> QED
    BY <2>1 DEF CallEdges
<1>2. nodes \subseteq prog.body
  BY DEF BuildInv
<1> QED
  BY <1>1, <1>2 DEF OutNeighbors

LEMMA OfferedInBody ==
    ASSUME BuildInv, NEW fs, NEW i PROVE Offered(fs, i) \subseteq prog.body
BY NeighborsInBody DEF Offered, BuildInv

\* What a frame comes back from without an answer is sealed off by the rest of
\* the path: the frame and all that its callees are sealed in together.
LEMMA SealedBack ==
    ASSUME BuildInv, NEW fs, PathInv(fs), TriedInv(fs), Len(fs) >= 2, fs[Len(fs)].left = {}
    PROVE  Sealed(fs[Len(fs)].func, On(fs, Len(fs) - 1))
<1> DEFINE n == Len(fs)
           f == fs[n].func
           V == On(fs, n)
           S == On(fs, n - 1)
           C == {f} \cup UNION {D \in SUBSET prog.body : Sealing(D, V)}
<1>1. n \in Nat
  BY DEF PathInv
<1>2. V = S \cup {f}
  BY <1>1 DEF On
<1>3. f \in prog.body /\ f # sink
  BY <1>1 DEF PathInv
<1>4. sink \notin C /\ C \subseteq prog.body
  BY <1>3 DEF Sealing
<1>5. ASSUME NEW g \in OutNeighbors(f) PROVE g \in C \cup S
  <2>1. g \in Offered(fs, n) \ fs[n].left
    BY <1>1 DEF Offered
  <2>2. g \in V \/ Sealed(g, V)
    BY <1>1, <2>1 DEF TriedInv
  <2> QED
    BY <1>2, <2>2 DEF Sealed
<1>6. ASSUME NEW e \in edges, e[1] \in C PROVE e[2] \in C \cup S
  <2>1. CASE e[1] = f
    BY <1>5, <2>1 DEF OutNeighbors
  <2>2. CASE e[1] # f
    <3>1. PICK D \in SUBSET prog.body : Sealing(D, V) /\ e[1] \in D
      BY <1>6, <2>2
    <3>2. e[2] \in D \cup V
      BY <3>1 DEF Sealing
    <3> QED
      BY <1>2, <3>1, <3>2
  <2> QED
    BY <2>1, <2>2
<1>7. Sealing(C, S)
  BY <1>4, <1>6 DEF Sealing
<1>8. f \in C
  OBVIOUS
<1> HIDE DEF C
<1> QED
  BY <1>4, <1>7, <1>8 DEF Sealed

\* Taking a neighbour off the last frame.
Without(fs, f) == [fs EXCEPT ![Len(fs)].left = @ \ {f}]

LEMMA WithoutIs ==
    ASSUME NEW fs \in Seq(Frame), fs # <<>>, NEW f
    PROVE  /\ Without(fs, f) \in Seq(Frame)
           /\ Len(Without(fs, f)) = Len(fs)
           /\ \A i \in 1 .. Len(fs) :
                 /\ Without(fs, f)[i].func = fs[i].func
                 /\ Without(fs, f)[i].left = IF i = Len(fs) THEN fs[i].left \ {f} ELSE fs[i].left
           /\ \A i \in 0 .. Len(fs) : On(Without(fs, f), i) = On(fs, i)
           /\ \A i \in 1 .. Len(fs) : Offered(Without(fs, f), i) = Offered(fs, i)
<1> DEFINE n == Len(fs)
           last == [fs[n] EXCEPT !.left = @ \ {f}]
<1>1. n \in 1 .. Len(fs) /\ fs[n] \in Frame
  BY EmptySeq
<1>2. last \in Frame /\ last.func = fs[n].func /\ last.left = fs[n].left \ {f}
  BY <1>1 DEF Frame
<1>3. Without(fs, f) = [fs EXCEPT ![n] = last]
  BY DEF Without
<1> HIDE DEF last
<1>4. /\ Without(fs, f) \in Seq(Frame)
      /\ Len(Without(fs, f)) = Len(fs)
      /\ \A i \in 1 .. Len(fs) : Without(fs, f)[i] = IF i = n THEN last ELSE fs[i]
  BY <1>1, <1>2, <1>3, ExceptSeq
<1>5. \A i \in 1 .. Len(fs) :
         /\ Without(fs, f)[i].func = fs[i].func
         /\ Without(fs, f)[i].left = IF i = n THEN fs[i].left \ {f} ELSE fs[i].left
  BY <1>2, <1>4
<1>6. \A i \in 0 .. Len(fs) : On(Without(fs, f), i) = On(fs, i)
  <2> TAKE i \in 0 .. Len(fs)
  <2>1. \A j \in 2 .. i : j \in 1 .. Len(fs)
    BY <1>1
  <2>2. \A j \in 2 .. i : Without(fs, f)[j].func = fs[j].func
    BY <1>5, <2>1
  <2> QED
    BY <2>2 DEF On
<1>7. \A i \in 1 .. Len(fs) : Offered(Without(fs, f), i) = Offered(fs, i)
  BY <1>5 DEF Offered
<1> QED
  BY <1>4, <1>5, <1>6, <1>7

LEMMA WithoutPath ==
    ASSUME NEW fs, fs # <<>>, PathInv(fs), NEW f PROVE PathInv(Without(fs, f))
<1> DEFINE gs == Without(fs, f)
<1>1. fs \in Seq(Frame) /\ Len(fs) \in Nat \ {0}
  BY EmptySeq DEF PathInv
<1>2. /\ gs \in Seq(Frame) /\ Len(gs) = Len(fs)
      /\ \A i \in 1 .. Len(fs) : gs[i].func = fs[i].func /\ gs[i].left \subseteq fs[i].left
      /\ \A i \in 1 .. Len(fs) : Offered(gs, i) = Offered(fs, i)
  <2>1. /\ gs \in Seq(Frame) /\ Len(gs) = Len(fs)
        /\ \A i \in 1 .. Len(fs) :
              /\ gs[i].func = fs[i].func
              /\ gs[i].left = IF i = Len(fs) THEN fs[i].left \ {f} ELSE fs[i].left
        /\ \A i \in 1 .. Len(fs) : Offered(gs, i) = Offered(fs, i)
    BY <1>1, WithoutIs
  <2> HIDE DEF gs
  <2> QED
    BY <2>1
<1> HIDE DEF gs
<1>3. \A i \in 1 .. Len(gs) : gs[i].left \subseteq Offered(gs, i)
  BY <1>2 DEF PathInv
<1>4. \A i \in 2 .. Len(gs) : i \in 1 .. Len(fs) /\ gs[i].func = fs[i].func
  BY <1>1, <1>2
<1>5. \A i \in 3 .. Len(gs) : Joined(gs[i - 1].func, gs[i].func)
  <2> TAKE i \in 3 .. Len(gs)
  <2>1. i \in 3 .. Len(fs) /\ i - 1 \in 2 .. Len(gs) /\ i \in 2 .. Len(gs)
    BY <1>1, <1>2
  <2> QED
    BY <1>4, <2>1 DEF PathInv
<1>6. Len(gs) >= 2 => gs[2].func = source
  BY <1>1, <1>2 DEF PathInv
<1> QED
  BY <1>2, <1>3, <1>4, <1>5, <1>6 DEF PathInv, gs


\* A function that lies on the path may be passed over.
LEMMA WithoutTried ==
    ASSUME NEW fs, fs # <<>>, PathInv(fs), TriedInv(fs), NEW f, f \in On(fs, Len(fs))
    PROVE  TriedInv(Without(fs, f))
<1> DEFINE gs == Without(fs, f)
<1>1. fs \in Seq(Frame) /\ Len(fs) \in Nat \ {0}
  BY EmptySeq DEF PathInv
<1>2. /\ Len(gs) = Len(fs)
      /\ \A i \in 1 .. Len(fs) :
            /\ gs[i].func = fs[i].func
            /\ gs[i].left = IF i = Len(fs) THEN fs[i].left \ {f} ELSE fs[i].left
      /\ \A i \in 0 .. Len(fs) : On(gs, i) = On(fs, i)
      /\ \A i \in 1 .. Len(fs) : Offered(gs, i) = Offered(fs, i)
  BY <1>1, WithoutIs
<1> HIDE DEF gs
<1> SUFFICES ASSUME NEW i \in 1 .. Len(fs), NEW g \in Offered(fs, i) \ gs[i].left
             PROVE  \/ g \in On(fs, i)
                    \/ i < Len(fs) /\ g = gs[i + 1].func
                    \/ Sealed(g, On(fs, i))
  BY <1>2 DEF TriedInv, gs
<1>3. CASE g \in fs[i].left
  BY <1>2, <1>3
<1>4. CASE g \notin fs[i].left
  <2>1. g \in On(fs, i) \/ (i < Len(fs) /\ g = fs[i + 1].func) \/ Sealed(g, On(fs, i))
    BY <1>4 DEF TriedInv
  <2>2. i < Len(fs) => i + 1 \in 1 .. Len(fs)
    BY <1>1
  <2> QED
    BY <1>2, <2>1, <2>2
<1> QED
  BY <1>3, <1>4

\* A call of the helper for a function that is not on the path.
Pushed(fs, f) == Append(Without(fs, f), [func |-> f, left |-> OutNeighbors(f)])

LEMMA PushedIs ==
    ASSUME BuildInv, NEW fs, fs # <<>>, PathInv(fs), NEW f \in prog.body
    PROVE  /\ Pushed(fs, f) \in Seq(Frame)
           /\ Len(Pushed(fs, f)) = Len(fs) + 1
           /\ \A i \in 1 .. Len(fs) :
                 /\ Pushed(fs, f)[i].func = fs[i].func
                 /\ Pushed(fs, f)[i].left = IF i = Len(fs) THEN fs[i].left \ {f} ELSE fs[i].left
           /\ Pushed(fs, f)[Len(fs) + 1].func = f
           /\ Pushed(fs, f)[Len(fs) + 1].left = OutNeighbors(f)
           /\ \A i \in 1 .. Len(fs) : /\ On(Pushed(fs, f), i) = On(fs, i)
                                      /\ Offered(Pushed(fs, f), i) = Offered(fs, i)
           /\ Offered(Pushed(fs, f), Len(fs) + 1) = OutNeighbors(f)
<1> DEFINE ws == Without(fs, f)
           new == [func |-> f, left |-> OutNeighbors(f)]
           gs == Append(ws, new)
<1>1. fs \in Seq(Frame) /\ Len(fs) \in Nat \ {0}
  BY EmptySeq DEF PathInv
<1>2. new \in Frame
  <2>1. f \in Func
    BY ProgramTyped DEF BuildInv
  <2> QED
    BY <2>1, NeighborsInBody DEF Frame
<1>3. /\ ws \in Seq(Frame) /\ Len(ws) = Len(fs)
      /\ \A i \in 1 .. Len(fs) :
            /\ ws[i].func = fs[i].func
            /\ ws[i].left = IF i = Len(fs) THEN fs[i].left \ {f} ELSE fs[i].left
  BY <1>1, WithoutIs
<1>4. new.func = f /\ new.left = OutNeighbors(f)
  OBVIOUS
<1> HIDE DEF ws, new
<1>5. /\ gs \in Seq(Frame) /\ Len(gs) = Len(fs) + 1
      /\ \A i \in 1 .. Len(fs) : gs[i] = ws[i]
      /\ gs[Len(fs) + 1] = new
  BY <1>2, <1>3, AppendProperties
<1> HIDE DEF gs
<1>6. \A i \in 1 .. Len(fs) : gs[i].func = fs[i].func
  BY <1>3, <1>5
<1>7. \A i \in 1 .. Len(fs) : On(gs, i) = On(fs, i)
  <2> TAKE i \in 1 .. Len(fs)
  <2>1. \A j \in 2 .. i : j \in 1 .. Len(fs)
    BY <1>1
  <2> QED
    BY <1>6, <2>1 DEF On
<1>8. \A i \in 1 .. Len(fs) : Offered(gs, i) = Offered(fs, i)
  BY <1>6 DEF Offered
<1>9. Offered(gs, Len(fs) + 1) = OutNeighbors(f)
  BY <1>1, <1>4, <1>5 DEF Offered
<1>10. gs = Pushed(fs, f)
  BY DEF Pushed, gs, ws, new
<1>11. \A i \in 1 .. Len(fs) :
           gs[i].left = IF i = Len(fs) THEN fs[i].left \ {f} ELSE fs[i].left
  BY <1>3, <1>5
<1>12. gs[Len(fs) + 1].func = f /\ gs[Len(fs) + 1].left = OutNeighbors(f)
  BY <1>4, <1>5
<1> QED
  BY <1>5, <1>6, <1>7, <1>8, <1>9, <1>10, <1>11, <1>12

LEMMA PushedPath ==
    ASSUME BuildInv, NEW fs, fs # <<>>, PathInv(fs), NEW f \in fs[Len(fs)].left,
           f # sink, f \notin On(fs, Len(fs))
    PROVE  PathInv(Pushed(fs, f))
<1> DEFINE gs == Pushed(fs, f)
           n  == Len(fs)
<1>1. fs \in Seq(Frame) /\ n \in Nat \ {0} /\ n \in 1 .. Len(fs)
  BY EmptySeq DEF PathInv
<1>2. f \in Offered(fs, n) /\ f \in prog.body
  BY <1>1, OfferedInBody DEF PathInv
<1>3. /\ gs \in Seq(Frame)
      /\ Len(gs) = n + 1
      /\ \A i \in 1 .. n :
            /\ gs[i].func = fs[i].func
            /\ gs[i].left = IF i = n THEN fs[i].left \ {f} ELSE fs[i].left
      /\ gs[n + 1].func = f
      /\ gs[n + 1].left = OutNeighbors(f)
      /\ \A i \in 1 .. n : /\ On(gs, i) = On(fs, i)
                           /\ Offered(gs, i) = Offered(fs, i)
      /\ Offered(gs, n + 1) = OutNeighbors(f)
  BY <1>2, PushedIs
<1> HIDE DEF gs
<1>4. \A i \in 1 .. n + 1 : i \in 1 .. n \/ i = n + 1
  BY <1>1
<1>5. \A i \in 1 .. n : gs[i].left \subseteq Offered(gs, i)
  BY <1>3 DEF PathInv
<1>6. \A i \in 2 .. n + 1 : gs[i].func \in prog.body /\ gs[i].func # sink
  <2> TAKE i \in 2 .. n + 1
  <2>1. CASE i = n + 1
    BY <1>2, <1>3, <2>1
  <2>2. CASE i # n + 1
    <3>1. i \in 2 .. n /\ i \in 1 .. n
      BY <1>1, <2>2
    <3> QED
      BY <1>3, <3>1 DEF PathInv
  <2> QED
    BY <2>1, <2>2
<1>7. gs[2].func = source
  <2>1. CASE n = 1
    BY <1>2, <1>3, <2>1 DEF Offered
  <2>2. CASE n # 1
    <3> HIDE DEF n
    <3>1. n \in Nat /\ n >= 2
      BY <1>1, <2>2
    <3>2. 2 \in 1 .. n
      BY <3>1
    <3> QED
      BY <1>3, <3>1, <3>2 DEF PathInv, n
  <2> QED
    BY <2>1, <2>2
<1>8. \A i \in 3 .. n + 1 : Joined(gs[i - 1].func, gs[i].func)
  <2> TAKE i \in 3 .. n + 1
  <2>1. CASE i = n + 1
    <3>1. n # 1 /\ i - 1 = n
      BY <1>1, <2>1
    <3>2. f \in OutNeighbors(fs[n].func)
      BY <1>2, <3>1 DEF Offered
    <3>3. Joined(fs[n].func, f)
      BY <3>2 DEF OutNeighbors, Joined
    <3> QED
      BY <1>1, <1>3, <2>1, <3>1, <3>3
  <2>2. CASE i # n + 1
    <3>1. i \in 3 .. n /\ i \in 1 .. n /\ i - 1 \in 1 .. n
      BY <1>1, <2>2
    <3> QED
      BY <1>3, <3>1 DEF PathInv
  <2> QED
    BY <2>1, <2>2
<1>9. \A i \in 2 .. n : gs[i].func # f
  <2> TAKE i \in 2 .. n
  <2>1. i \in 1 .. n /\ fs[i].func \in On(fs, n)
    BY <1>1 DEF On
  <2> QED
    BY <1>3, <2>1
<1>10. \A i, j \in 2 .. n + 1 : gs[i].func = gs[j].func => i = j
  <2> TAKE i, j \in 2 .. n + 1
  <2>1. (i = n + 1 \/ i \in 2 .. n) /\ (j = n + 1 \/ j \in 2 .. n)
    BY <1>1
  <2>2. CASE i \in 2 .. n /\ j \in 2 .. n
    <3>1. i \in 1 .. n /\ j \in 1 .. n
      BY <1>1, <2>2
    <3> QED
      BY <1>3, <2>2, <3>1 DEF PathInv
  <2>3. CASE i = n + 1 \/ j = n + 1
    BY <1>3, <1>9, <2>1, <2>3
  <2> QED
    BY <2>1, <2>2, <2>3
<1>11. \A i \in 1 .. Len(gs) : gs[i].left \subseteq Offered(gs, i)
  BY <1>3, <1>4, <1>5
<1> QED
  BY <1>3, <1>6, <1>7, <1>8, <1>10, <1>11 DEF PathInv, gs

LEMMA PushedTried ==
    ASSUME BuildInv, NEW fs, fs # <<>>, PathInv(fs), TriedInv(fs), NEW f \in prog.body
    PROVE  TriedInv(Pushed(fs, f))
<1> DEFINE gs == Pushed(fs, f)
           n  == Len(fs)
<1>1. fs \in Seq(Frame) /\ n \in Nat \ {0}
  BY EmptySeq DEF PathInv
<1>2. /\ Len(gs) = n + 1
      /\ \A i \in 1 .. n :
            /\ gs[i].func = fs[i].func
            /\ gs[i].left = IF i = n THEN fs[i].left \ {f} ELSE fs[i].left
      /\ gs[n + 1].func = f
      /\ gs[n + 1].left = OutNeighbors(f)
      /\ \A i \in 1 .. n : /\ On(gs, i) = On(fs, i)
                           /\ Offered(gs, i) = Offered(fs, i)
      /\ Offered(gs, n + 1) = OutNeighbors(f)
  BY PushedIs
<1> HIDE DEF gs
<1> SUFFICES ASSUME NEW i \in 1 .. n + 1, NEW g \in Offered(gs, i) \ gs[i].left
             PROVE  \/ g \in On(gs, i)
                    \/ i < n + 1 /\ g = gs[i + 1].func
                    \/ Sealed(g, On(gs, i))
  BY <1>2 DEF TriedInv, gs
<1>3. i \in 1 .. n
  <2>1. i # n + 1
    BY <1>2
  <2> QED
    BY <1>1, <2>1
<1>4. CASE i = n /\ g = f
  BY <1>1, <1>2, <1>4
<1>5. CASE ~(i = n /\ g = f)
  <2>1. g \in Offered(fs, i) \ fs[i].left
    BY <1>2, <1>3, <1>5
  <2>2. g \in On(fs, i) \/ (i < n /\ g = fs[i + 1].func) \/ Sealed(g, On(fs, i))
    BY <1>3, <2>1 DEF TriedInv
  <2>3. i < n => i + 1 \in 1 .. n /\ i < n + 1
    BY <1>1
  <2> QED
    BY <1>2, <1>3, <2>2, <2>3
<1> QED
  BY <1>4, <1>5


\* A return of the helper.
LEMMA FrontIs ==
    ASSUME NEW fs, PathInv(fs), Len(fs) >= 2
    PROVE  /\ Front(fs) \in Seq(Frame)
           /\ Len(Front(fs)) = Len(fs) - 1
           /\ \A i \in 1 .. Len(fs) - 1 : Front(fs)[i] = fs[i]
<1>1. fs \in Seq(Frame) /\ Len(fs) \in Nat
  BY DEF PathInv
<1>2. \A i \in 1 .. Len(fs) - 1 : fs[i] \in Frame
  BY <1>1
<1>3. /\ SubSeq(fs, 1, Len(fs) - 1) \in Seq(Frame)
      /\ Len(SubSeq(fs, 1, Len(fs) - 1)) = Len(fs) - 1
      /\ \A i \in 1 .. Len(fs) - 1 : SubSeq(fs, 1, Len(fs) - 1)[i] = fs[i]
  BY <1>1, <1>2, SubSeqProperties
<1> QED
  BY <1>3 DEF Front

LEMMA FrontPath ==
    ASSUME NEW fs, PathInv(fs), Len(fs) >= 2
    PROVE  Front(fs) # <<>> /\ PathInv(Front(fs))
<1> DEFINE gs == Front(fs)
           n == Len(fs) - 1
<1>1. n \in Nat \ {0} /\ Len(fs) = n + 1
  BY DEF PathInv
<1>2. /\ gs \in Seq(Frame) /\ Len(gs) = n
      /\ \A i \in 1 .. n : gs[i] = fs[i]
  BY FrontIs
<1> HIDE DEF gs, n
<1>3. \A i \in 1 .. n : gs[i].left \subseteq Offered(gs, i)
  <2>1. \A i \in 1 .. n : i \in 1 .. Len(fs)
    BY <1>1
  <2> QED
    BY <1>2, <2>1 DEF PathInv, Offered
<1>4. \A i \in 2 .. n : i \in 2 .. Len(fs) /\ gs[i] = fs[i]
  BY <1>1, <1>2
<1>5. \A i \in 3 .. n : i \in 3 .. Len(fs) /\ i - 1 \in 2 .. n /\ i \in 2 .. n
  BY <1>1
<1>6. \A i \in 3 .. n : Joined(gs[i - 1].func, gs[i].func)
  BY <1>4, <1>5 DEF PathInv
<1>7. n >= 2 => gs[2].func = source
  BY <1>1, <1>2 DEF PathInv
<1>8. PathInv(gs)
  BY <1>2, <1>3, <1>4, <1>6, <1>7 DEF PathInv
<1> QED
  BY <1>1, <1>2, <1>8 DEF gs

LEMMA FrontTried ==
    ASSUME BuildInv, NEW fs, PathInv(fs), TriedInv(fs), Len(fs) >= 2, fs[Len(fs)].left = {}
    PROVE  TriedInv(Front(fs))
<1> DEFINE gs == Front(fs)
           n == Len(fs) - 1
<1>1. n \in Nat \ {0} /\ Len(fs) = n + 1
  BY DEF PathInv
<1>2. /\ gs \in Seq(Frame) /\ Len(gs) = n
      /\ \A i \in 1 .. n : gs[i] = fs[i]
  BY FrontIs
<1>3. Sealed(fs[n + 1].func, On(fs, n))
  BY <1>1, SealedBack
<1> HIDE DEF gs, n
<1>4. \A i \in 1 .. n : On(gs, i) = On(fs, i) /\ Offered(gs, i) = Offered(fs, i)
  <2> TAKE i \in 1 .. n
  <2>1. \A j \in 2 .. i : gs[j] = fs[j]
    BY <1>1, <1>2
  <2> QED
    BY <1>2, <2>1 DEF On, Offered
<1> SUFFICES ASSUME NEW i \in 1 .. n, NEW g \in Offered(fs, i) \ fs[i].left
             PROVE  g \in On(fs, i) \/ (i < n /\ g = gs[i + 1].func) \/ Sealed(g, On(fs, i))
  BY <1>2, <1>4 DEF TriedInv, gs
<1>5. i \in 1 .. Len(fs)
  BY <1>1
<1>6. g \in On(fs, i) \/ g = fs[i + 1].func \/ Sealed(g, On(fs, i))
  BY <1>5 DEF TriedInv
<1>7. CASE i = n
  BY <1>3, <1>6, <1>7
<1>8. CASE i # n
  <2>1. i < n /\ i + 1 \in 1 .. n
    BY <1>1, <1>8
  <2> QED
    BY <1>2, <1>6, <2>1
<1> QED
  BY <1>7, <1>8

\* What computePathsHelper writes down when it arrives.
PathOf(fs) == [i \in 1 .. Len(fs) - 1 |-> fs[i + 1].func]

LEMMA ArrivedPath ==
    ASSUME BuildInv, NEW fs, fs # <<>>, PathInv(fs), sink \in fs[Len(fs)].left
    PROVE  /\ Append(PathOf(fs), sink) \in Seq(prog.body)
           /\ Append(PathOf(fs), sink) # <<>>
           /\ SimplePath(Append(PathOf(fs), sink))
<1> DEFINE n == Len(fs)
           q == PathOf(fs)
           p == Append(q, sink)
<1>1. fs \in Seq(Frame) /\ n \in Nat \ {0}
  BY EmptySeq DEF PathInv
<1>2. sink \in Offered(fs, n) /\ sink \in prog.body
  BY <1>1, OfferedInBody DEF PathInv
<1> HIDE DEF n
<1>3. \A i \in 1 .. n - 1 : i + 1 \in 2 .. n
  BY <1>1
<1>4. q \in Seq(prog.body) /\ Len(q) = n - 1 /\ \A i \in 1 .. n - 1 : q[i] = fs[i + 1].func
  <2>1. \A i \in 1 .. n - 1 : fs[i + 1].func \in prog.body
    BY <1>3 DEF PathInv, n
  <2>2. q = [i \in 1 .. n - 1 |-> fs[i + 1].func] /\ n - 1 \in Nat
    BY <1>1 DEF PathOf, n
  <2>3. q \in [1 .. n - 1 -> prog.body]
    BY <2>1, <2>2
  <2> DEFINE m == n - 1
  <2>4. m \in Nat /\ q \in [1 .. m -> prog.body]
    BY <2>2, <2>3
  <2>5. \A i \in 1 .. m : q[i] = fs[i + 1].func
    BY <2>2
  <2> HIDE DEF q, m
  <2>6. q \in Seq(prog.body)
    BY <2>4, SeqDef
  <2>7. DOMAIN q = 1 .. m
    BY <2>4
  <2>8. Len(q) = m
    BY <2>4, <2>6, <2>7, LenProperties
  <2> QED
    BY <2>5, <2>6, <2>8 DEF m
<1> HIDE DEF q
<1>5. /\ p \in Seq(prog.body) /\ p # <<>> /\ Len(p) = n
      /\ \A i \in 1 .. n - 1 : p[i] = fs[i + 1].func
      /\ p[n] = sink
  <2>1. Len(q) + 1 = n
    BY <1>1, <1>4
  <2>2. \A i \in 1 .. n - 1 : p[i] = q[i]
    BY <1>2, <1>4, AppendProperties
  <2>3. p \in Seq(prog.body) /\ p # <<>> /\ Len(p) = Len(q) + 1 /\ p[Len(q) + 1] = sink
    BY <1>2, <1>4, AppendProperties
  <2> QED
    BY <1>4, <2>1, <2>2, <2>3
<1> HIDE DEF p
<1>6. p[1] = source
  <2>1. CASE n = 1
    BY <1>2, <1>5, <2>1 DEF Offered
  <2>2. CASE n # 1
    <3>1. n >= 2 /\ 1 \in 1 .. n - 1
      BY <1>1, <2>2
    <3> QED
      BY <1>5, <3>1 DEF PathInv, n
  <2> QED
    BY <2>1, <2>2
<1>7. \A i \in 1 .. n - 1 : Joined(p[i], p[i + 1])
  <2> TAKE i \in 1 .. n - 1
  <2>1. CASE i = n - 1
    <3>1. n # 1 /\ i + 1 = n
      BY <1>1, <2>1
    <3>2. sink \in OutNeighbors(fs[n].func)
      BY <1>2, <3>1 DEF Offered
    <3> QED
      BY <1>5, <3>1, <3>2 DEF OutNeighbors, Joined
  <2>2. CASE i # n - 1
    <3>1. i + 1 \in 1 .. n - 1 /\ i + 2 \in 3 .. n /\ (i + 2) - 1 = i + 1 /\ (i + 1) + 1 = i + 2
      BY <1>1, <2>2
    <3>2. Joined(fs[i + 1].func, fs[i + 2].func)
      BY <3>1 DEF PathInv, n
    <3> QED
      BY <1>5, <3>1, <3>2
  <2> QED
    BY <2>1, <2>2
<1>8. \A i \in 1 .. n - 1 : p[i] # sink
  BY <1>3, <1>5 DEF PathInv, n
<1>9. \A i, j \in 1 .. n : p[i] = p[j] => i = j
  <2> TAKE i, j \in 1 .. n
  <2>1. (i = n \/ i \in 1 .. n - 1) /\ (j = n \/ j \in 1 .. n - 1)
    BY <1>1
  <2>2. CASE i \in 1 .. n - 1 /\ j \in 1 .. n - 1
    <3>1. i + 1 \in 2 .. n /\ j + 1 \in 2 .. n /\ (i + 1 = j + 1 => i = j)
      BY <1>3, <2>2
    <3>2. fs[i + 1].func = fs[j + 1].func => i + 1 = j + 1
      BY <3>1 DEF PathInv, n
    <3> QED
      BY <1>5, <2>2, <3>1, <3>2
  <2>3. CASE i = n \/ j = n
    BY <1>5, <1>8, <2>1, <2>3
  <2> QED
    BY <2>1, <2>2, <2>3
<1>10. DOMAIN p = 1 .. n
  BY <1>5, LenProperties
<1>11. SimplePath(p)
  BY <1>5, <1>6, <1>7, <1>9, <1>10 DEF SimplePath
<1> QED
  BY <1>5, <1>11 DEF p, q


-----------------------------------------------------------------------------
(* The invariant of the search. *)

\* While the graph and the query stay the same, what is said of the frames is
\* said of their new value.
LEMMA Frozen ==
    ASSUME UNCHANGED <<prog, edges, source, sink>>
    PROVE  /\ PathInv(frames') => PathInv(frames)'
           /\ TriedInv(frames') => TriedInv(frames)'
           /\ Sealed(source, {}) => Sealed(source, {})'
           /\ \A p : SimplePath(p)' = SimplePath(p)
<1>1. \A f, g : Joined(f, g)' = Joined(f, g)
  BY DEF Joined
<1>2. \A f : OutNeighbors(f)' = OutNeighbors(f)
  BY DEF OutNeighbors
<1>3. Frame' = Frame
  BY DEF Frame
<1>4. \A i : Offered(frames', i) = Offered(frames, i)'
  BY <1>2 DEF Offered
<1>5. \A i : On(frames', i) = On(frames, i)'
  BY DEF On
<1>6. \A g, S : Sealed(g, S)' = Sealed(g, S)
  BY DEF Sealed, Sealing
<1>7. PathInv(frames') => PathInv(frames)'
  BY <1>1, <1>3, <1>4 DEF PathInv
<1>8. TriedInv(frames') => TriedInv(frames)'
  BY <1>4, <1>5, <1>6 DEF TriedInv
<1>9. \A p : SimplePath(p)' = SimplePath(p)
  BY <1>1 DEF SimplePath
<1> QED
  BY <1>6, <1>7, <1>8, <1>9

LEMMA SearchInvInit == ASSUME Init PROVE SearchInv
BY DEF Init, SearchInv

\* The first frame stands before the source, which alone is left to visit.
LEMMA FirstFrame ==
    ASSUME BuildInv, NEW fs, fs = <<[func |-> Constant, left |-> {source}]>>
    PROVE  fs # <<>> /\ PathInv(fs) /\ TriedInv(fs)
<1>1. fs \in Seq(Frame) /\ Len(fs) = 1 /\ fs[1] = [func |-> Constant, left |-> {source}]
  BY DEF BuildInv, Frame
<1>2. \A i : (i \in 1 .. Len(fs) => i = 1) /\ i \notin 2 .. Len(fs) /\ i \notin 3 .. Len(fs)
  BY <1>1
<1>3. fs[1].left = Offered(fs, 1)
  BY <1>1 DEF Offered
<1>4. ~(Len(fs) >= 2)
  BY <1>1
<1>5. PathInv(fs)
  BY <1>1, <1>2, <1>3, <1>4 DEF PathInv
<1>6. TriedInv(fs)
  BY <1>2, <1>3 DEF TriedInv
<1> QED
  BY <1>1, <1>5, <1>6

\* cur_path holds the functions of the frames.
LEMMA VisitedOn ==
    ASSUME PathInv(frames), frames # <<>>, NEW f
    PROVE  Visited(f) <=> f \in On(frames, Len(frames))
<1> DEFINE n == Len(frames)
<1>1. n \in Nat \ {0}
  BY EmptySeq DEF PathInv
<1>2. CurPath = [i \in 1 .. n - 1 |-> frames[i + 1].func]
  BY DEF CurPath
<1> HIDE DEF n
<1>3. \A i \in 1 .. n - 1 : i + 1 \in 2 .. n
  BY <1>1
<1>4. \A j \in 2 .. n : j - 1 \in 1 .. n - 1 /\ (j - 1) + 1 = j
  BY <1>1
<1>5. Visited(f) <=> \E i \in 1 .. n - 1 : frames[i + 1].func = f
  BY <1>2 DEF Visited, Range
<1>6. f \in On(frames, n) <=> \E j \in 2 .. n : frames[j].func = f
  BY DEF On
<1> QED
  BY <1>3, <1>4, <1>5, <1>6 DEF n


\* The functions that are turned away lie on the path, or an answer is there.
LEMMA SkipKeeps ==
    ASSUME BuildInv, SearchInv, pc = "search", NEW f \in Left, Skip(f)
    PROVE  frames' # <<>> /\ PathInv(frames') /\ (~found => TriedInv(frames'))
<1>1. frames # <<>> /\ PathInv(frames) /\ (~found => TriedInv(frames))
  BY DEF SearchInv
<1>2. frames' = Without(frames, f)
  BY DEF Skip, Took, Without
<1>3. PathInv(frames')
  BY <1>1, <1>2, WithoutPath
<1>4. frames' # <<>>
  <2>1. Len(frames') = Len(frames) /\ frames \in Seq(Frame) /\ frames' \in Seq(Frame)
    BY <1>1, <1>2, WithoutIs DEF PathInv
  <2> QED
    BY <1>1, <2>1, EmptySeq
<1>5. ASSUME ~found PROVE TriedInv(frames')
  <2>1. f \in On(frames, Len(frames))
    BY <1>1, <1>5, VisitedOn DEF Skip, TurnedAway
  <2> QED
    BY <1>1, <1>2, <1>5, <2>1, WithoutTried
<1> QED
  BY <1>3, <1>4, <1>5

LEMMA DescendKeeps ==
    ASSUME BuildInv, SearchInv, pc = "search", NEW f \in Left, Descend(f)
    PROVE  frames' # <<>> /\ PathInv(frames') /\ (~found => TriedInv(frames'))
<1>1. frames # <<>> /\ PathInv(frames) /\ ~found /\ TriedInv(frames)
  BY DEF SearchInv, Descend, TurnedAway
<1>2. frames' = Pushed(frames, f)
  BY DEF Descend, Took, Without, Pushed
<1>3. f \in frames[Len(frames)].left /\ f # sink
  BY DEF Left, Descend
<1>4. f \notin On(frames, Len(frames))
  BY <1>1, VisitedOn DEF Descend, TurnedAway
<1>5. f \in prog.body
  <2>1. frames \in Seq(Frame) /\ Len(frames) \in Nat \ {0}
    BY <1>1, EmptySeq DEF PathInv
  <2>2. Len(frames) \in 1 .. Len(frames)
    BY <2>1
  <2>3. frames[Len(frames)].left \subseteq Offered(frames, Len(frames))
    BY <1>1, <2>2 DEF PathInv
  <2> QED
    BY <1>3, <2>3, OfferedInBody
<1>6. PathInv(frames')
  BY <1>1, <1>2, <1>3, <1>4, PushedPath
<1>7. TriedInv(frames')
  BY <1>1, <1>2, <1>5, PushedTried
<1>8. frames' # <<>>
  <2>1. Len(frames') = Len(frames) + 1 /\ Len(frames) \in Nat
    BY <1>1, <1>2, <1>5, PushedIs DEF PathInv
  <2> QED
    BY <2>1
<1> QED
  BY <1>6, <1>7, <1>8

LEMMA ArriveKeeps ==
    ASSUME BuildInv, SearchInv, pc = "search", NEW f \in Left, Arrive(f),
           paths' = Append(paths, Append(CurPath, f))
    PROVE  /\ frames' # <<>> /\ PathInv(frames')
           /\ \E p \in Seq(prog.body) : paths' = <<p>> /\ p # <<>> /\ SimplePath(p)
<1>1. frames # <<>> /\ PathInv(frames) /\ ~found
  BY DEF SearchInv, Arrive, TurnedAway
<1>2. paths = <<>>
  BY <1>1 DEF SearchInv
<1>3. frames' = Without(frames, f) /\ f = sink /\ sink \in frames[Len(frames)].left
  BY DEF Arrive, Took, Without, Left
<1>4. PathInv(frames')
  BY <1>1, <1>3, WithoutPath
<1>5. frames' # <<>>
  <2>1. Len(frames') = Len(frames) /\ frames \in Seq(Frame) /\ frames' \in Seq(Frame)
    BY <1>1, <1>3, WithoutIs DEF PathInv
  <2> QED
    BY <1>1, <2>1, EmptySeq
<1> DEFINE p == Append(PathOf(frames), sink)
<1>6. p \in Seq(prog.body) /\ p # <<>> /\ SimplePath(p)
  BY <1>1, <1>3, ArrivedPath
<1>7. paths' = Append(<<>>, p)
  BY <1>2, <1>3 DEF CurPath, PathOf
<1> HIDE DEF p
<1>8. paths' = <<p>>
  BY <1>7
<1> QED
  BY <1>4, <1>5, <1>6, <1>8

\* On the way back the caller's frame learns that its callee is sealed off; the
\* return of the first call seals off the source.
LEMMA ReturnKeeps ==
    ASSUME BuildInv, SearchInv, Return
    PROVE  /\ pc' = "search" => /\ frames' # <<>> /\ PathInv(frames')
                                /\ ~found => TriedInv(frames')
           /\ pc' = "done" => found \/ Sealed(source, {})
<1>1. frames # <<>> /\ PathInv(frames) /\ (~found => TriedInv(frames))
  BY DEF SearchInv, Return
<1>2. frames[Len(frames)].left = {} /\ frames' = Front(frames)
  BY DEF Return, Left
<1> DEFINE n == Len(frames)
<1>5. n \in Nat \ {0}
  BY <1>1, EmptySeq DEF PathInv
<1>3. CASE Len(frames) = 1
  <2>1. pc' = "done"
    BY <1>3 DEF Return
  <2>2. ASSUME ~found PROVE Sealed(source, {})
    <3>1. source \in Offered(frames, 1) \ frames[1].left
      BY <1>2, <1>3 DEF Offered
    <3>2. On(frames, 1) = {}
      BY DEF On
    <3>3. 1 \in 1 .. Len(frames) /\ ~(1 < Len(frames))
      BY <1>3
    <3>4. TriedInv(frames)
      BY <1>1, <2>2
    <3> QED
      BY <3>1, <3>2, <3>3, <3>4 DEF TriedInv
  <2> QED
    BY <2>1, <2>2
<1>4. CASE Len(frames) # 1
  <2> HIDE DEF n
  <2>5. n # 1
    BY <1>4 DEF n
  <2>6. n >= 2
    BY <1>5, <2>5
  <2>1. Len(frames) >= 2
    BY <2>6 DEF n
  <2>2. pc' = "search"
    BY <1>4 DEF Return
  <2>3. frames' # <<>> /\ PathInv(frames')
    BY <1>1, <1>2, <2>1, FrontPath
  <2>4. ~found => TriedInv(frames')
    BY <1>1, <1>2, <2>1, FrontTried
  <2> QED
    BY <2>2, <2>3, <2>4
<1> QED
  BY <1>3, <1>4

LEMMA SearchInvNext ==
    ASSUME BuildInv, SearchInv, [Next]_vars PROVE SearchInv'
<1>1. CASE BuildNodes \/ ConnectCall
  <2>1. ~Built /\ UNCHANGED <<found, paths>> /\ pc' = "calls"
    BY <1>1 DEF BuildNodes, ConnectCall, Built
  <2>2. ~found /\ paths = <<>>
    BY <2>1 DEF SearchInv
  <2> QED
    BY <2>1, <2>2 DEF SearchInv
<1>2. CASE ComputePaths
  <2>1. /\ UNCHANGED <<prog, edges, source, sink, found, paths>> /\ ~found /\ paths = <<>>
        /\ pc' = "search" /\ frames' = <<[func |-> Constant, left |-> {source}]>>
    BY <1>2 DEF ComputePaths, SearchInv, Built
  <2>2. frames' # <<>> /\ PathInv(frames') /\ TriedInv(frames')
    BY <2>1, FirstFrame
  <2>3. PathInv(frames)' /\ TriedInv(frames)'
    BY <2>1, <2>2, Frozen
  <2> QED
    BY <2>1, <2>2, <2>3 DEF SearchInv
<1>3. CASE Visit
  <2>1. UNCHANGED <<prog, pc, edges, source, sink>> /\ pc = "search"
    BY <1>3 DEF Visit
  <2>2. PICK f \in Left :
          \/ (Skip(f) \/ Descend(f)) /\ UNCHANGED <<found, paths>>
          \/ Arrive(f) /\ found' = TRUE /\ paths' = Append(paths, Append(CurPath, f))
    BY <1>3 DEF Visit
  <2>3. CASE (Skip(f) \/ Descend(f)) /\ UNCHANGED <<found, paths>>
    <3>1. frames' # <<>> /\ PathInv(frames') /\ (~found => TriedInv(frames'))
      BY <2>1, <2>3, SkipKeeps, DescendKeeps
    <3>2. PathInv(frames)' /\ (~found => TriedInv(frames)') /\ \A p : SimplePath(p)' = SimplePath(p)
      BY <2>1, <3>1, Frozen
    <3> QED
      BY <2>1, <2>3, <3>1, <3>2 DEF SearchInv, Built
  <2>4. CASE Arrive(f) /\ found' = TRUE /\ paths' = Append(paths, Append(CurPath, f))
    <3>1. /\ frames' # <<>> /\ PathInv(frames')
          /\ \E p \in Seq(prog.body) : paths' = <<p>> /\ p # <<>> /\ SimplePath(p)
      BY <2>1, <2>4, ArriveKeeps
    <3>2. PathInv(frames)' /\ \A p : SimplePath(p)' = SimplePath(p)
      BY <2>1, <3>1, Frozen
    <3>3. \E p \in Seq(prog.body)' : paths' = <<p>> /\ p # <<>> /\ SimplePath(p)'
      BY <2>1, <3>1, <3>2
    <3>4. paths' # <<>>
      BY <3>1
    <3> QED
      BY <2>1, <2>4, <3>1, <3>2, <3>3, <3>4 DEF SearchInv, Built
  <2> QED
    BY <2>2, <2>3, <2>4
<1>4. CASE Return
  <2>1. UNCHANGED <<prog, edges, source, sink, found, paths>> /\ pc = "search" /\ pc' \in {"search", "done"}
    BY <1>4 DEF Return
  <2>2. /\ pc' = "search" => /\ frames' # <<>> /\ PathInv(frames')
                             /\ ~found => TriedInv(frames')
        /\ pc' = "done" => found \/ Sealed(source, {})
    BY <1>4, ReturnKeeps
  <2>3. /\ pc' = "search" => PathInv(frames)' /\ (~found => TriedInv(frames)')
        /\ Sealed(source, {}) => Sealed(source, {})'
        /\ \A p : SimplePath(p)' = SimplePath(p)
    BY <2>1, <2>2, Frozen
  <2> QED
    BY <2>1, <2>2, <2>3 DEF SearchInv, Built
<1>5. CASE UNCHANGED vars
  <2>1. UNCHANGED <<prog, pc, edges, source, sink, frames, found, paths>>
    BY <1>5 DEF vars
  <2>2. /\ PathInv(frames) => PathInv(frames)'
        /\ TriedInv(frames) => TriedInv(frames)'
        /\ Sealed(source, {}) => Sealed(source, {})'
        /\ \A p : SimplePath(p)' = SimplePath(p)
    BY <2>1, Frozen
  <2> QED
    BY <2>1, <2>2 DEF SearchInv, Built
<1> QED
  BY <1>1, <1>2, <1>3, <1>4, <1>5 DEF Next


-----------------------------------------------------------------------------
(* What the search answers. *)

\* A set of functions closed under the edges keeps a path that starts in it.
LEMMA PathStays ==
    ASSUME NEW p \in Seq(prog.body), p # <<>>, SimplePath(p),
           NEW S, source \in S, Closed(S)
    PROVE  sink \in S
<1> DEFINE n == Len(p)
           outside == {i \in 1 .. n : p[i] \notin S}
           Less == OpToRel(<, Nat)
<1>1. n \in Nat \ {0}
  BY EmptySeq
<1>2. p[1] = source /\ p[n] = sink /\ \A i \in 1 .. n - 1 : Joined(p[i], p[i + 1])
  BY DEF SimplePath
<1>3. IsWellFoundedOn(Less, Nat)
  BY NatLessThanWellFounded
<1>4. \A i, m \in Nat : i < m => <<i, m>> \in Less
  BY DEF OpToRel
<1> HIDE DEF Less, n
<1>5. outside \subseteq Nat
  BY <1>1
<1>6. ASSUME outside # {} PROVE FALSE
  <2>1. PICK j \in outside : \A i \in outside : <<i, j>> \notin Less
    BY <1>3, <1>5, <1>6, WFMin
  <2>2. j \in 1 .. n /\ p[j] \notin S
    OBVIOUS
  <2>3. j # 1
    BY <1>2, <2>2
  <2>4. j - 1 \in 1 .. n - 1 /\ j - 1 \in 1 .. n /\ j - 1 \in Nat /\ j \in Nat /\ j - 1 < j
        /\ (j - 1) + 1 = j
    BY <1>1, <2>2, <2>3
  <2>5. j - 1 \notin outside
    BY <1>4, <2>1, <2>4
  <2>6. p[j - 1] \in S
    BY <2>4, <2>5
  <2>7. Joined(p[j - 1], p[j])
    BY <1>2, <2>4
  <2> QED
    BY <2>2, <2>6, <2>7 DEF Joined, Closed
<1>7. n \in 1 .. n
  BY <1>1
<1> QED
  BY <1>2, <1>6, <1>7

\* A path proves that the sink is reached, a source sealed off that it is not.
LEMMA AnswerRight ==
    ASSUME BuildInv, SearchInv PROVE PathRight
<1>1. \A i \in DOMAIN paths : SimplePath(paths[i])
  <2>1. CASE paths = <<>>
    BY <2>1
  <2>2. CASE paths # <<>>
    <3>1. PICK p \in Seq(prog.body) : paths = <<p>> /\ p # <<>> /\ SimplePath(p)
      BY <2>2 DEF SearchInv
    <3> QED
      BY <3>1
  <2> QED
    BY <2>1, <2>2
<1>2. ASSUME pc = "done", paths # <<>> PROVE Len(paths) = 1 /\ Reachable
  <2>1. PICK p \in Seq(prog.body) : paths = <<p>> /\ p # <<>> /\ SimplePath(p)
    BY <1>2 DEF SearchInv
  <2>2. Reachable
    BY <2>1, PathStays DEF Reachable
  <2> QED
    BY <2>1, <2>2
<1>3. ASSUME pc = "done", paths = <<>> PROVE Len(paths) = 0 /\ ~Reachable
  <2>1. Sealed(source, {}) /\ nodes = prog.body
    BY <1>3 DEF SearchInv, BuildInv
  <2>2. PICK C \in SUBSET prog.body : source \in C /\ Sealing(C, {})
    BY <2>1 DEF Sealed
  <2>3. Closed(C) /\ sink \notin C
    BY <2>2 DEF Sealing, Closed
  <2> QED
    BY <1>3, <2>1, <2>2, <2>3 DEF Reachable
<1> QED
  BY <1>1, <1>2, <1>3 DEF PathRight

-----------------------------------------------------------------------------
LEMMA BuildAlways == Spec => []BuildInv
BY BuildInvInit, BuildInvNext, PTL DEF Spec

LEMMA SearchAlways == Spec => []SearchInv
<1>1. BuildInv /\ SearchInv /\ [Next]_vars => (BuildInv /\ SearchInv)'
  BY BuildInvNext, SearchInvNext
<1>2. Init => BuildInv /\ SearchInv
  BY BuildInvInit, SearchInvInit
<1>3. Spec => [](BuildInv /\ SearchInv)
  BY <1>1, <1>2, PTL DEF Spec
<1> QED
  BY <1>3, PTL

\* CallsCovered: PDGCallGraph::build joins each call with an operand that is a
\* function of the module to that, and each call through a pointer to every
\* function whose type is that of the call in the source program, but for
\* variadic functions and for types with a structure that linking duplicated
\* behind further pointers.
THEOREM GraphCoversCalls == Spec => []CallsCovered
BY BuildAlways, AllCallsCovered, PTL

\* isFuncSignatureMatch guesses no callee whose type differs from the call's by
\* more than the tag of a structure's name.
THEOREM GuessesJustified == Spec => []EdgesJustified
BY BuildAlways, AllEdgesJustified, PTL

\* CalleesAgree: ProgramDependencyGraph's own copies of isTypeEqual and
\* isFuncSignatureMatch connect a call to the functions the call graph joins it
\* to, no more and, of those that are used, no less.
THEOREM CopiesAgree == Spec => []CalleesAgree
BY BuildAlways, AllPdgCalls, PTL

\* computePaths finds one path without repetition when the sink can be reached
\* and none when it cannot, in every call graph and whatever the order in which
\* the neighbours of a function come.
THEOREM SearchFindsPath == Spec => []PathRight
BY BuildAlways, SearchAlways, AnswerRight, PTL
=============================================================================
