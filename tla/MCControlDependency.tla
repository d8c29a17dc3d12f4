------------------------ MODULE MCControlDependency ------------------------
(***************************************************************************)
(* Every function of up to four blocks reached from the first one, each    *)
(* with at most two successors: nested and overlapping loops, a loop with  *)
(* two exits, a loop without one, several exits of the function, a switch. *)
(***************************************************************************)
EXTENDS ControlDependency

CONSTANT N  \* the number of blocks

MCBlocks == 1 .. N

\* The successors of a block that no edge leads back to the first one from.
Ways == {<<>>} \cup {<<b>> : b \in 2 .. N} \cup {w \in (2 .. N) \X (2 .. N) : w[1] <= w[2]}

Term(w) == CASE Len(w) = 0 -> "exit" [] Len(w) = 1 -> "jump" [] OTHER -> "br"

RECURSIVE From(_, _)
From(succ, S) ==
    LET T == S \cup UNION {ToSet(succ[b]) : b \in S}
    IN IF T = S THEN S ELSE From(succ, T)

\* One block of each loop that has no exit, the one that LLVM picks aside.
Ends(succ) ==
    LET exits == {b \in MCBlocks : succ[b] = <<>>}
        stuck == {b \in MCBlocks : From(succ, {b}) \cap exits = {}}
        loops == {From(succ, {b}) : b \in stuck}
        last  == {l \in loops : \A m \in loops : m \subseteq l => m = l}
    IN exits \cup {CHOOSE b \in l : TRUE : l \in last}

\* Blocks with two successors end in a branch, those of `switches' in a switch.
Cfg(succ, switches) ==
    [blocks |-> [i \in 1 .. N |-> i],
     term   |-> [b \in MCBlocks |-> IF b \in switches THEN "switch" ELSE Term(succ[b])],
     succ   |-> succ,
     ends   |-> Ends(succ)]

Shapes == {t \in [MCBlocks -> Ways] : From(t, {1}) = MCBlocks}

MCCfgs == {Cfg(s, {}) : s \in Shapes}
          \cup {Cfg(s, {2}) : s \in {t \in Shapes : Len(t[2]) = 2}}
=============================================================================
