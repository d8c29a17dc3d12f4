----------------------------- MODULE MCCallGraph -----------------------------
(***************************************************************************)
(* Two families of modules.  In the first, one function calls another      *)
(* with each of a few signatures through a function, a pointer or a        *)
(* constant; its types include a structure that linking duplicated and two *)
(* anonymous structures.  In the second, functions of one type call each   *)
(* other directly in every way three functions can, and in every way four  *)
(* can with three or four calls; by symmetry paths are asked for from the  *)
(* first.                                                                  *)
(***************************************************************************)
EXTENDS CallGraph

MCStructPtr == {"foo*", "foo.1*", "anon*", "anon.0*", "bar*", "literal*"}
MCType == MCStructPtr \cup {"int", "foo**", "foo.1**"}

MCName == [t \in MCStructPtr |->
              CASE t = "foo*"    -> <<"struct", "foo">>
                [] t = "foo.1*"  -> <<"struct", "foo", "1">>
                [] t = "anon*"   -> <<"struct", "anon">>
                [] t = "anon.0*" -> <<"struct", "anon", "0">>
                [] t = "bar*"    -> <<"struct", "bar">>
                [] t = "literal*" -> <<>>]

MCSource == [t \in MCType |-> CASE t = "foo.1*"  -> "foo*"
                                [] t = "foo.1**" -> "foo**"
                                [] OTHER -> t]

Sig(r, a) == [ret |-> r, args |-> a]

Plain == Sig("int", <<>>)

Sigs == {Sig("int", <<t>>) : t \in MCType}
        \cup {Plain, Sig("foo*", <<"int">>), Sig("foo.1*", <<"int">>),
              Sig("int", <<"foo*", "int">>), Sig("int", <<"foo.1*", "int">>),
              Sig("int", <<"foo*", "anon*">>)}

Typed(called, s, r, body, varArg, used, again) ==
    [body |-> body, sig |-> [f \in 1 .. 4 |-> IF f = 2 THEN r ELSE Plain],
     varArg |-> varArg, used |-> used, queries |-> {1} \X body,
     calls |-> <<[caller |-> 1, called |-> called, sig |-> s]>>
               \o IF again THEN <<[caller |-> 1, called |-> 2, sig |-> r]>> ELSE <<>>]

TypedPrograms ==
    {Typed(Pointer, s, r, {1, 2}, {}, {1, 2}, FALSE) : s \in Sigs, r \in Sigs}
    \cup {Typed(o, s, s, b, v, u, a) :
             o \in {2, Pointer, Constant}, s \in {Plain, Sig("int", <<"foo*">>)},
             b \in {{1}, {1, 2}}, v \in {{}, {2}}, u \in {{}, {2}}, a \in BOOLEAN}

Listed == [n \in 1 .. 16 |-> <<((n - 1) \div 4) + 1, ((n - 1) % 4) + 1>>]

Direct(E) ==
    [body |-> 1 .. 4, sig |-> [f \in 1 .. 4 |-> Plain], varArg |-> {}, used |-> {},
     queries |-> {1} \X (1 .. 4),
     calls |-> LET s == SelectSeq(Listed, LAMBDA e : e \in E)
               IN  [i \in DOMAIN s |-> [caller |-> s[i][1], called |-> s[i][2], sig |-> Plain]]]

DirectPrograms ==
    {Direct(E) : E \in SUBSET ((1 .. 3) \X (1 .. 3))}
    \cup {Direct(E) : E \in {D \in SUBSET {e \in (1 .. 4) \X (1 .. 4) : e[1] # e[2]} :
                               Cardinality(D) \in 3 .. 4 /\ \E d \in D : 4 \in {d[1], d[2]}}}

MCPrograms == TypedPrograms \cup DirectPrograms
=============================================================================
