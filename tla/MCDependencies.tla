--------------------------- MODULE MCDependencies ---------------------------
(* Three releases: two dependencies of one, a cycle beside a bystander, and  *)
(* chains with an expression that holds, never holds or does not compile.    *)
EXTENDS Dependencies

Chain == [a |-> <<>>, b |-> <<"a">>, c |-> <<"b">>]
Both == [a |-> <<>>, b |-> <<>>, c |-> <<"a", "b">>]
Cycle == [a |-> <<"b">>, b |-> <<"a">>, c |-> <<>>]

Setup(d, b, c) == [dependsOn |-> d, expr |-> [a |-> "none", b |-> b, c |-> c]]
MCSetups ==
  {Setup(Both, "none", "none"), Setup(Cycle, "none", "none"),
   Setup(Chain, "ready", "failing"), Setup(Chain, "invalid", "none")}

\* Dependents first.
MCBacklog == <<"c", "b", "a">>
=============================================================================
