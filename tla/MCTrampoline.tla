---------------------------- MODULE MCTrampoline ----------------------------
(* Trampoline on small hierarchies.                                         *)
EXTENDS Trampoline, TLC

Pair == [A |-> <<"A">>, B |-> <<"B", "A">>]
Chain == [A |-> <<"A">>, B |-> <<"B", "A">>, C |-> <<"C", "B", "A">>]
Fork == [A |-> <<"A">>, B |-> <<"B", "A">>, C |-> <<"C", "A">>]

OnlyB == [o \in Object |-> "B"]
OnlyC == [o \in Object |-> "C"]
Threads == Permutations(Thread)
=============================================================================
