---------------------------- MODULE MCInstanceMap ----------------------------
(* InstanceMap with a class "outer" whose first field has the class "inner".  *)
EXTENDS InstanceMap, TLC

Types == {"outer", "inner"}
OuterInner == [outer |-> "inner", inner |-> None]
Symmetry == Permutations(Thread) \cup Permutations(Obj)
=============================================================================
