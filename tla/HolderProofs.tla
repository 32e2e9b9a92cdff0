---------------------------- MODULE HolderProofs ----------------------------
(* Proofs about what holds references: a callable has one for every std::function *)
(* that can call it, a C++ object in an instance or a cell has one destroyer, the *)
(* memory of an array lives while a handle, a capsule or a view can reach it, and *)
(* accessors, calls into Python and conversions of containers give back what they *)
(* take, for every number.                                                         *)
EXTENDS Integers, Sequences, FiniteSets, FiniteSetTheorems, SequenceTheorems, TLAPS

CONSTANTS Fn, Holder, MaxUser, Free, Null       \* those of FunctionHolders
CONSTANTS Inst, Cell, Alias, Detach, None       \* those of InstanceContents
CONSTANTS Handle, Tensor, Obj, MaxCopies        \* those of NdarrayHandle, with None
VARIABLES f, user, refs, alive
VARIABLES inst, live, cpp
VARIABLES handle, tensor, obj, counts, held, import, aborted

F == INSTANCE FunctionHolders
C == INSTANCE InstanceContents
N == INSTANCE NdarrayHandle WITH refs <- counts

CONSTANTS Acc, Rereads, Reused, MaxVal, MaxHeld \* those of Accessors, with None
VARIABLES stored, want, cache, life, taken, totals

Q == INSTANCE Accessors WITH user <- taken, refs <- totals

CONSTANTS Passed, Kwd, Odd, MaxEntries          \* those of PythonCall
VARIABLES operands, tally, ongoing

P == INSTANCE PythonCall WITH Value <- Passed, Name <- Kwd, NotName <- Odd,
         MaxArgs <- MaxEntries, user <- operands, refs <- tally, call <- ongoing

-----------------------------------------------------------------------------
(* std::function holders.                                                        *)

FnLegal == /\ IsFiniteSet(Holder)
           /\ Free \notin Fn /\ Null \notin Fn /\ Free # Null

Holding(g, v) == {h \in Holder : g[h] = v}
FnInv == /\ f \in [Holder -> Fn \cup {Free, Null}] /\ user \in [Fn -> Nat]
         /\ refs \in [Fn -> Int] /\ alive \in BOOLEAN
         /\ alive => \A v \in Fn : refs[v] = user[v] + Cardinality(Holding(f, v))

LEMMA HoldingFinite ==
    ASSUME FnLegal, NEW g, NEW v
    PROVE  IsFiniteSet(Holding(g, v)) /\ Cardinality(Holding(g, v)) \in Nat
<1>1. Holding(g, v) \subseteq Holder  BY DEF Holding
<1> QED  BY <1>1, FS_Subset, FS_CardinalityType DEF FnLegal

\* A place that changes is one more for what it holds now, and one less for before.
LEMMA HoldingMore ==
    ASSUME FnLegal, NEW g, NEW g2, NEW h \in Holder, \A k \in Holder : k # h => g2[k] = g[k],
           NEW v, g[h] # v, g2[h] = v
    PROVE  Cardinality(Holding(g2, v)) = Cardinality(Holding(g, v)) + 1
<1>1. Holding(g2, v) = Holding(g, v) \cup {h} /\ h \notin Holding(g, v)  BY DEF Holding
<1> QED  BY <1>1, HoldingFinite, FS_AddElement
\* A wrapper that moves leaves no callable behind.
LEMMA MoveHolding ==
    ASSUME FnLegal, f \in [Holder -> Fn \cup {Free, Null}], NEW h \in Holder, NEW k \in Holder,
           f[h] # Free, f[k] = Free, f' = [f EXCEPT ![k] = f[h], ![h] = Null], NEW x \in Fn
    PROVE  Cardinality(Holding(f', x)) = Cardinality(Holding(f, x))
<1>1. h # k /\ f'[h] = Null /\ f'[k] = f[h]
      /\ \A y \in Holder : y # h /\ y # k => f'[y] = f[y]
  OBVIOUS
<1>2. x # Null /\ x # Free  BY DEF FnLegal
<1>3. CASE f[h] # x
  <2>1. Holding(f', x) = Holding(f, x)  BY <1>1, <1>2, <1>3 DEF Holding
  <2> QED  BY <2>1
<1>4. CASE f[h] = x
  <2>1. /\ Holding(f', x) = (Holding(f, x) \ {h}) \cup {k}
        /\ h \in Holding(f, x) /\ k \notin Holding(f, x)
    BY <1>1, <1>2, <1>4 DEF Holding
  <2>2. IsFiniteSet(Holding(f, x)) /\ Cardinality(Holding(f, x)) \in Nat  BY HoldingFinite
  <2>3. /\ IsFiniteSet(Holding(f, x) \ {h})
        /\ Cardinality(Holding(f, x) \ {h}) = Cardinality(Holding(f, x)) - 1
    BY <2>1, <2>2, FS_RemoveElement
  <2>4. Cardinality((Holding(f, x) \ {h}) \cup {k}) = Cardinality(Holding(f, x) \ {h}) + 1
    BY <2>1, <2>3, FS_AddElement
  <2>5. Cardinality(Holding(f', x)) = Cardinality((Holding(f, x) \ {h}) \cup {k})  BY <2>1
  <2>6. Cardinality(Holding(f, x)) - 1 + 1 = Cardinality(Holding(f, x))  BY <2>2
  <2> QED  BY <2>3, <2>4, <2>5, <2>6
<1> QED  BY <1>3, <1>4

LEMMA FnInit == ASSUME FnLegal, F!Init PROVE FnInv
<1>1. /\ f = [h \in Holder |-> Free] /\ user = [v \in Fn |-> 1] /\ refs = [v \in Fn |-> 1]
      /\ alive = TRUE
  BY DEF F!Init
<1>2. ASSUME NEW v \in Fn PROVE Cardinality(Holding(f, v)) = 0
  <2>1. Holding(f, v) = {}  BY <1>1 DEF Holding, FnLegal
  <2> QED  BY <2>1, FS_EmptySet
<1> QED  BY <1>1, <1>2 DEF FnInv

LEMMA FnStep == ASSUME FnLegal, FnInv, [F!Next]_(F!fnVars) PROVE FnInv'
<1>0. /\ f \in [Holder -> Fn \cup {Free, Null}] /\ user \in [Fn -> Nat]
      /\ refs \in [Fn -> Int] /\ alive \in BOOLEAN
      /\ alive => \A v \in Fn : refs[v] = user[v] + Cardinality(Holding(f, v))
  BY DEF FnInv
<1>1. CASE UNCHANGED F!fnVars  BY <1>1, <1>0 DEF F!fnVars, FnInv, Holding
<1>2. ASSUME NEW h \in Holder, NEW v \in Fn, F!FromPython(h, v) PROVE FnInv'
  <2>1. /\ alive /\ f[h] = Free /\ f' = [f EXCEPT ![h] = v]
        /\ refs' = [refs EXCEPT ![v] = @ + 1] /\ user' = user /\ alive' = alive
    BY <1>2 DEF F!FromPython
  <2>2. f'[h] = v /\ \A k \in Holder : k # h => f'[k] = f[k]  BY <2>1, <1>0
  <2>3. \A x \in Fn : refs'[x] = IF x = v THEN refs[x] + 1 ELSE refs[x]  BY <2>1, <1>0
  <2>4. ASSUME NEW x \in Fn PROVE refs'[x] = user'[x] + Cardinality(Holding(f', x))
    <3>0. Cardinality(Holding(f, x)) \in Nat /\ user[x] \in Nat
          /\ refs[x] = user[x] + Cardinality(Holding(f, x))
      BY <1>0, <2>1, HoldingFinite
    <3>1. CASE x = v
      <4>1. f[h] # v  BY <2>1 DEF FnLegal
      <4>2. Cardinality(Holding(f', x)) = Cardinality(Holding(f, x)) + 1
        BY <3>1, <4>1, <2>2, HoldingMore
      <4> QED  BY <3>0, <3>1, <4>2, <2>1, <2>3
    <3>2. CASE x # v
      <4>1. Holding(f', x) = Holding(f, x)  BY <3>2, <2>1, <2>2 DEF FnLegal, Holding
      <4> QED  BY <3>0, <3>2, <4>1, <2>1, <2>3
    <3> QED  BY <3>1, <3>2
  <2>5. f' \in [Holder -> Fn \cup {Free, Null}] /\ refs' \in [Fn -> Int]  BY <2>1, <1>0
  <2> QED  BY <2>1, <2>4, <2>5, <1>0 DEF FnInv
<1>3. ASSUME NEW h \in Holder, NEW k \in Holder, F!Copy(h, k) PROVE FnInv'
  <2>1. /\ f[h] # Free /\ f[k] = Free /\ f' = [f EXCEPT ![k] = F!Copied(f[h]).f]
        /\ refs' = F!Copied(f[h]).refs /\ user' = user /\ alive' = alive
    BY <1>3 DEF F!Copy
  <2>2. CASE f[h] # Null /\ alive
    <3> DEFINE v == f[h]
    <3>1. v \in Fn  BY <2>1, <2>2, <1>0
    <3>2. f' = [f EXCEPT ![k] = v] /\ refs' = [refs EXCEPT ![v] = @ + 1]
      BY <2>1, <2>2 DEF F!Copied
    <3>3. f'[k] = v /\ \A x \in Holder : x # k => f'[x] = f[x]  BY <3>2, <1>0
    <3> HIDE DEF v
    <3>4. \A x \in Fn : refs'[x] = IF x = v THEN refs[x] + 1 ELSE refs[x]  BY <3>2, <1>0
    <3>5. ASSUME NEW x \in Fn PROVE refs'[x] = user'[x] + Cardinality(Holding(f', x))
      <4>0. Cardinality(Holding(f, x)) \in Nat /\ user[x] \in Nat
            /\ refs[x] = user[x] + Cardinality(Holding(f, x))
        BY <1>0, <2>2, HoldingFinite
      <4>1. CASE x = v
        <5>1. f[k] # v  BY <2>1, <3>1 DEF FnLegal
        <5>2. Cardinality(Holding(f', x)) = Cardinality(Holding(f, x)) + 1
          BY <4>1, <5>1, <3>3, HoldingMore
        <5> QED  BY <4>0, <4>1, <5>2, <2>1, <3>4
      <4>2. CASE x # v
        <5>1. Holding(f', x) = Holding(f, x)  BY <4>2, <2>1, <3>3 DEF FnLegal, Holding
        <5> QED  BY <4>0, <4>2, <5>1, <2>1, <3>4
      <4> QED  BY <4>1, <4>2
    <3>6. f' \in [Holder -> Fn \cup {Free, Null}] /\ refs' \in [Fn -> Int]  BY <3>1, <3>2, <1>0
    <3> QED  BY <2>1, <3>5, <3>6, <1>0 DEF FnInv
  <2>3. CASE ~(f[h] # Null /\ alive)
    <3>1. f' = [f EXCEPT ![k] = Null] /\ refs' = refs  BY <2>1, <2>3 DEF F!Copied
    <3>2. f'[k] = Null /\ \A x \in Holder : x # k => f'[x] = f[x]  BY <3>1, <1>0
    <3>3. \A x \in Fn : Holding(f', x) = Holding(f, x)
      BY <2>1, <3>2 DEF FnLegal, Holding
    <3>4. f' \in [Holder -> Fn \cup {Free, Null}]  BY <3>1, <1>0
    <3> QED  BY <2>1, <3>1, <3>3, <3>4, <1>0 DEF FnInv
  <2> QED  BY <2>2, <2>3
<1>4. ASSUME NEW h \in Holder, NEW k \in Holder, F!Move(h, k) PROVE FnInv'
  <2>1. /\ f[h] # Free /\ f[k] = Free /\ f' = [f EXCEPT ![k] = f[h], ![h] = Null]
        /\ user' = user /\ refs' = refs /\ alive' = alive
    BY <1>4 DEF F!Move
  <2>2. f' \in [Holder -> Fn \cup {Free, Null}]  BY <2>1, <1>0
  <2>3. \A x \in Fn : Cardinality(Holding(f', x)) = Cardinality(Holding(f, x))
    BY <2>1, <1>0, MoveHolding
  <2> QED  BY <2>1, <2>2, <2>3, <1>0 DEF FnInv
<1>5. ASSUME NEW h \in Holder, F!Destroy(h) PROVE FnInv'
  <2>1. /\ f[h] # Free /\ f' = [f EXCEPT ![h] = Free] /\ user' = user /\ alive' = alive
        /\ f[h] # Null /\ alive => refs' = [refs EXCEPT ![f[h]] = @ - 1]
        /\ ~(f[h] # Null /\ alive) => refs' = refs
    BY <1>5 DEF F!Destroy, F!Guarded
  <2>2. f' \in [Holder -> Fn \cup {Free, Null}] /\ f'[h] = Free
        /\ \A x \in Holder : x # h => f'[x] = f[x]
    BY <2>1, <1>0
  <2>3. CASE f[h] # Null /\ alive
    <3> DEFINE v == f[h]
    <3>1. v \in Fn  BY <2>1, <2>3, <1>0
    <3>2. refs' = [refs EXCEPT ![v] = @ - 1]  BY <2>1, <2>3
    <3>3. f[h] = v  OBVIOUS
    <3> HIDE DEF v
    <3>4. \A x \in Fn : refs'[x] = IF x = v THEN refs[x] - 1 ELSE refs[x]  BY <3>2, <1>0
    <3>5. ASSUME NEW x \in Fn PROVE refs'[x] = user'[x] + Cardinality(Holding(f', x))
      <4>0. /\ Cardinality(Holding(f, x)) \in Nat /\ user[x] \in Nat
            /\ Cardinality(Holding(f', x)) \in Nat
            /\ refs[x] = user[x] + Cardinality(Holding(f, x))
        BY <1>0, <2>3, HoldingFinite
      <4>1. CASE x = v
        <5>1. f'[h] # v  BY <2>2, <3>1 DEF FnLegal
        <5>2. \A k \in Holder : k # h => f[k] = f'[k]  BY <2>2
        <5>3. Cardinality(Holding(f, x)) = Cardinality(Holding(f', x)) + 1
          BY <4>1, <5>1, <5>2, <3>3, HoldingMore
        <5> QED  BY <4>0, <4>1, <5>3, <2>1, <3>4
      <4>2. CASE x # v
        <5>1. Holding(f', x) = Holding(f, x)  BY <4>2, <2>2, <3>3 DEF FnLegal, Holding
        <5>2. refs'[x] = refs[x] /\ user'[x] = user[x]  BY <4>2, <3>4, <2>1
        <5> QED  BY <4>0, <5>1, <5>2
      <4> QED  BY <4>1, <4>2
    <3>6. refs' \in [Fn -> Int]
      <4>1. refs[v] - 1 \in Int  BY <3>1, <1>0
      <4> QED  BY <3>2, <4>1, <1>0
    <3> QED  BY <2>1, <2>2, <3>5, <3>6, <1>0 DEF FnInv
  <2>4. CASE alive /\ f[h] = Null
    <3>1. \A x \in Fn : Holding(f', x) = Holding(f, x)
      BY <2>2, <2>4 DEF FnLegal, Holding
    <3> QED  BY <2>1, <2>2, <2>4, <3>1, <1>0 DEF FnInv
  <2>5. CASE ~alive  BY <2>1, <2>2, <2>5, <1>0 DEF FnInv
  <2> QED  BY <2>3, <2>4, <2>5
<1>6. ASSUME NEW v \in Fn, NEW d \in {1, -1},
             user' = [user EXCEPT ![v] = @ + d], refs' = [refs EXCEPT ![v] = @ + d],
             user[v] + d >= 0, f' = f, alive' = alive
      PROVE  FnInv'
  <2>1. user' \in [Fn -> Nat] /\ refs' \in [Fn -> Int]  BY <1>6, <1>0
  <2>2. ASSUME alive, NEW x \in Fn PROVE refs'[x] = user'[x] + Cardinality(Holding(f, x))
    <3>1. /\ Cardinality(Holding(f, x)) \in Nat /\ user[x] \in Nat
          /\ refs[x] = user[x] + Cardinality(Holding(f, x))
      BY <1>0, <2>2, HoldingFinite
    <3>2. CASE x = v
      <4>1. user'[x] = user[x] + d /\ refs'[x] = refs[x] + d  BY <3>2, <1>6, <1>0
      <4> QED  BY <3>1, <4>1
    <3>3. CASE x # v
      <4>1. user'[x] = user[x] /\ refs'[x] = refs[x]  BY <3>3, <1>6, <1>0
      <4> QED  BY <3>1, <4>1
    <3> QED  BY <3>2, <3>3
  <2> QED  BY <2>1, <2>2, <1>0, <1>6 DEF FnInv
<1>7. ASSUME NEW h \in Holder, F!FromCpp(h) PROVE FnInv'
  <2>1. f[h] \in Fn /\ user[f[h]] \in Nat /\ user[f[h]] + 1 >= 0  BY <1>7, <1>0 DEF F!FromCpp
  <2>2. /\ user' = [user EXCEPT ![f[h]] = @ + 1] /\ refs' = [refs EXCEPT ![f[h]] = @ + 1]
        /\ f' = f /\ alive' = alive
    BY <1>7 DEF F!FromCpp
  <2> QED  BY <2>1, <2>2, <1>6
<1>8. ASSUME NEW v \in Fn, F!PyDrop(v) PROVE FnInv'
  <2>1. /\ user[v] > 0 /\ user' = [user EXCEPT ![v] = @ - 1]
        /\ refs' = [refs EXCEPT ![v] = @ - 1] /\ f' = f /\ alive' = alive
    BY <1>8 DEF F!PyDrop
  <2>2. user[v] \in Nat /\ refs[v] \in Int  BY <1>0
  <2>3. user[v] - 1 = user[v] + (-1) /\ refs[v] - 1 = refs[v] + (-1) /\ user[v] + (-1) >= 0
    BY <2>1, <2>2
  <2>4. user' = [user EXCEPT ![v] = @ + (-1)] /\ refs' = [refs EXCEPT ![v] = @ + (-1)]
    BY <2>1, <2>3
  <2> QED  BY <2>1, <2>3, <2>4, <1>6
<1>9. ASSUME F!Shutdown PROVE FnInv'  BY <1>9, <1>0 DEF F!Shutdown, FnInv
<1> QED  BY <1>1, <1>2, <1>3, <1>4, <1>5, <1>7, <1>8, <1>9 DEF F!Next

\* The operator that FunctionHolders takes from FiniteSets is the one of this module.
LEMMA FnCardinality == \A S : F!Cardinality(S) = Cardinality(S)
BY DEF Cardinality, F!Cardinality

LEMMA FnExact == ASSUME FnInv PROVE F!FunctionRefsExact
<1>1. ASSUME alive, NEW v \in Fn PROVE refs[v] = user[v] + Cardinality({h \in Holder : f[h] = v})
  <2>1. refs[v] = user[v] + Cardinality(Holding(f, v))  BY <1>1 DEF FnInv
  <2>2. Holding(f, v) = {h \in Holder : f[h] = v}  BY DEF Holding
  <2> QED  BY ONLY <2>1, <2>2, Zenon
<1>2. ASSUME alive, NEW v \in Fn
      PROVE  refs[v] = user[v] + F!Cardinality({h \in Holder : f[h] = v})
  <2>1. refs[v] = user[v] + Cardinality({h \in Holder : f[h] = v})  BY <1>1, <1>2
  <2>2. F!Cardinality({h \in Holder : f[h] = v}) = Cardinality({h \in Holder : f[h] = v})
    BY FnCardinality
  <2> QED  BY ONLY <2>1, <2>2, Zenon
<1> QED  BY ONLY <1>2, Zenon DEF F!FunctionRefsExact

LEMMA FnSilent == ASSUME FnLegal, FnInv, [F!Next]_(F!fnVars) PROVE F!SilentStep
<1> SUFFICES ASSUME ~alive
             PROVE  refs' = refs /\ \A v \in Fn : Cardinality(Holding(f', v)) <= Cardinality(Holding(f, v))
  <2>1. ASSUME ~alive, NEW v \in Fn, Cardinality(Holding(f', v)) <= Cardinality(Holding(f, v))
        PROVE  F!Cardinality({h \in Holder : f'[h] = v}) <= F!Cardinality({h \in Holder : f[h] = v})
    <3>1. /\ Holding(f, v) = {h \in Holder : f[h] = v}
          /\ Holding(f', v) = {h \in Holder : f'[h] = v}
      BY DEF Holding
    <3>2. F!Cardinality(Holding(f', v)) <= F!Cardinality(Holding(f, v))
      BY <2>1, FnCardinality
    <3> QED  BY ONLY <3>1, <3>2, Zenon
  <2> QED  BY <2>1 DEF F!SilentStep
<1>0. f \in [Holder -> Fn \cup {Free, Null}]  BY DEF FnInv
<1>1. CASE UNCHANGED F!fnVars
  <2>1. f' = f /\ refs' = refs  BY <1>1 DEF F!fnVars
  <2>2. \A v \in Fn : Cardinality(Holding(f, v)) \in Nat  BY HoldingFinite
  <2> QED  BY <2>1, <2>2
<1>2. ASSUME NEW h \in Holder, NEW k \in Holder, F!Copy(h, k)
      PROVE  refs' = refs /\ \A v \in Fn : Cardinality(Holding(f', v)) <= Cardinality(Holding(f, v))
  <2>1. f[k] = Free /\ f' = [f EXCEPT ![k] = Null] /\ refs' = refs
    BY <1>2 DEF F!Copy, F!Copied
  <2>2. f'[k] = Null /\ \A x \in Holder : x # k => f'[x] = f[x]  BY <2>1, <1>0
  <2>3. \A v \in Fn : Holding(f', v) = Holding(f, v)  BY <2>1, <2>2 DEF FnLegal, Holding
  <2>4. \A v \in Fn : Cardinality(Holding(f, v)) \in Nat  BY HoldingFinite
  <2>5. \A v \in Fn : Cardinality(Holding(f', v)) <= Cardinality(Holding(f, v))  BY <2>3, <2>4
  <2> QED  BY <2>1, <2>5
<1>3. ASSUME NEW h \in Holder, NEW k \in Holder, F!Move(h, k)
      PROVE  refs' = refs /\ \A v \in Fn : Cardinality(Holding(f', v)) <= Cardinality(Holding(f, v))
  <2>1. /\ f[h] # Free /\ f[k] = Free /\ f' = [f EXCEPT ![k] = f[h], ![h] = Null] /\ refs' = refs
    BY <1>3 DEF F!Move
  <2>2. \A v \in Fn : Cardinality(Holding(f', v)) = Cardinality(Holding(f, v))
    BY <2>1, <1>0, MoveHolding
  <2>3. \A v \in Fn : Cardinality(Holding(f, v)) \in Nat  BY HoldingFinite
  <2>4. \A v \in Fn : Cardinality(Holding(f', v)) <= Cardinality(Holding(f, v))  BY <2>2, <2>3
  <2> QED  BY <2>1, <2>4
<1>4. ASSUME NEW h \in Holder, F!Destroy(h)
      PROVE  refs' = refs /\ \A v \in Fn : Cardinality(Holding(f', v)) <= Cardinality(Holding(f, v))
  <2>1. f' = [f EXCEPT ![h] = Free] /\ refs' = refs  BY <1>4 DEF F!Destroy, F!Guarded
  <2>2. f'[h] = Free /\ \A x \in Holder : x # h => f'[x] = f[x]  BY <2>1, <1>0
  <2>3. \A v \in Fn : Holding(f', v) \subseteq Holding(f, v)  BY <2>2 DEF Holding, FnLegal
  <2> QED  BY <2>1, <2>3, HoldingFinite, FS_Subset
<1> QED
  BY <1>1, <1>2, <1>3, <1>4 DEF F!Next, F!FromPython, F!FromCpp, F!PyDrop, F!Shutdown

\* A callable has the references of Python code and one for every std::function that can
\* call it, while there is an interpreter (function.h:21-45).
THEOREM CallablesCounted == ASSUME FnLegal PROVE F!Spec => []F!FunctionRefsExact
<1>1. F!Init => FnInv  BY FnInit
<1>2. FnInv /\ [F!Next]_(F!fnVars) => FnInv'  BY FnStep
<1>3. FnInv => F!FunctionRefsExact  BY FnExact
<1> QED  BY <1>1, <1>2, <1>3, PTL DEF F!Spec

\* After the interpreter has gone no reference count changes, and no callable gets another
\* holder: copies are empty (stl/function.h:29-45).
THEOREM CallablesSilent == ASSUME FnLegal PROVE F!Spec => [][F!SilentStep]_(F!fnVars)
<1>1. F!Init => FnInv  BY FnInit
<1>2. FnInv /\ [F!Next]_(F!fnVars) => FnInv'  BY FnStep
<1>3. FnInv /\ [F!Next]_(F!fnVars) => [F!SilentStep]_(F!fnVars)  BY FnSilent
<1> QED  BY <1>1, <1>2, <1>3, PTL DEF F!Spec

-----------------------------------------------------------------------------
(* Contents of instances.                                                        *)

ConRec == [at : C!Storage, ready : BOOLEAN, destruct : BOOLEAN, cpp_delete : BOOLEAN,
           parent : Inst \cup {None}]
\* The program copies nothing onto a view of itself and detaches no views.
ConLegal == /\ Inst \cap Cell = {} /\ None \notin Inst /\ None \notin ConRec
            /\ ~Alias /\ ~Detach

\* An instance that answers for its contents, and one that looks at those of another.
Root(i) == C!Is(i) /\ inst[i].parent = None /\ inst[i].at \notin cpp
View(i) == C!Is(i) /\ inst[i].parent # None
Full(s) == \E i \in Inst : Root(i) /\ inst[i].at = s /\ inst[i].ready

ConTypes == /\ inst \in [Inst -> ConRec \cup {None}]
            /\ live \in [C!Storage -> Int] /\ cpp \subseteq Cell
ConRoots ==
    /\ \A i \in Inst : Root(i) => /\ inst[i].ready <=> inst[i].destruct
                                  /\ inst[i].at \in Inst => inst[i].at = i
    /\ \A i, j \in Inst : Root(i) /\ Root(j) /\ inst[i].at = inst[j].at => i = j
ConViews ==
    /\ \A i \in Inst : C!Is(i) /\ ~Root(i) => inst[i].ready /\ ~inst[i].destruct
    /\ \A i \in Inst : View(i) => /\ inst[i].parent \in Inst /\ C!Is(inst[i].parent)
                                  /\ inst[inst[i].parent].at = inst[i].at
                                  /\ inst[i].at \notin cpp => Full(inst[i].at)
\* No view is its own ancestor: among any views one looks at none of the others.
ConTree == \A S \in SUBSET Inst :
              S # {} /\ (\A i \in S : View(i)) => \E i \in S : inst[i].parent \notin S
ConLive == \A s \in C!Storage : live[s] = IF s \in cpp \/ Full(s) THEN 1 ELSE 0
ConInv == ConTypes /\ ConRoots /\ ConViews /\ ConTree /\ ConLive

LEMMA ConInit == ASSUME C!Init PROVE ConInv
<1>1. /\ inst = [i \in Inst |-> None] /\ live = [s \in C!Storage |-> 0] /\ cpp = {}
  BY DEF C!Init
<1>2. \A i \in Inst : ~C!Is(i)  BY <1>1 DEF C!Is
<1>3. ConTypes  BY <1>1 DEF ConTypes
<1>4. ConRoots /\ ConViews /\ ConTree
  BY <1>2 DEF ConRoots, ConViews, ConTree, Root, View
<1>5. ConLive  BY <1>1, <1>2 DEF ConLive, Full, Root
<1> QED  BY <1>3, <1>4, <1>5 DEF ConInv

\* Nobody points into an instance that does not exist.
LEMMA NobodyAt ==
    ASSUME ConLegal, ConInv, NEW i \in Inst, ~C!Is(i), NEW j \in Inst, C!Is(j)
    PROVE  inst[j].at # i
<1> SUFFICES ASSUME inst[j].at = i PROVE FALSE
    OBVIOUS
<1>1. i \notin cpp  BY DEF ConInv, ConTypes, ConLegal
<1>2. CASE Root(j)  BY <1>2 DEF ConInv, ConRoots
<1>3. CASE ~Root(j)
  <2>1. View(j)  BY <1>1, <1>3 DEF Root, View
  <2>2. Full(i)  BY <1>1, <2>1 DEF ConInv, ConViews
  <2> QED  BY <2>2 DEF Full, ConInv, ConRoots, Root
<1> QED  BY <1>2, <1>3

\* A step that leaves open who points where, and changes one instance.
LEMMA Refresh ==
    ASSUME ConLegal, ConInv, NEW i \in Inst, C!Is(i), cpp' = cpp, inst'[i] \in ConRec,
           inst' \in [Inst -> ConRec \cup {None}], live' \in [C!Storage -> Int],
           inst'[i].at = inst[i].at, inst'[i].parent = inst[i].parent,
           \A j \in Inst : j # i => inst'[j] = inst[j],
           \A s \in C!Storage : s # inst[i].at => live'[s] = live[s],
           Root(i) => /\ inst'[i].ready <=> inst'[i].destruct
                      /\ live'[inst[i].at] = IF inst'[i].ready THEN 1 ELSE 0
                      /\ \A j \in Inst : j # i /\ C!Is(j) /\ inst[j].at = inst[i].at
                                         => inst'[i].ready,
           ~Root(i) => /\ inst'[i].ready /\ ~inst'[i].destruct
                       /\ live'[inst[i].at] = live[inst[i].at]
    PROVE  ConInv'
<1>0. ConTypes /\ ConRoots /\ ConViews /\ ConTree /\ ConLive  BY DEF ConInv
<1>1. \A j \in Inst : /\ C!Is(j)' <=> C!Is(j)
                      /\ C!Is(j) => /\ inst'[j].at = inst[j].at
                                    /\ inst'[j].parent = inst[j].parent
  BY DEF C!Is, ConLegal
<1>2. \A j \in Inst : (Root(j)' <=> Root(j)) /\ (View(j)' <=> View(j))
  BY <1>1 DEF Root, View
<1>3. \A s \in C!Storage : s # inst[i].at => (Full(s)' <=> Full(s))
  BY <1>1, <1>2 DEF Full, Root
<1>4. Root(i) => (Full(inst[i].at)' <=> inst'[i].ready)
  BY <1>0, <1>1, <1>2 DEF Full, Root, ConRoots
<1>5. ~Root(i) => (Full(inst[i].at)' <=> Full(inst[i].at))
  BY <1>1, <1>2 DEF Full, Root
<1>6. ConTypes'  BY <1>0 DEF ConTypes
<1>7. ConRoots'  BY <1>0, <1>1, <1>2 DEF ConRoots, Root
<1>8. inst[i].at \in C!Storage  BY <1>0 DEF ConTypes, ConRec, C!Is
<1>9. ConViews'
  <2>1. ASSUME NEW j \in Inst, C!Is(j)', ~Root(j)' PROVE inst'[j].ready /\ ~inst'[j].destruct
    BY <2>1, <1>0, <1>1, <1>2 DEF ConViews
  <2>2. ASSUME NEW j \in Inst, View(j)'
        PROVE  (/\ inst[j].parent \in Inst /\ C!Is(inst[j].parent)
                /\ inst[inst[j].parent].at = inst[j].at
                /\ inst[j].at \notin cpp => Full(inst[j].at))'
    <3>1. View(j) /\ C!Is(j)  BY <2>2, <1>2 DEF View
    <3>2. /\ inst[j].parent \in Inst /\ C!Is(inst[j].parent)
          /\ inst[inst[j].parent].at = inst[j].at
          /\ inst[j].at \notin cpp => Full(inst[j].at)
      BY <3>1, <1>0 DEF ConViews
    <3>3. inst'[j].parent = inst[j].parent /\ inst'[j].at = inst[j].at
          /\ inst[j].at \in C!Storage
      BY <3>1, <1>0, <1>1 DEF ConTypes, ConRec, C!Is
    <3>4. ASSUME inst[j].at \notin cpp PROVE Full(inst[j].at)'
      <4>1. CASE inst[j].at # inst[i].at  BY <4>1, <3>2, <3>3, <3>4, <1>3
      <4>2. CASE inst[j].at = inst[i].at /\ ~Root(i)  BY <4>2, <3>2, <3>4, <1>5
      <4>3. CASE inst[j].at = inst[i].at /\ Root(i)
        <5>1. j # i  BY <3>1, <4>3 DEF Root, View
        <5> QED  BY <5>1, <3>1, <4>3, <1>4
      <4> QED  BY <4>1, <4>2, <4>3
    <3>5. C!Is(inst[j].parent)' /\ inst'[inst[j].parent].at = inst[inst[j].parent].at
      BY <3>2, <3>3, <1>1
    <3> QED  BY <3>2, <3>3, <3>4, <3>5
  <2> QED  BY <2>1, <2>2 DEF ConViews
<1>10. ConTree'
  <2> SUFFICES ASSUME NEW S \in SUBSET Inst, S # {}, \A j \in S : View(j)'
               PROVE  \E j \in S : inst'[j].parent \notin S
    BY DEF ConTree
  <2>1. \A j \in S : View(j)  BY <1>2
  <2>2. PICK j \in S : inst[j].parent \notin S  BY <2>1, <1>0 DEF ConTree
  <2> QED  BY <2>1, <2>2, <1>1 DEF View
<1>11. ConLive'
  <2> SUFFICES ASSUME NEW s \in C!Storage
               PROVE  live'[s] = IF s \in cpp \/ Full(s)' THEN 1 ELSE 0
    BY DEF ConLive
  <2>1. live[s] = IF s \in cpp \/ Full(s) THEN 1 ELSE 0  BY <1>0 DEF ConLive
  <2>2. CASE s # inst[i].at  BY <2>1, <2>2, <1>3
  <2>3. CASE s = inst[i].at /\ ~Root(i)  BY <2>1, <2>3, <1>5
  <2>4. CASE s = inst[i].at /\ Root(i)
    <3>1. s \notin cpp  BY <2>4 DEF Root
    <3> QED  BY <2>4, <3>1, <1>4
  <2> QED  BY <2>2, <2>3, <2>4
<1> QED  BY <1>6, <1>7, <1>9, <1>10, <1>11 DEF ConInv

\* A new instance that answers for a storage nobody points to.
Arrives(i, a) ==
    /\ ~C!Is(i) /\ a \in C!Storage /\ (a \in Inst => a = i)
    /\ \A j \in Inst : C!Is(j) => inst[j].at # a
    /\ inst' \in [Inst -> ConRec \cup {None}] /\ inst'[i] \in ConRec
    /\ inst'[i].at = a /\ inst'[i].parent = None /\ (inst'[i].ready <=> inst'[i].destruct)
    /\ \A j \in Inst : j # i => inst'[j] = inst[j]
    /\ cpp' = cpp \ {a} /\ live' \in [C!Storage -> Int]
    /\ live'[a] = IF inst'[i].ready THEN 1 ELSE 0
    /\ \A s \in C!Storage : s # a => live'[s] = live[s]
LEMMA Arrive ==
    ASSUME ConLegal, ConInv, NEW i \in Inst, NEW a \in C!Storage, Arrives(i, a)
    PROVE  ConInv'
<1> USE DEF Arrives
<1>0. ConTypes /\ ConRoots /\ ConViews /\ ConTree /\ ConLive  BY DEF ConInv
<1>1. /\ C!Is(i)' /\ Root(i)' /\ ~View(i)'
      /\ \A j \in Inst : j # i => (C!Is(j)' <=> C!Is(j)) /\ (View(j)' <=> View(j))
      /\ \A j \in Inst : C!Is(j) => j # i
  BY DEF C!Is, ConLegal, Root, View
<1>2. \A j \in Inst : j # i => (Root(j)' <=> Root(j))
  BY DEF Root, C!Is
<1>3. \A s : s # a => (Full(s)' <=> Full(s))
  BY <1>1, <1>2 DEF Full, Root
<1>4. Full(a)' <=> inst'[i].ready
  BY <1>1, <1>2 DEF Full, Root
<1>5. ConTypes'  BY <1>0 DEF ConTypes
<1>6. ConRoots'
  <2>1. \A j \in Inst : Root(j)' => /\ inst'[j].ready <=> inst'[j].destruct
                                    /\ inst'[j].at \in Inst => inst'[j].at = j
    BY <1>0, <1>1, <1>2 DEF ConRoots
  <2>2. ASSUME NEW j \in Inst, NEW k \in Inst, Root(j)', Root(k)', inst'[j].at = inst'[k].at
        PROVE  j = k
    BY <2>2, <1>0, <1>1, <1>2 DEF ConRoots, Root
  <2> QED  BY <2>1, <2>2 DEF ConRoots
<1>7. ConViews'
  <2>1. \A j \in Inst : C!Is(j)' /\ ~Root(j)' => inst'[j].ready /\ ~inst'[j].destruct
    BY <1>0, <1>1, <1>2 DEF ConViews
  <2>2. ASSUME NEW j \in Inst, View(j)'
        PROVE  (/\ inst[j].parent \in Inst /\ C!Is(inst[j].parent)
                /\ inst[inst[j].parent].at = inst[j].at
                /\ inst[j].at \notin cpp => Full(inst[j].at))'
    <3>1. j # i /\ View(j) /\ C!Is(j) /\ inst'[j] = inst[j]  BY <2>2, <1>1 DEF View
    <3>2. /\ inst[j].parent \in Inst /\ C!Is(inst[j].parent)
          /\ inst[inst[j].parent].at = inst[j].at
          /\ inst[j].at \notin cpp => Full(inst[j].at)
      BY <3>1, <1>0 DEF ConViews
    <3>3. inst[j].at # a /\ inst[j].parent # i  BY <3>1, <3>2, <1>1
    <3>4. C!Is(inst[j].parent)' /\ inst'[inst[j].parent] = inst[inst[j].parent]
      BY <3>1, <3>2, <3>3, <1>1
    <3>5. inst[j].at \notin cpp' => Full(inst[j].at)'
      BY <3>1, <3>2, <3>3, <1>3
    <3> QED  BY <3>1, <3>2, <3>4, <3>5
  <2> QED  BY <2>1, <2>2 DEF ConViews
<1>8. ConTree'
  <2> SUFFICES ASSUME NEW S \in SUBSET Inst, S # {}, \A j \in S : View(j)'
               PROVE  \E j \in S : inst'[j].parent \notin S
    BY DEF ConTree
  <2>1. \A j \in S : View(j) /\ j # i  BY <1>1
  <2>2. PICK j \in S : inst[j].parent \notin S  BY <2>1, <1>0 DEF ConTree
  <2> QED  BY <2>1, <2>2
<1>9. ConLive'
  <2> SUFFICES ASSUME NEW s \in C!Storage
               PROVE  live'[s] = IF s \in cpp' \/ Full(s)' THEN 1 ELSE 0
    BY DEF ConLive
  <2>1. live[s] = IF s \in cpp \/ Full(s) THEN 1 ELSE 0  BY <1>0 DEF ConLive
  <2>2. CASE s # a  BY <2>1, <2>2, <1>3
  <2>3. CASE s = a  BY <2>3, <1>4
  <2> QED  BY <2>2, <2>3
<1> QED  BY <1>5, <1>6, <1>7, <1>8, <1>9 DEF ConInv

\* A new view, of what C++ owns or of what another instance has.
LEMMA ViewArrives ==
    ASSUME ConLegal, ConInv, NEW i \in Inst, NEW s \in C!Storage, NEW p \in Inst \cup {None},
           C!Reference(i, s, p)
    PROVE  ConInv'
<1>0. ConTypes /\ ConRoots /\ ConViews /\ ConTree /\ ConLive  BY DEF ConInv
<1>1. /\ ~C!Is(i) /\ inst' = [inst EXCEPT ![i] = C!Instance(s, TRUE, FALSE, FALSE, p)]
      /\ live' = live /\ cpp' = cpp
      /\ p = None => s \in cpp
      /\ p # None => p \in Inst /\ C!Is(p) /\ inst[p].ready /\ inst[p].at = s
  BY DEF C!Reference
<1>2. /\ C!Instance(s, TRUE, FALSE, FALSE, p) \in ConRec
      /\ C!Instance(s, TRUE, FALSE, FALSE, p).at = s
      /\ C!Instance(s, TRUE, FALSE, FALSE, p).ready = TRUE
      /\ C!Instance(s, TRUE, FALSE, FALSE, p).destruct = FALSE
      /\ C!Instance(s, TRUE, FALSE, FALSE, p).parent = p
  BY DEF C!Instance, ConRec
<1>3. /\ inst' \in [Inst -> ConRec \cup {None}] /\ inst'[i] \in ConRec
      /\ inst'[i].at = s /\ inst'[i].ready /\ ~inst'[i].destruct /\ inst'[i].parent = p
      /\ \A j \in Inst : j # i => inst'[j] = inst[j]
  BY <1>0, <1>1, <1>2 DEF ConTypes
<1>4. /\ C!Is(i)' /\ ~Root(i)'
      /\ \A j \in Inst : j # i => (C!Is(j)' <=> C!Is(j)) /\ (View(j)' <=> View(j))
                                  /\ (Root(j)' <=> Root(j))
      /\ \A j \in Inst : C!Is(j) => j # i
  BY <1>1, <1>3 DEF C!Is, ConLegal, Root, View
<1>5. \A x : Full(x)' <=> Full(x)  BY <1>3, <1>4 DEF Full, Root
<1>6. ConTypes'  BY <1>0, <1>1, <1>3 DEF ConTypes
<1>7. ConRoots'  BY <1>0, <1>3, <1>4 DEF ConRoots
<1>8. ConViews'
  <2>1. \A j \in Inst : C!Is(j)' /\ ~Root(j)' => inst'[j].ready /\ ~inst'[j].destruct
    BY <1>0, <1>3, <1>4 DEF ConViews
  <2>2. ASSUME NEW j \in Inst, View(j)', j # i
        PROVE  (/\ inst[j].parent \in Inst /\ C!Is(inst[j].parent)
                /\ inst[inst[j].parent].at = inst[j].at
                /\ inst[j].at \notin cpp => Full(inst[j].at))'
    <3>1. View(j) /\ C!Is(j) /\ inst'[j] = inst[j]  BY <2>2, <1>3, <1>4 DEF View
    <3>2. /\ inst[j].parent \in Inst /\ C!Is(inst[j].parent)
          /\ inst[inst[j].parent].at = inst[j].at
          /\ inst[j].at \notin cpp => Full(inst[j].at)
      BY <3>1, <1>0 DEF ConViews
    <3>3. C!Is(inst[j].parent)' /\ inst'[inst[j].parent] = inst[inst[j].parent]
      BY <3>1, <3>2, <1>3, <1>4
    <3> QED  BY <3>1, <3>2, <3>3, <1>1, <1>5
  <2>3. ASSUME View(i)'
        PROVE  (/\ inst[i].parent \in Inst /\ C!Is(inst[i].parent)
                /\ inst[inst[i].parent].at = inst[i].at
                /\ inst[i].at \notin cpp => Full(inst[i].at))'
    <3>1. p # None /\ inst'[i].parent = p  BY <2>3, <1>3 DEF View
    <3>2. p \in Inst /\ C!Is(p) /\ inst[p].ready /\ inst[p].at = s  BY <3>1, <1>1
    <3>3. p # i /\ C!Is(p)' /\ inst'[p] = inst[p]  BY <3>2, <1>3, <1>4
    <3>4. s \notin cpp => Full(s)
      <4>1. CASE Root(p)  BY <4>1, <3>2 DEF Full
      <4>2. CASE ~Root(p) /\ s \notin cpp
        <5>1. View(p)  BY <3>2, <4>2 DEF Root, View
        <5> QED  BY <5>1, <3>2, <1>0 DEF ConViews
      <4> QED  BY <4>1, <4>2
    <3>5. s \notin cpp' => Full(s)'  BY <3>4, <1>1, <1>5
    <3> QED  BY <3>1, <3>2, <3>3, <3>5, <1>3
  <2> QED  BY <2>1, <2>2, <2>3 DEF ConViews
<1>9. ConTree'
  <2> SUFFICES ASSUME NEW S \in SUBSET Inst, S # {}, \A j \in S : View(j)'
               PROVE  \E j \in S : inst'[j].parent \notin S
    BY DEF ConTree
  <2>1. CASE i \notin S
    <3>1. \A j \in S : View(j)  BY <2>1, <1>4
    <3>2. PICK j \in S : inst[j].parent \notin S  BY <3>1, <1>0 DEF ConTree
    <3> QED  BY <2>1, <3>2, <1>3
  <2>2. CASE S = {i}
    <3>1. View(i)'  BY <2>2
    <3>2. p # None  BY <3>1, <1>3 DEF View
    <3>3. p # i  BY <3>2, <1>1
    <3> QED  BY <2>2, <3>3, <1>3
  <2>3. CASE i \in S /\ S # {i}
    <3> DEFINE T == S \ {i}
    <3>1. T \in SUBSET Inst /\ T # {} /\ \A j \in T : View(j)  BY <2>3, <1>4
    <3>2. PICK j \in T : inst[j].parent \notin T  BY <3>1, <1>0 DEF ConTree
    <3>3. inst[j].parent # i  BY <3>1, <3>2, <1>0, <1>1 DEF ConViews
    <3> QED  BY <3>2, <3>3, <1>3
  <2> QED  BY <2>1, <2>2, <2>3
<1>10. ConLive'
  <2> SUFFICES ASSUME NEW x \in C!Storage
               PROVE  live'[x] = IF x \in cpp' \/ Full(x)' THEN 1 ELSE 0
    BY DEF ConLive
  <2>1. live[x] = IF x \in cpp \/ Full(x) THEN 1 ELSE 0  BY <1>0 DEF ConLive
  <2> QED  BY <2>1, <1>1, <1>5
<1> QED  BY <1>6, <1>7, <1>8, <1>9, <1>10 DEF ConInv

\* Nobody looks at an instance that no view keeps alive.
LEMMA NoViews ==
    ASSUME ConLegal, ConInv, NEW i \in Inst, Root(i),
           \A j \in Inst : C!Is(j) => inst[j].parent # i,
           NEW j \in Inst, C!Is(j), inst[j].at = inst[i].at
    PROVE  j = i
<1> DEFINE S == {k \in Inst : View(k) /\ inst[k].at = inst[i].at}
<1>0. ConRoots /\ ConViews /\ ConTree  BY DEF ConInv
<1>1. S = {}
  <2> SUFFICES ASSUME S # {} PROVE FALSE
    OBVIOUS
  <2>1. S \in SUBSET Inst /\ \A k \in S : View(k)  OBVIOUS
  <2>2. PICK k \in S : inst[k].parent \notin S  BY <2>1, <1>0 DEF ConTree
  <2> DEFINE p == inst[k].parent
  <2>3. k \in Inst /\ View(k) /\ inst[k].at = inst[i].at  OBVIOUS
  <2>4. p \in Inst /\ C!Is(p) /\ inst[p].at = inst[i].at  BY <2>3, <1>0 DEF ConViews
  <2>5. ~View(p)  BY <2>2, <2>4
  <2>6. Root(p)  BY <2>4, <2>5 DEF Root, View
  <2>7. p = i  BY <2>4, <2>6, <1>0 DEF ConRoots
  <2>8. p # i  BY <2>3 DEF View
  <2> QED  BY <2>7, <2>8
<1>2. ~View(j)  BY <1>1
<1>3. Root(j)  BY <1>2 DEF Root, View
<1> QED  BY <1>0, <1>3 DEF ConRoots

\* An instance that no view keeps alive goes, and its contents if it answers for them.
LEMMA Leaves ==
    ASSUME ConLegal, ConInv, NEW i \in Inst, C!Is(i),
           \A j \in Inst : C!Is(j) => inst[j].parent # i,
           inst' \in [Inst -> ConRec \cup {None}], inst'[i] = None,
           \A j \in Inst : j # i => inst'[j] = inst[j],
           cpp' = cpp, live' \in [C!Storage -> Int],
           live'[inst[i].at] = IF inst[i].destruct THEN live[inst[i].at] - 1
                               ELSE live[inst[i].at],
           \A s \in C!Storage : s # inst[i].at => live'[s] = live[s]
    PROVE  ConInv'
<1>0. ConTypes /\ ConRoots /\ ConViews /\ ConTree /\ ConLive  BY DEF ConInv
<1>1. /\ ~C!Is(i)' /\ ~Root(i)' /\ ~View(i)'
      /\ \A j \in Inst : j # i => (C!Is(j)' <=> C!Is(j)) /\ (View(j)' <=> View(j))
                                  /\ (Root(j)' <=> Root(j))
  BY DEF C!Is, Root, View
<1>2. \A j \in Inst : C!Is(j)' => j # i  BY <1>1
<1>3. \A s : s # inst[i].at \/ ~Root(i) => (Full(s)' <=> Full(s))
  BY <1>1 DEF Full, Root
<1>5. ConTypes'  BY <1>0 DEF ConTypes
<1>6. ConRoots'  BY <1>0, <1>1 DEF ConRoots
<1>7. ConViews'
  <2>1. \A j \in Inst : C!Is(j)' /\ ~Root(j)' => inst'[j].ready /\ ~inst'[j].destruct
    BY <1>0, <1>1 DEF ConViews
  <2>2. ASSUME NEW j \in Inst, View(j)'
        PROVE  (/\ inst[j].parent \in Inst /\ C!Is(inst[j].parent)
                /\ inst[inst[j].parent].at = inst[j].at
                /\ inst[j].at \notin cpp => Full(inst[j].at))'
    <3>1. j # i /\ View(j) /\ C!Is(j) /\ inst'[j] = inst[j]  BY <2>2, <1>1 DEF View
    <3>2. /\ inst[j].parent \in Inst /\ C!Is(inst[j].parent)
          /\ inst[inst[j].parent].at = inst[j].at
          /\ inst[j].at \notin cpp => Full(inst[j].at)
      BY <3>1, <1>0 DEF ConViews
    <3>3. C!Is(inst[j].parent)' /\ inst'[inst[j].parent] = inst[inst[j].parent]
      BY <3>1, <3>2, <1>1
    <3>4. inst[j].at # inst[i].at \/ ~Root(i)  BY <3>1, NoViews
    <3>5. inst[j].at \notin cpp' => Full(inst[j].at)'  BY <3>1, <3>2, <3>4, <1>3
    <3> QED  BY <3>1, <3>2, <3>3, <3>5
  <2> QED  BY <2>1, <2>2 DEF ConViews
<1>8. ConTree'
  <2> SUFFICES ASSUME NEW S \in SUBSET Inst, S # {}, \A j \in S : View(j)'
               PROVE  \E j \in S : inst'[j].parent \notin S
    BY DEF ConTree
  <2>1. \A j \in S : View(j) /\ j # i  BY <1>1
  <2>2. PICK j \in S : inst[j].parent \notin S  BY <2>1, <1>0 DEF ConTree
  <2> QED  BY <2>1, <2>2
<1>9. ConLive'
  <2> SUFFICES ASSUME NEW s \in C!Storage
               PROVE  live'[s] = IF s \in cpp' \/ Full(s)' THEN 1 ELSE 0
    BY DEF ConLive
  <2>1. live[s] = IF s \in cpp \/ Full(s) THEN 1 ELSE 0  BY <1>0 DEF ConLive
  <2>2. CASE s # inst[i].at  BY <2>1, <2>2, <1>3
  <2>3. CASE s = inst[i].at /\ ~Root(i)
    <3>1. ~inst[i].destruct  BY <2>3, <1>0 DEF ConViews
    <3> QED  BY <2>1, <2>3, <3>1, <1>3
  <2>4. CASE s = inst[i].at /\ Root(i)
    <3>1. s \notin cpp /\ (Full(s) <=> inst[i].ready) /\ (inst[i].ready <=> inst[i].destruct)
      BY <2>4, <1>0 DEF Root, Full, ConRoots
    <3>2. ~Full(s)'
      <4> SUFFICES ASSUME NEW j \in Inst, Root(j)', inst'[j].at = s PROVE FALSE
        BY DEF Full
      <4>1. j # i /\ Root(j) /\ inst[j].at = inst[i].at  BY <2>4, <1>1
      <4> QED  BY <4>1, <2>4, <1>0 DEF ConRoots
    <3> QED  BY <2>1, <2>4, <3>1, <3>2
  <2> QED  BY <2>2, <2>3, <2>4
<1> QED  BY <1>5, <1>6, <1>7, <1>8, <1>9 DEF ConInv

\* C++ makes or deletes an object that no instance points to.
LEMMA CppOnly ==
    ASSUME ConLegal, ConInv, NEW c \in Cell, \A j \in Inst : C!Is(j) => inst[j].at # c,
           inst' = inst, cpp' \subseteq Cell, \A x \in Cell : x # c => (x \in cpp' <=> x \in cpp),
           live' \in [C!Storage -> Int], live'[c] = IF c \in cpp' THEN 1 ELSE 0,
           \A s \in C!Storage : s # c => live'[s] = live[s]
    PROVE  ConInv'
<1>0. ConTypes /\ ConRoots /\ ConViews /\ ConTree /\ ConLive  BY DEF ConInv
<1>1. \A x : x # c => (x \in cpp' <=> x \in cpp)  BY <1>0 DEF ConTypes
<1>2. \A j \in Inst : /\ C!Is(j)' <=> C!Is(j)
                      /\ C!Is(j) => (inst[j].at \in cpp' <=> inst[j].at \in cpp)
  BY <1>1 DEF C!Is
<1>3. \A j \in Inst : (Root(j)' <=> Root(j)) /\ (View(j)' <=> View(j))
  BY <1>2 DEF Root, View
<1>4. \A s : Full(s)' <=> Full(s)  BY <1>3 DEF Full
<1>5. ConTypes'  BY <1>0 DEF ConTypes
<1>6. ConRoots'  BY <1>0, <1>3 DEF ConRoots
<1>7. ConViews'
  <2>1. \A j \in Inst : C!Is(j)' /\ ~Root(j)' => inst'[j].ready /\ ~inst'[j].destruct
    BY <1>0, <1>2, <1>3 DEF ConViews
  <2>2. ASSUME NEW j \in Inst, View(j)'
        PROVE  (/\ inst[j].parent \in Inst /\ C!Is(inst[j].parent)
                /\ inst[inst[j].parent].at = inst[j].at
                /\ inst[j].at \notin cpp => Full(inst[j].at))'
    BY <2>2, <1>0, <1>2, <1>3, <1>4 DEF ConViews, View
  <2> QED  BY <2>1, <2>2 DEF ConViews
<1>8. ConTree'  BY <1>0, <1>3 DEF ConTree
<1>9. ~Full(c)  BY DEF Full, Root
<1>10. ConLive'
  <2> SUFFICES ASSUME NEW s \in C!Storage
               PROVE  live'[s] = IF s \in cpp' \/ Full(s)' THEN 1 ELSE 0
    BY DEF ConLive
  <2>1. live[s] = IF s \in cpp \/ Full(s) THEN 1 ELSE 0  BY <1>0 DEF ConLive
  <2>2. CASE s # c  BY <2>1, <2>2, <1>1, <1>4
  <2>3. CASE s = c  BY <2>3, <1>4, <1>9
  <2> QED  BY <2>2, <2>3
<1> QED  BY <1>5, <1>6, <1>7, <1>8, <1>10 DEF ConInv

LEMMA ConStep == ASSUME ConLegal, ConInv, [C!Next]_(C!conVars) PROVE ConInv'
<1>0. ConTypes /\ ConRoots /\ ConViews /\ ConLive  BY DEF ConInv
<1>a. /\ inst \in [Inst -> ConRec \cup {None}] /\ live \in [C!Storage -> Int]
      /\ \A i \in Inst : C!Is(i) => /\ inst[i] \in ConRec /\ inst[i].at \in C!Storage
                                    /\ inst[i].ready \in BOOLEAN /\ inst[i].destruct \in BOOLEAN
  BY <1>0 DEF ConTypes, ConRec, C!Is
<1>b. \A i \in Inst : Root(i) => /\ inst[i].ready <=> inst[i].destruct
                                 /\ inst[i].ready => live[inst[i].at] = 1
                                 /\ ~inst[i].ready => live[inst[i].at] = 0
  BY <1>0, <1>a DEF ConRoots, ConLive, Full, Root
<1>c. ASSUME NEW i \in Inst, C!Is(i), ~Root(i) PROVE inst[i].ready /\ ~inst[i].destruct
  BY <1>0, <1>c DEF ConViews
<1>1. CASE UNCHANGED C!conVars
  <2>1. inst' = inst /\ live' = live /\ cpp' = cpp  BY <1>1 DEF C!conVars
  <2> QED  BY <2>1 DEF ConInv, ConTypes, ConRoots, ConViews, ConTree, ConLive, Full, Root, View, C!Is
<1>2. ASSUME NEW i \in Inst, ~C!Is(i), NEW r \in ConRec, inst' = [inst EXCEPT ![i] = r],
             r.at = i, r.parent = None, r.ready <=> r.destruct, cpp' = cpp,
             live' = IF r.ready THEN [live EXCEPT ![i] = 1] ELSE live
      PROVE  ConInv'
  <2>1. /\ inst' \in [Inst -> ConRec \cup {None}] /\ inst'[i] = r
        /\ \A j \in Inst : j # i => inst'[j] = inst[j]
    BY <1>2, <1>a
  <2>2. \A j \in Inst : C!Is(j) => inst[j].at # i  BY <1>2, NobodyAt
  <2>3. i \in C!Storage /\ i \notin cpp  BY <1>0 DEF C!Storage, ConTypes, ConLegal
  <2>4. live[i] = 0  BY <1>0, <2>2, <2>3 DEF ConLive, Full, Root
  <2>5. /\ live' \in [C!Storage -> Int] /\ live'[i] = IF r.ready THEN 1 ELSE 0
        /\ \A s \in C!Storage : s # i => live'[s] = live[s]
    BY <1>2, <1>a, <2>3, <2>4
  <2>6. cpp' = cpp \ {i}  BY <1>2, <2>3
  <2>7. /\ inst'[i] \in ConRec /\ inst'[i].at = i /\ inst'[i].parent = None
        /\ (inst'[i].ready <=> inst'[i].destruct) /\ live'[i] = IF inst'[i].ready THEN 1 ELSE 0
    BY <1>2, <2>1, <2>5
  <2>8. live' \in [C!Storage -> Int] /\ \A s \in C!Storage : s # i => live'[s] = live[s]
    BY <2>5
  <2>9. ~C!Is(i) /\ i \in C!Storage /\ (i \in Inst => i = i)  BY <1>2, <2>3
  <2>10. /\ inst' \in [Inst -> ConRec \cup {None}]
         /\ \A j \in Inst : j # i => inst'[j] = inst[j]
    BY <2>1
  <2>11. Arrives(i, i)  BY <2>2, <2>6, <2>7, <2>8, <2>9, <2>10 DEF Arrives
  <2> QED  BY <2>9, <2>11, Arrive
<1>3. ASSUME NEW i \in Inst, C!Alloc(i) PROVE ConInv'
  <2> DEFINE r == C!Instance(i, FALSE, FALSE, FALSE, None)
  <2>1. r \in ConRec /\ r.at = i /\ r.parent = None /\ r.ready = FALSE /\ r.destruct = FALSE
    BY DEF C!Instance, ConRec, C!Storage
  <2>2. ~C!Is(i) /\ inst' = [inst EXCEPT ![i] = r] /\ live' = live /\ cpp' = cpp
    BY <1>3 DEF C!Alloc
  <2> HIDE DEF r
  <2> QED  BY <2>1, <2>2, <1>2
<1>4. ASSUME NEW i \in Inst, C!AllocZero(i) PROVE ConInv'
  <2> DEFINE r == C!Instance(i, TRUE, TRUE, FALSE, None)
  <2>1. r \in ConRec /\ r.at = i /\ r.parent = None /\ r.ready = TRUE /\ r.destruct = TRUE
    BY DEF C!Instance, ConRec, C!Storage
  <2>2. /\ ~C!Is(i) /\ inst' = [inst EXCEPT ![i] = r] /\ live' = [live EXCEPT ![i] = 1]
        /\ cpp' = cpp
    BY <1>4 DEF C!AllocZero
  <2> HIDE DEF r
  <2> QED  BY <2>1, <2>2, <1>2
<1>5. ASSUME NEW i \in Inst, NEW c \in Cell, C!TakeOwnership(i, c) PROVE ConInv'
  <2> DEFINE r == C!Instance(c, TRUE, TRUE, TRUE, None)
  <2>1. r \in ConRec /\ r.at = c /\ r.parent = None /\ r.ready = TRUE /\ r.destruct = TRUE
    BY DEF C!Instance, ConRec, C!Storage
  <2>2. /\ ~C!Is(i) /\ c \in cpp /\ C!At(c) = {} /\ inst' = [inst EXCEPT ![i] = r]
        /\ live' = live /\ cpp' = cpp \ {c}
    BY <1>5 DEF C!TakeOwnership
  <2> HIDE DEF r
  <2>3. \A j \in Inst : C!Is(j) => inst[j].at # c  BY <2>2 DEF C!At
  <2>4. c \in C!Storage /\ c \notin Inst /\ live[c] = 1
    BY <1>0, <2>2 DEF C!Storage, ConLegal, ConLive
  <2>5. /\ inst' \in [Inst -> ConRec \cup {None}] /\ inst'[i] = r
        /\ \A j \in Inst : j # i => inst'[j] = inst[j]
    BY <2>1, <2>2, <1>a
  <2>6. /\ inst'[i] \in ConRec /\ inst'[i].at = c /\ inst'[i].parent = None
        /\ (inst'[i].ready <=> inst'[i].destruct) /\ live'[c] = IF inst'[i].ready THEN 1 ELSE 0
    BY <2>1, <2>2, <2>4, <2>5
  <2>7. live' \in [C!Storage -> Int] /\ \A s \in C!Storage : s # c => live'[s] = live[s]
    BY <2>2, <1>a
  <2>8. ~C!Is(i) /\ cpp' = cpp \ {c} /\ c \in C!Storage /\ (c \in Inst => c = i)  BY <2>2, <2>4
  <2>9. /\ inst' \in [Inst -> ConRec \cup {None}]
        /\ \A j \in Inst : j # i => inst'[j] = inst[j]
    BY <2>5
  <2>10. Arrives(i, c)  BY <2>3, <2>6, <2>7, <2>8, <2>9 DEF Arrives
  <2> QED  BY <2>8, <2>10, Arrive
<1>6. ASSUME NEW i \in Inst, C!Fill(i) PROVE ConInv'
  <2>1. C!Is(i) /\ ~inst[i].ready /\ live[inst[i].at] = 0 /\ cpp' = cpp
        /\ inst' = C!Owned(i) /\ live' = [live EXCEPT ![inst[i].at] = 1]
    BY <1>6 DEF C!Fill
  <2>2. Root(i)  BY <2>1, <1>c
  <2>3. /\ inst'[i] = [inst[i] EXCEPT !.ready = TRUE, !.destruct = TRUE,
                                      !.cpp_delete = @ \/ inst[i].at # i]
        /\ \A j \in Inst : j # i => inst'[j] = inst[j]
    BY <2>1, <1>a DEF C!Owned
  <2>4. /\ inst'[i] \in ConRec /\ inst'[i].ready = TRUE /\ inst'[i].destruct = TRUE
        /\ inst'[i].at = inst[i].at /\ inst'[i].parent = inst[i].parent
    BY <2>1, <2>3, <1>a DEF ConRec
  <2>5. inst' \in [Inst -> ConRec \cup {None}]
    <3>1. DOMAIN inst' = Inst /\ inst' = [j \in Inst |-> inst'[j]]
      BY <2>1, <1>a DEF C!Owned
    <3>2. \A j \in Inst : inst'[j] \in ConRec \cup {None}  BY <2>3, <2>4, <1>a
    <3> QED  BY <3>1, <3>2
  <2>6. /\ live' \in [C!Storage -> Int] /\ live'[inst[i].at] = 1
        /\ \A s \in C!Storage : s # inst[i].at => live'[s] = live[s]
    BY <2>1, <1>a
  <2>7. C!Is(i) /\ cpp' = cpp /\ \A j \in Inst : j # i => inst'[j] = inst[j]  BY <2>1, <2>3
  <2> QED  BY ONLY ConLegal, ConInv, i \in Inst, <2>2, <2>4, <2>5, <2>6, <2>7, Refresh
<1>7. ASSUME NEW i \in Inst, C!Destruct(i) PROVE ConInv'
  <2>1. /\ C!Is(i) /\ ~C!Viewed(i) /\ (inst[i].destruct \/ ~inst[i].ready) /\ cpp' = cpp
        /\ inst' = [inst EXCEPT ![i].ready = FALSE, ![i].destruct = FALSE]
        /\ inst[i].destruct => live' = [live EXCEPT ![inst[i].at] = @ - 1]
        /\ ~inst[i].destruct => live' = live
    BY <1>7 DEF C!Destruct, ConLegal
  <2>2. Root(i)  BY <2>1, <1>c
  <2>3. /\ inst'[i] = [inst[i] EXCEPT !.ready = FALSE, !.destruct = FALSE]
        /\ \A j \in Inst : j # i => inst'[j] = inst[j]
    BY <2>1, <1>a
  <2>4. /\ inst'[i] \in ConRec /\ inst'[i].ready = FALSE /\ inst'[i].destruct = FALSE
        /\ inst'[i].at = inst[i].at /\ inst'[i].parent = inst[i].parent
    BY <2>1, <2>3, <1>a DEF ConRec
  <2>5. inst' \in [Inst -> ConRec \cup {None}]
    <3>1. DOMAIN inst' = Inst /\ inst' = [j \in Inst |-> inst'[j]]
      BY <2>1, <1>a
    <3>2. \A j \in Inst : inst'[j] \in ConRec \cup {None}  BY <2>3, <2>4, <1>a
    <3> QED  BY <3>1, <3>2
  <2>6. /\ live' \in [C!Storage -> Int] /\ live'[inst[i].at] = 0
        /\ \A s \in C!Storage : s # inst[i].at => live'[s] = live[s]
    <3>1. CASE inst[i].destruct
      <4>1. live[inst[i].at] - 1 = 0  BY <2>2, <3>1, <1>b
      <4>2. live' = [live EXCEPT ![inst[i].at] = 0]  BY <2>1, <3>1, <4>1
      <4> QED  BY <4>2, <2>1, <1>a
    <3>2. CASE ~inst[i].destruct  BY <2>1, <2>2, <3>2, <1>a, <1>b
    <3> QED  BY <3>1, <3>2
  <2>7. C!Is(i) /\ cpp' = cpp /\ \A j \in Inst : j # i => inst'[j] = inst[j]  BY <2>1, <2>3
  <2>8. \A j \in Inst : ~(j # i /\ C!Is(j) /\ inst[j].at = inst[i].at)
    BY <2>1 DEF C!Viewed, C!At
  <2> QED  BY ONLY ConLegal, ConInv, i \in Inst, <2>2, <2>4, <2>5, <2>6, <2>7, <2>8, Refresh
<1>8. ASSUME NEW i \in Inst, NEW k \in Inst, C!CopyMove(i, k) PROVE ConInv'
  <2> DEFINE e == C!Emptied(i)
             a == inst[i].at
             b == inst[k].at
  <2>1. /\ i # k /\ C!Is(i) /\ C!Is(k) /\ inst[k].ready /\ a # b /\ cpp' = cpp
        /\ live' = [e EXCEPT ![a] = @ + (IF e[b] > 0 THEN 1 ELSE 0)]
        /\ inst' = [inst EXCEPT ![i].ready = TRUE,
                                ![i].destruct = IF C!Keeps(i) THEN @ ELSE TRUE]
    BY <1>8 DEF C!CopyMove, ConLegal
  <2>2. /\ a \in C!Storage /\ b \in C!Storage
        /\ e = IF inst[i].ready THEN [live EXCEPT ![a] = @ - 1] ELSE live
    BY <2>1, <1>a DEF C!Emptied
  <2>3. live[b] = 1
    <3>1. CASE Root(k)  BY <3>1, <2>1, <1>b
    <3>2. CASE ~Root(k)
      <4>1. b \in cpp \/ View(k)  BY <3>2, <2>1 DEF Root, View
      <4>2. b \in cpp \/ Full(b)  BY <4>1, <1>0 DEF ConViews
      <4> QED  BY <4>2, <2>2, <1>0 DEF ConLive
    <3> QED  BY <3>1, <3>2
  <2>4. /\ e \in [C!Storage -> Int] /\ e[b] = 1
        /\ e[a] = IF inst[i].ready THEN live[a] - 1 ELSE live[a]
        /\ \A s \in C!Storage : s # a => e[s] = live[s]
    <3>1. CASE inst[i].ready
      <4>1. e = [live EXCEPT ![a] = @ - 1]  BY <3>1, <2>2
      <4> HIDE DEF e, a, b
      <4> QED  BY <3>1, <4>1, <2>1, <2>2, <2>3, <1>a
    <3>2. CASE ~inst[i].ready
      <4>1. e = live  BY <3>2, <2>2
      <4> HIDE DEF e, a, b
      <4> QED  BY <3>2, <4>1, <2>1, <2>2, <2>3, <1>a
    <3> QED  BY <3>1, <3>2
  <2>5. /\ inst'[i] = [inst[i] EXCEPT !.ready = TRUE,
                                      !.destruct = IF C!Keeps(i) THEN @ ELSE TRUE]
        /\ \A j \in Inst : j # i => inst'[j] = inst[j]
    BY <2>1, <1>a
  <2>6. /\ inst'[i] \in ConRec /\ inst'[i].ready = TRUE
        /\ inst[i].ready => inst'[i].destruct = inst[i].destruct
        /\ ~inst[i].ready => inst'[i].destruct = TRUE
        /\ inst'[i].at = inst[i].at /\ inst'[i].parent = inst[i].parent
    <3> DEFINE d == IF C!Keeps(i) THEN inst[i].destruct ELSE TRUE
    <3>1. /\ d \in BOOLEAN
          /\ inst[i].ready => d = inst[i].destruct
          /\ ~inst[i].ready => d = TRUE
      BY <2>1, <1>a DEF C!Keeps
    <3>2. inst'[i] = [inst[i] EXCEPT !.ready = TRUE, !.destruct = d]  BY <2>5
    <3>3. inst[i] \in ConRec  BY <2>1, <1>a
    <3> HIDE DEF d
    <3>4. /\ inst'[i] \in ConRec /\ inst'[i].ready = TRUE /\ inst'[i].destruct = d
          /\ inst'[i].at = inst[i].at /\ inst'[i].parent = inst[i].parent
      BY <3>1, <3>2, <3>3 DEF ConRec
    <3> QED  BY <3>1, <3>4
  <2>7. inst' \in [Inst -> ConRec \cup {None}]
    <3>1. DOMAIN inst' = Inst /\ inst' = [j \in Inst |-> inst'[j]]
      BY <2>1, <1>a
    <3>2. \A j \in Inst : inst'[j] \in ConRec \cup {None}  BY <2>5, <2>6, <1>a
    <3> QED  BY <3>1, <3>2
  <2>8. /\ live' \in [C!Storage -> Int] /\ live'[a] = e[a] + 1
        /\ \A s \in C!Storage : s # a => live'[s] = live[s]
    <3>1. live' = [e EXCEPT ![a] = @ + 1]  BY <2>1, <2>4
    <3> HIDE DEF e, a, b
    <3> QED  BY <3>1, <2>2, <2>4
  <2>9. CASE Root(i)
    <3>1. inst'[i].ready <=> inst'[i].destruct
      BY <2>1, <2>6, <2>9, <1>b
    <3>2. live'[inst[i].at] = 1
      <4>1. e[a] = 0  BY <2>1, <2>4, <2>9, <1>a, <1>b
      <4> HIDE DEF e
      <4> QED  BY <2>8, <4>1
    <3>3. /\ C!Is(i) /\ cpp' = cpp /\ \A j \in Inst : j # i => inst'[j] = inst[j]
          /\ live' \in [C!Storage -> Int]
          /\ \A s \in C!Storage : s # inst[i].at => live'[s] = live[s]
      BY <2>1, <2>5, <2>8
    <3> QED  BY ONLY ConLegal, ConInv, i \in Inst, <2>6, <2>7, <2>9, <3>1, <3>2, <3>3, Refresh
  <2>10. CASE ~Root(i)
    <3>1. inst'[i].ready /\ ~inst'[i].destruct  BY <2>1, <2>6, <2>10, <1>c
    <3>2. live'[inst[i].at] = live[inst[i].at]
      <4>1. e[a] = live[a] - 1  BY <2>1, <2>4, <2>10, <1>c
      <4>2. live[a] \in Int  BY <2>2, <1>a
      <4> HIDE DEF e
      <4> QED  BY <2>8, <4>1, <4>2
    <3>3. /\ C!Is(i) /\ cpp' = cpp /\ \A j \in Inst : j # i => inst'[j] = inst[j]
          /\ live' \in [C!Storage -> Int]
          /\ \A s \in C!Storage : s # inst[i].at => live'[s] = live[s]
      BY <2>1, <2>5, <2>8
    <3> QED  BY ONLY ConLegal, ConInv, i \in Inst, <2>6, <2>7, <2>10, <3>1, <3>2, <3>3, Refresh
  <2> QED  BY <2>9, <2>10
<1>9. ASSUME NEW i \in Inst, C!Dealloc(i) PROVE ConInv'
  <2>1. /\ C!Is(i) /\ \A j \in Inst : C!Is(j) => inst[j].parent # i
        /\ inst' = [inst EXCEPT ![i] = None] /\ cpp' = cpp
        /\ inst[i].destruct => live' = [live EXCEPT ![inst[i].at] = @ - 1]
        /\ ~inst[i].destruct => live' = live
    BY <1>9 DEF C!Dealloc
  <2>2. /\ inst' \in [Inst -> ConRec \cup {None}] /\ inst'[i] = None
        /\ \A j \in Inst : j # i => inst'[j] = inst[j]
    BY <2>1, <1>a
  <2>3. inst[i].at \in C!Storage  BY <2>1, <1>a
  <2>4. /\ live' \in [C!Storage -> Int]
        /\ live'[inst[i].at] = IF inst[i].destruct THEN live[inst[i].at] - 1
                               ELSE live[inst[i].at]
        /\ \A s \in C!Storage : s # inst[i].at => live'[s] = live[s]
    <3>1. CASE inst[i].destruct
      <4>1. live' = [live EXCEPT ![inst[i].at] = @ - 1]  BY <2>1, <3>1
      <4> QED  BY <3>1, <4>1, <2>3, <1>a
    <3>2. CASE ~inst[i].destruct  BY <2>1, <3>2, <1>a
    <3> QED  BY <3>1, <3>2
  <2>5. C!Is(i) /\ cpp' = cpp /\ \A j \in Inst : C!Is(j) => inst[j].parent # i  BY <2>1
  <2> QED  BY ONLY ConLegal, ConInv, i \in Inst, <2>2, <2>4, <2>5, Leaves
<1>10. ASSUME NEW c \in Cell, C!CppNew(c) PROVE ConInv'
  <2>1. /\ C!At(c) = {} /\ live' = [live EXCEPT ![c] = 1] /\ cpp' = cpp \cup {c} /\ inst' = inst
    BY <1>10 DEF C!CppNew
  <2>2. \A j \in Inst : C!Is(j) => inst[j].at # c  BY <2>1 DEF C!At
  <2>3. c \in C!Storage  BY DEF C!Storage
  <2>4. /\ live' \in [C!Storage -> Int] /\ live'[c] = IF c \in cpp' THEN 1 ELSE 0
        /\ \A s \in C!Storage : s # c => live'[s] = live[s]
    BY <2>1, <2>3, <1>a
  <2>5. inst' = inst /\ cpp' \subseteq Cell /\ \A x \in Cell : x # c => (x \in cpp' <=> x \in cpp)
    BY <2>1, <1>0 DEF ConTypes
  <2> QED  BY ONLY ConLegal, ConInv, c \in Cell, <2>2, <2>4, <2>5, CppOnly
<1>11. ASSUME NEW c \in Cell, C!CppDelete(c) PROVE ConInv'
  <2>1. /\ C!At(c) = {} /\ live' = [live EXCEPT ![c] = @ - 1] /\ cpp' = cpp \ {c} /\ inst' = inst
        /\ c \in cpp
    BY <1>11 DEF C!CppDelete
  <2>2. \A j \in Inst : C!Is(j) => inst[j].at # c  BY <2>1 DEF C!At
  <2>3. c \in C!Storage /\ live[c] = 1  BY <2>1, <1>0 DEF C!Storage, ConLive
  <2>4. /\ live' \in [C!Storage -> Int] /\ live'[c] = IF c \in cpp' THEN 1 ELSE 0
        /\ \A s \in C!Storage : s # c => live'[s] = live[s]
    BY <2>1, <2>3, <1>a
  <2>5. inst' = inst /\ cpp' \subseteq Cell /\ \A x \in Cell : x # c => (x \in cpp' <=> x \in cpp)
    BY <2>1, <1>0 DEF ConTypes
  <2> QED  BY ONLY ConLegal, ConInv, c \in Cell, <2>2, <2>4, <2>5, CppOnly
<1> QED
  BY <1>1, <1>3, <1>4, <1>5, <1>6, <1>7, <1>8, <1>9, <1>10, <1>11, ViewArrives DEF C!Next

LEMMA ConExact == ASSUME ConInv PROVE C!ContentsExact
<1> SUFFICES ASSUME NEW s \in C!Storage
             PROVE  live[s] \in 0..1 /\ (C!Ready(s) # {} => live[s] = 1)
    BY DEF C!ContentsExact
<1>0. ConTypes /\ ConRoots /\ ConViews /\ ConLive  BY DEF ConInv
<1>1. live[s] = IF s \in cpp \/ Full(s) THEN 1 ELSE 0  BY <1>0 DEF ConLive
<1>2. ASSUME NEW i \in Inst, C!Is(i), inst[i].at = s, inst[i].ready PROVE s \in cpp \/ Full(s)
  <2>1. CASE Root(i)  BY <1>2, <2>1 DEF Full
  <2>2. CASE ~Root(i) /\ s \notin cpp
    <3>1. View(i)  BY <1>2, <2>2 DEF Root, View
    <3> QED  BY <1>2, <2>2, <3>1, <1>0 DEF ConViews
  <2> QED  BY <2>1, <2>2
<1>3. C!Ready(s) # {} => s \in cpp \/ Full(s)  BY <1>2 DEF C!Ready, C!At
<1> QED  BY <1>1, <1>3

\* The operator that InstanceContents takes from FiniteSets is the one of this module.
LEMMA ConCardinality == \A S : C!Cardinality(S) = Cardinality(S)
BY DEF Cardinality, C!Cardinality

LEMMA ConOne == ASSUME ConInv PROVE C!OneDestroyer
<1> SUFFICES ASSUME NEW s \in C!Storage
             PROVE  live[s] = C!Cardinality(C!Owners(s)) + (IF s \in cpp THEN 1 ELSE 0)
    BY DEF C!OneDestroyer
<1>0. ConTypes /\ ConRoots /\ ConViews /\ ConLive  BY DEF ConInv
<1>1. live[s] = IF s \in cpp \/ Full(s) THEN 1 ELSE 0  BY <1>0 DEF ConLive
<1>2. \A i : i \in C!Owners(s) <=> i \in Inst /\ Root(i) /\ inst[i].at = s /\ inst[i].ready
  BY <1>0 DEF C!Owners, C!At, ConRoots, ConViews, Root
<1>3. CASE ~Full(s)
  <2>1. C!Owners(s) = {}  BY <1>2, <1>3 DEF Full
  <2>2. C!Cardinality(C!Owners(s)) = 0  BY <2>1, FS_EmptySet, ConCardinality
  <2> QED  BY <1>1, <1>3, <2>2
<1>4. CASE Full(s)
  <2>1. PICK r \in Inst : Root(r) /\ inst[r].at = s /\ inst[r].ready  BY <1>4 DEF Full
  <2>2. C!Owners(s) = {r}  BY <1>0, <1>2, <2>1 DEF ConRoots
  <2>3. C!Cardinality(C!Owners(s)) = 1  BY <2>2, FS_Singleton, ConCardinality
  <2>4. s \notin cpp  BY <2>1 DEF Root
  <2> QED  BY <1>1, <1>4, <2>3, <2>4
<1> QED  BY <1>3, <1>4

\* An instance is ready exactly when there is one C++ object where it points, through
\* every sequence of nb::inst_* calls: none is destroyed twice, constructed over
\* another, or read after its destructor (nb_type.cpp:2554-2658).
THEOREM ContentsRight == ASSUME ConLegal PROVE C!Spec => []C!ContentsExact
<1>1. C!Init => ConInv  BY ConInit
<1>2. ConInv /\ [C!Next]_(C!conVars) => ConInv'  BY ConStep
<1>3. ConInv => C!ContentsExact  BY ConExact
<1> QED  BY <1>1, <1>2, <1>3, PTL DEF C!Spec

\* Whatever lives has one owner, who destroys it: C++, or one instance
\* (nb_type.cpp:2611-2630).
THEOREM DestroyedOnce == ASSUME ConLegal PROVE C!Spec => []C!OneDestroyer
<1>1. C!Init => ConInv  BY ConInit
<1>2. ConInv /\ [C!Next]_(C!conVars) => ConInv'  BY ConStep
<1>3. ConInv => C!OneDestroyer  BY ConOne
<1> QED  BY <1>1, <1>2, <1>3, PTL DEF C!Spec

-----------------------------------------------------------------------------
(* Arrays.                                                                       *)

ArrLegal == /\ IsFiniteSet(Handle) /\ IsFiniteSet(Tensor) /\ IsFiniteSet(Obj)
            /\ Handle \cap Obj = {} /\ None \notin Handle \cup Tensor \cup Obj

ObjKinds == {"none", "data", "array", "capsule", "used", "view"}
HandleRec == [rc : Int, cpp : Nat, owner : Obj \cup {None}, self : Obj \cup {None},
              t : Tensor \cup {None}, call_deleter : BOOLEAN, lent : BOOLEAN]
TensorRec == [ctx : Handle \cup Obj \cup {None}, data : Obj \cup {None}]
ObjRec == [kind : ObjKinds, h : Handle \cup {None}, t : Tensor \cup {None},
           base : Obj \cup {None}]
ImportRec == [src : Obj \cup {None}, capsule : Obj \cup {None}, t : Tensor \cup {None}]
ArrTypes ==
    /\ handle \in [Handle -> HandleRec] /\ tensor \in [Tensor -> TensorRec]
    /\ obj \in [Obj -> ObjRec] /\ counts \in [Obj -> Int]
    /\ held \subseteq Obj /\ import \in ImportRec

\* The tensor that an object or a handle will delete, and the handle or object that
\* loses a reference when it goes.
Clients == Obj \cup Handle
Claim(x) == IF x \in Obj THEN IF obj[x].kind \in {"capsule", "view"} THEN obj[x].t ELSE None
            ELSE IF handle[x].call_deleter THEN handle[x].t ELSE None
Use(x) == IF x \in Obj /\ obj[x].kind = "array" THEN obj[x].h
          ELSE IF Claim(x) \in Tensor THEN tensor[Claim(x)].ctx ELSE None

\* How often a function has a value.
Times(g, S, v) == Cardinality({x \in S : g[x] = v})
One(a, b) == IF a = b THEN 1 ELSE 0

uses == [x \in Clients |-> Use(x)]
owners == [h \in Handle |-> handle[h].owner]
selves == [h \in Handle |-> handle[h].self]
ctxs == [t \in Tensor |-> tensor[t].ctx]
bases == [o \in Obj |-> obj[o].base]

Alike(o) ==     \* what an object of each kind refers to
    /\ obj[o].kind = "none" => obj[o] = N!NoObj
    /\ obj[o].kind = "array" => obj[o].h \in Handle
    /\ obj[o].kind = "capsule" => obj[o].t \in Tensor
    /\ obj[o].t # None => obj[o].base = None
    /\ obj[o].base # None => obj[o].kind = "view"
ObjsRight == \A o \in Obj : Alike(o)
Shaped(h) ==
    /\ handle[h].t = None => handle[h] = N!NoHandle
    /\ handle[h].t # None =>
          /\ (handle[h].call_deleter <=> tensor[handle[h].t].ctx # h)
          /\ tensor[handle[h].t] # N!NoTensor
          /\ handle[h].owner \in {None, tensor[handle[h].t].data}
    /\ handle[h].self # None =>
          handle[h].owner = None /\ obj[handle[h].self].kind \in {"data", "array"}
    /\ handle[h].owner # None => obj[handle[h].owner].kind = "data"
HandlesRight == \A h \in Handle : Shaped(h)
Formed(t) ==
    /\ (tensor[t].ctx = None \/ tensor[t].data = None) => tensor[t] = N!NoTensor
    /\ tensor[t].ctx \in Obj =>
          tensor[t].data = tensor[t].ctx /\ obj[tensor[t].ctx].kind = "data"
TensorsRight == \A t \in Tensor : Formed(t)
\* A claimed tensor exists; all but the own tensor of a handle are claimed once.
OwnOf(t) == tensor[t].ctx \in Handle /\ handle[tensor[t].ctx].t = t
ClaimsRight == \A x \in Clients : Claim(x) # None =>
    /\ tensor[Claim(x)] # N!NoTensor
    /\ tensor[Claim(x)].ctx \in Handle =>
          tensor[Claim(x)].data = tensor[handle[tensor[Claim(x)].ctx].t].data
    /\ \A y \in Clients : Claim(y) = Claim(x) => x = y \/ OwnOf(Claim(x))
\* Whoever uses a handle relies on its owner, unless C++ code insisted on a reference.
Founded(h) == (\E x \in Clients : Use(x) = h) =>
    handle[h].lent \/ handle[h].owner = tensor[handle[h].t].data
UsesRight == \A h \in Handle : Founded(h)
ImportRight == import # N!NoImport =>
    /\ import.src \in held /\ import.t \in Tensor
    /\ obj[import.src].kind \in {"data", "array"}
    /\ import.capsule # None =>
          /\ obj[import.capsule].kind = "capsule" /\ obj[import.capsule].t = import.t
          /\ import.capsule \notin held
    /\ import.capsule = None =>
          /\ tensor[import.t].ctx = import.src
          /\ \A x \in Clients : Claim(x) # import.t
RcRight == \A h \in Handle : handle[h].rc = handle[h].cpp + Times(uses, Clients, h)
RefsRight == \A o \in Obj : counts[o] =
    (IF o \in held THEN 1 ELSE 0) + Times(owners, Handle, o) + Times(selves, Handle, o)
        + Times(ctxs, Tensor, o) + Times(bases, Obj, o) + One(import.capsule, o)

ArrInv == /\ ArrTypes /\ ObjsRight /\ HandlesRight /\ TensorsRight /\ ClaimsRight /\ UsesRight
          /\ ImportRight /\ RcRight /\ RefsRight /\ ~aborted

LEMMA TimesNat ==
    ASSUME NEW S, IsFiniteSet(S), NEW g
    PROVE  /\ \A v : Times(g, S, v) \in Nat
           /\ \A v : Times(g, S, v) = 0 => \A x \in S : g[x] # v
<1> SUFFICES ASSUME NEW v
             PROVE  /\ Times(g, S, v) \in Nat
                    /\ Times(g, S, v) = 0 => \A x \in S : g[x] # v
    OBVIOUS
<1> DEFINE T == {x \in S : g[x] = v}
<1>1. IsFiniteSet(T)  BY FS_Subset
<1>2. Cardinality(T) \in Nat /\ (Cardinality(T) = 0 <=> T = {})
  BY <1>1, FS_CardinalityType, FS_EmptySet
<1> QED  BY <1>2 DEF Times

\* Functions that agree on a set, but for an element.
Same(e, g, S) == \A x \in S : g[x] = e[x]
Moved(e, g, S, x) == IsFiniteSet(S) /\ x \in S /\ \A y \in S : y # x => g[y] = e[y]

LEMMA TimesSame ==
    ASSUME NEW S, NEW e, NEW g, Same(e, g, S)
    PROVE  \A v : Times(g, S, v) = Times(e, S, v)
<1> SUFFICES ASSUME NEW v PROVE Times(g, S, v) = Times(e, S, v)
    OBVIOUS
<1>1. {x \in S : g[x] = v} = {x \in S : e[x] = v}  BY DEF Same
<1> QED  BY <1>1 DEF Times

LEMMA TimesMove ==
    ASSUME NEW S, NEW e, NEW g, NEW x, Moved(e, g, S, x)
    PROVE  \A v : Times(g, S, v) = Times(e, S, v) + One(g[x], v) - One(e[x], v)
<1> SUFFICES ASSUME NEW v
             PROVE  Times(g, S, v) = Times(e, S, v) + One(g[x], v) - One(e[x], v)
    OBVIOUS
<1> DEFINE R == {y \in S : y # x /\ e[y] = v}
           E == {y \in S : e[y] = v}
           M == {y \in S : g[y] = v}
<1>1. IsFiniteSet(R) /\ x \notin R /\ Cardinality(R) \in Nat
  BY FS_Subset, FS_CardinalityType DEF Moved
<1>2. Cardinality(R \cup {x}) = Cardinality(R) + 1  BY <1>1, FS_AddElement
<1>3. E = IF e[x] = v THEN R \cup {x} ELSE R  BY DEF Moved
<1>4. M = IF g[x] = v THEN R \cup {x} ELSE R  BY DEF Moved
<1>5. Cardinality(E) = Cardinality(R) + One(e[x], v)  BY <1>1, <1>2, <1>3 DEF One
<1>6. Cardinality(M) = Cardinality(R) + One(g[x], v)  BY <1>1, <1>2, <1>4 DEF One
<1>7. One(e[x], v) \in Int /\ One(g[x], v) \in Int  BY DEF One
<1> HIDE DEF E, M, R
<1>8. Cardinality(M) = Cardinality(E) + One(g[x], v) - One(e[x], v)  BY <1>1, <1>5, <1>6, <1>7
<1> QED  BY <1>8 DEF Times, E, M

LEMMA ClientsFinite == ASSUME ArrLegal PROVE IsFiniteSet(Clients)
BY FS_Union DEF Clients, ArrLegal

\* One reference changes.
LEMMA OwnersMove ==
    ASSUME ArrLegal, NEW h \in Handle,
           \A g \in Handle : g # h => handle'[g].owner = handle[g].owner
    PROVE  \A o : Times(owners', Handle, o) =
               Times(owners, Handle, o) + One(handle'[h].owner, o) - One(handle[h].owner, o)
<1>1. /\ Moved(owners, owners', Handle, h)
      /\ owners'[h] = handle'[h].owner /\ owners[h] = handle[h].owner
  BY DEF Moved, owners, ArrLegal
<1> QED  BY <1>1, TimesMove
LEMMA OwnersSame ==
    ASSUME \A g \in Handle : handle'[g].owner = handle[g].owner
    PROVE  \A o : Times(owners', Handle, o) = Times(owners, Handle, o)
<1>1. Same(owners, owners', Handle)  BY DEF Same, owners
<1> QED  BY <1>1, TimesSame
LEMMA SelvesMove ==
    ASSUME ArrLegal, NEW h \in Handle,
           \A g \in Handle : g # h => handle'[g].self = handle[g].self
    PROVE  \A o : Times(selves', Handle, o) =
               Times(selves, Handle, o) + One(handle'[h].self, o) - One(handle[h].self, o)
<1>1. /\ Moved(selves, selves', Handle, h)
      /\ selves'[h] = handle'[h].self /\ selves[h] = handle[h].self
  BY DEF Moved, selves, ArrLegal
<1> QED  BY <1>1, TimesMove
LEMMA SelvesSame ==
    ASSUME \A g \in Handle : handle'[g].self = handle[g].self
    PROVE  \A o : Times(selves', Handle, o) = Times(selves, Handle, o)
<1>1. Same(selves, selves', Handle)  BY DEF Same, selves
<1> QED  BY <1>1, TimesSame
LEMMA CtxsMove ==
    ASSUME ArrLegal, NEW t \in Tensor,
           \A s \in Tensor : s # t => tensor'[s].ctx = tensor[s].ctx
    PROVE  \A o : Times(ctxs', Tensor, o) =
               Times(ctxs, Tensor, o) + One(tensor'[t].ctx, o) - One(tensor[t].ctx, o)
<1>1. /\ Moved(ctxs, ctxs', Tensor, t)
      /\ ctxs'[t] = tensor'[t].ctx /\ ctxs[t] = tensor[t].ctx
  BY DEF Moved, ctxs, ArrLegal
<1> QED  BY <1>1, TimesMove
LEMMA CtxsSame ==
    ASSUME tensor' = tensor
    PROVE  \A o : Times(ctxs', Tensor, o) = Times(ctxs, Tensor, o)
BY DEF ctxs
LEMMA BasesMove ==
    ASSUME ArrLegal, NEW v \in Obj,
           \A w \in Obj : w # v => obj'[w].base = obj[w].base
    PROVE  \A o : Times(bases', Obj, o) =
               Times(bases, Obj, o) + One(obj'[v].base, o) - One(obj[v].base, o)
<1>1. /\ Moved(bases, bases', Obj, v)
      /\ bases'[v] = obj'[v].base /\ bases[v] = obj[v].base
  BY DEF Moved, bases, ArrLegal
<1> QED  BY <1>1, TimesMove
LEMMA BasesSame ==
    ASSUME \A w \in Obj : obj'[w].base = obj[w].base
    PROVE  \A o : Times(bases', Obj, o) = Times(bases, Obj, o)
<1>1. Same(bases, bases', Obj)  BY DEF Same, bases
<1> QED  BY <1>1, TimesSame
LEMMA UsesMove ==
    ASSUME ArrLegal, NEW x \in Clients, \A y \in Clients : y # x => Use(y)' = Use(y)
    PROVE  \A h : Times(uses', Clients, h) =
               Times(uses, Clients, h) + One(Use(x)', h) - One(Use(x), h)
<1>1. /\ Moved(uses, uses', Clients, x) /\ uses'[x] = Use(x)' /\ uses[x] = Use(x)
  BY ClientsFinite DEF Moved, uses
<1> QED  BY <1>1, TimesMove
LEMMA UsesSame ==
    ASSUME \A y \in Clients : Use(y)' = Use(y)
    PROVE  \A h : Times(uses', Clients, h) = Times(uses, Clients, h)
<1>1. Same(uses, uses', Clients)  BY DEF Same, uses
<1> QED  BY <1>1, TimesSame
\* A use passes from one client to another.
LEMMA UsesPass ==
    ASSUME ArrLegal, NEW x \in Clients, NEW z \in Clients, x # z,
           \A y \in Clients : y # x /\ y # z => Use(y)' = Use(y),
           Use(x)' = None, Use(z) = None, Use(z)' = Use(x)
    PROVE  \A h : h # None => Times(uses', Clients, h) = Times(uses, Clients, h)
<1> DEFINE k == [uses EXCEPT ![x] = None]
<1>1. /\ \A y \in Clients : y # x => k[y] = uses[y]
      /\ \A y \in Clients : y # z => uses'[y] = k[y]
      /\ k[x] = None /\ uses[x] = Use(x) /\ k[z] = None /\ uses'[z] = Use(x)
  BY DEF uses
<1> HIDE DEF k
<1>2. Moved(uses, k, Clients, x) /\ Moved(k, uses', Clients, z)
  BY <1>1, ClientsFinite DEF Moved
<1>3. \A h : Times(k, Clients, h) = Times(uses, Clients, h) + One(k[x], h) - One(uses[x], h)
  BY <1>2, TimesMove
<1>4. \A h : Times(uses', Clients, h) = Times(k, Clients, h) + One(uses'[z], h) - One(k[z], h)
  BY <1>2, TimesMove
<1>5. \A h : Times(k, Clients, h) \in Nat /\ Times(uses, Clients, h) \in Nat
  BY ClientsFinite, TimesNat
<1> QED  BY <1>1, <1>3, <1>4, <1>5 DEF One

\* Nobody refers to an object, or uses a handle, with a count of zero.
LEMMA CountNat ==
    ASSUME ArrLegal
    PROVE  /\ \A h : Times(uses, Clients, h) \in Nat
           /\ \A o : /\ Times(owners, Handle, o) \in Nat /\ Times(selves, Handle, o) \in Nat
                     /\ Times(ctxs, Tensor, o) \in Nat /\ Times(bases, Obj, o) \in Nat
BY ClientsFinite, TimesNat DEF ArrLegal
LEMMA Unreferred ==
    ASSUME ArrLegal, ArrInv, NEW o \in Obj, counts[o] = 0
    PROVE  /\ o \notin held /\ import.capsule # o
           /\ \A h \in Handle : handle[h].owner # o /\ handle[h].self # o
           /\ \A t \in Tensor : tensor[t].ctx # o
           /\ \A v \in Obj : obj[v].base # o
<1>1. 0 = (IF o \in held THEN 1 ELSE 0) + Times(owners, Handle, o) + Times(selves, Handle, o)
              + Times(ctxs, Tensor, o) + Times(bases, Obj, o) + One(import.capsule, o)
  BY DEF ArrInv, RefsRight
<1>2. /\ Times(owners, Handle, o) \in Nat /\ Times(selves, Handle, o) \in Nat
      /\ Times(ctxs, Tensor, o) \in Nat /\ Times(bases, Obj, o) \in Nat
      /\ One(import.capsule, o) \in Nat
  BY CountNat DEF One
<1>3. /\ Times(owners, Handle, o) = 0 /\ Times(selves, Handle, o) = 0
      /\ Times(ctxs, Tensor, o) = 0 /\ Times(bases, Obj, o) = 0
      /\ One(import.capsule, o) = 0 /\ o \notin held
  <2> DEFINE i == IF o \in held THEN 1 ELSE 0
  <2>1. i \in Nat /\ (i = 0 => o \notin held)  OBVIOUS
  <2>2. 0 = i + Times(owners, Handle, o) + Times(selves, Handle, o)
              + Times(ctxs, Tensor, o) + Times(bases, Obj, o) + One(import.capsule, o)
    BY <1>1
  <2> DEFINE a == Times(owners, Handle, o)
             b == Times(selves, Handle, o)
             c == Times(ctxs, Tensor, o)
             d == Times(bases, Obj, o)
             e == One(import.capsule, o)
  <2>4. a \in Nat /\ b \in Nat /\ c \in Nat /\ d \in Nat /\ e \in Nat  BY <1>2
  <2>5. 0 = i + a + b + c + d + e  BY <2>2
  <2> HIDE DEF a, b, c, d, e, i
  <2>6. i = 0 /\ a = 0 /\ b = 0 /\ c = 0 /\ d = 0 /\ e = 0  BY <2>1, <2>4, <2>5
  <2>3. /\ i = 0 /\ Times(owners, Handle, o) = 0 /\ Times(selves, Handle, o) = 0
        /\ Times(ctxs, Tensor, o) = 0 /\ Times(bases, Obj, o) = 0
        /\ One(import.capsule, o) = 0
    BY <2>6 DEF a, b, c, d, e
  <2> QED  BY <2>1, <2>3
<1>4. \A h \in Handle : owners[h] # o /\ selves[h] # o  BY <1>3, TimesNat DEF ArrLegal
<1>5. \A t \in Tensor : ctxs[t] # o  BY <1>3, TimesNat DEF ArrLegal
<1>6. \A v \in Obj : bases[v] # o  BY <1>3, TimesNat DEF ArrLegal
<1>7. import.capsule # o  BY <1>3 DEF One
<1> QED  BY <1>3, <1>4, <1>5, <1>6, <1>7 DEF owners, selves, ctxs, bases
LEMMA Unattended ==
    ASSUME ArrLegal, ArrInv, NEW h \in Handle, handle[h].rc = 0
    PROVE  handle[h].cpp = 0 /\ \A x \in Clients : Use(x) # h
<1>1. handle[h].cpp \in Nat /\ Times(uses, Clients, h) \in Nat
  BY CountNat DEF ArrInv, ArrTypes, HandleRec
<1>2. handle[h].rc = handle[h].cpp + Times(uses, Clients, h)  BY DEF ArrInv, RcRight
<1>3. handle[h].cpp = 0 /\ Times(uses, Clients, h) = 0  BY <1>1, <1>2
<1>4. \A x \in Clients : uses[x] # h  BY <1>3, ClientsFinite, TimesNat
<1> QED  BY <1>3, <1>4 DEF uses
LEMMA Attended ==
    ASSUME ArrLegal, ArrInv, NEW h \in Handle, NEW x \in Clients, Use(x) = h
    PROVE  handle[h].rc # 0 /\ handle[h].t # None
<1>1. handle[h].rc # 0  BY Unattended
<1> QED  BY <1>1 DEF ArrInv, HandlesRight, Shaped, N!NoHandle

LEMMA ArrFacts ==
    ASSUME ArrLegal, ArrInv
    PROVE  /\ \A h \in Handle :
                 /\ handle[h].rc \in Int /\ handle[h].cpp \in Nat
                 /\ handle[h].owner \in Obj \cup {None} /\ handle[h].self \in Obj \cup {None}
                 /\ handle[h].t \in Tensor \cup {None}
           /\ \A t \in Tensor : /\ tensor[t].ctx \in Handle \cup Obj \cup {None}
                                /\ tensor[t].data \in Obj \cup {None}
           /\ \A o \in Obj : /\ obj[o].h \in Handle \cup {None} /\ obj[o].t \in Tensor \cup {None}
                             /\ obj[o].base \in Obj \cup {None} /\ counts[o] \in Int
           /\ \A x \in Clients : /\ Claim(x) \in Tensor \cup {None}
                                 /\ Use(x) \in Handle \cup Obj \cup {None}
<1>1. /\ \A h \in Handle :
               /\ handle[h].rc \in Int /\ handle[h].cpp \in Nat
               /\ handle[h].owner \in Obj \cup {None} /\ handle[h].self \in Obj \cup {None}
               /\ handle[h].t \in Tensor \cup {None}
      /\ \A t \in Tensor : /\ tensor[t].ctx \in Handle \cup Obj \cup {None}
                           /\ tensor[t].data \in Obj \cup {None}
      /\ \A o \in Obj : /\ obj[o].h \in Handle \cup {None} /\ obj[o].t \in Tensor \cup {None}
                        /\ obj[o].base \in Obj \cup {None} /\ counts[o] \in Int
  BY DEF ArrInv, ArrTypes, HandleRec, TensorRec, ObjRec
<1>2. \A x \in Clients : Claim(x) \in Tensor \cup {None}
  BY <1>1 DEF Claim, Clients
<1>3. \A x \in Clients : Use(x) \in Handle \cup Obj \cup {None}
  BY <1>1, <1>2 DEF Use
<1> QED  BY <1>1, <1>2, <1>3

\* What only counts, or only refers, disturbs little.
LEMMA ArrStill ==
    ASSUME ArrLegal, ArrInv, tensor' = tensor, obj' = obj, import' = import,
           \A h \in Handle :
               /\ handle'[h].owner = handle[h].owner /\ handle'[h].self = handle[h].self
               /\ handle'[h].t = handle[h].t /\ handle'[h].lent = handle[h].lent
               /\ handle'[h].call_deleter = handle[h].call_deleter
               /\ handle[h].t = None => handle'[h] = handle[h],
           import # N!NoImport => import.src \in held' /\ import.capsule \notin held'
    PROVE  /\ ObjsRight' /\ HandlesRight' /\ TensorsRight' /\ ClaimsRight' /\ UsesRight'
           /\ ImportRight'
           /\ \A x \in Clients : Claim(x)' = Claim(x) /\ Use(x)' = Use(x)
<1>1. ObjsRight' /\ TensorsRight'
  BY DEF ArrInv, ObjsRight, Alike, TensorsRight, Formed
<1>2. \A x \in Clients : Claim(x)' = Claim(x)  BY DEF Clients, Claim
<1>3. \A x \in Clients : Use(x)' = Use(x)  BY <1>2 DEF Use
<1>4. HandlesRight'  BY DEF ArrInv, HandlesRight, Shaped
<1>5. ClaimsRight'  BY <1>2 DEF ArrInv, ClaimsRight, OwnOf
<1>6. UsesRight'  BY <1>3 DEF ArrInv, UsesRight, Founded
<1>7. ImportRight'
  <2>1. import' = import /\ \A x \in Clients : Claim(x)' = Claim(x)  BY <1>2
  <2> QED  BY <2>1 DEF ArrInv, ImportRight
<1> QED  BY <1>1, <1>2, <1>3, <1>4, <1>5, <1>6, <1>7

LEMMA CopyArrayInv ==
    ASSUME ArrLegal, ArrInv, NEW h \in Handle, N!CopyArray(h) \/ N!DropArray(h) PROVE ArrInv'
<1>1. PICK i \in {1, 0 - 1} :
        /\ handle[h].cpp + i \in Nat
        /\ handle' = [handle EXCEPT ![h].rc = @ + i, ![h].cpp = @ + i]
  <2>1. CASE N!CopyArray(h)
    BY <2>1, ArrFacts DEF N!CopyArray
  <2>2. CASE N!DropArray(h)
    <3>1. handle[h].rc \in Int /\ handle[h].cpp \in Nat  BY ArrFacts
    <3> DEFINE i == 0 - 1
    <3>2. handle[h].rc - 1 = handle[h].rc + i /\ handle[h].cpp - 1 = handle[h].cpp + i
      BY <3>1
    <3>3. handle' = [handle EXCEPT ![h].rc = @ + i, ![h].cpp = @ + i]
      BY <2>2, <3>2 DEF N!DropArray
    <3>4. handle[h].cpp + i \in Nat  BY <2>2, <3>1 DEF N!DropArray
    <3>5. i \in {1, 0 - 1}  OBVIOUS
    <3> HIDE DEF i
    <3> QED  BY <3>3, <3>4, <3>5
  <2> QED  BY <2>1, <2>2
<1>2. /\ tensor' = tensor /\ obj' = obj /\ counts' = counts /\ held' = held /\ import' = import
      /\ handle[h].cpp # 0
  BY ArrFacts DEF N!CopyArray, N!DropArray
<1>3. handle[h].rc # 0
  <2>1. handle[h].rc = 0 => handle[h].cpp = 0  BY Unattended
  <2> QED  BY <1>2, <2>1
<1>4. ~aborted'
  <2>1. CASE N!CopyArray(h)  BY <2>1 DEF N!CopyArray, ArrInv
  <2>2. CASE N!DropArray(h)  BY <1>3, <2>2 DEF N!DropArray, N!Underflow
  <2> QED  BY <2>1, <2>2
<1>5. /\ handle'[h].rc = handle[h].rc + i /\ handle'[h].cpp = handle[h].cpp + i
      /\ handle'[h].owner = handle[h].owner /\ handle'[h].self = handle[h].self
      /\ handle'[h].t = handle[h].t /\ handle'[h].lent = handle[h].lent
      /\ handle'[h].call_deleter = handle[h].call_deleter
      /\ \A g \in Handle : g # h => handle'[g] = handle[g]
  BY <1>1 DEF ArrInv, ArrTypes, HandleRec
<1>6. handle[h].t # None
  BY <1>2 DEF ArrInv, HandlesRight, Shaped, N!NoHandle
<1>7. ArrTypes'
  <2>1. handle[h].rc + i \in Int /\ handle[h].cpp + i \in Nat /\ handle[h] \in HandleRec
    BY <1>1 DEF ArrInv, ArrTypes, HandleRec
  <2>2. [handle[h] EXCEPT !.rc = @ + i, !.cpp = @ + i] \in HandleRec
    BY <2>1 DEF HandleRec
  <2>3. handle' = [handle EXCEPT ![h] = [handle[h] EXCEPT !.rc = @ + i, !.cpp = @ + i]]
    BY <1>1
  <2>4. handle' \in [Handle -> HandleRec]  BY <2>2, <2>3 DEF ArrInv, ArrTypes
  <2> QED  BY <1>2, <2>4 DEF ArrInv, ArrTypes
<1>8. /\ ObjsRight' /\ HandlesRight' /\ TensorsRight' /\ ClaimsRight' /\ UsesRight'
      /\ ImportRight' /\ \A x \in Clients : Claim(x)' = Claim(x) /\ Use(x)' = Use(x)
  <2>1. import # N!NoImport => import.src \in held' /\ import.capsule \notin held'
    BY <1>2 DEF ArrInv, ImportRight, ArrTypes, ArrLegal
  <2>2. \A g \in Handle :
               /\ handle'[g].owner = handle[g].owner /\ handle'[g].self = handle[g].self
               /\ handle'[g].t = handle[g].t /\ handle'[g].lent = handle[g].lent
               /\ handle'[g].call_deleter = handle[g].call_deleter
               /\ handle[g].t = None => handle'[g] = handle[g]
    BY <1>5, <1>6
  <2> QED  BY <1>2, <2>1, <2>2, ArrStill
<1>9. RcRight'
  <2>1. \A g : Times(uses', Clients, g) = Times(uses, Clients, g)  BY <1>8, UsesSame
  <2>2. ASSUME NEW g \in Handle
        PROVE  handle'[g].rc = handle'[g].cpp + Times(uses', Clients, g)
    <3>1. handle[g].rc = handle[g].cpp + Times(uses, Clients, g)  BY DEF ArrInv, RcRight
    <3>2. handle[g].rc \in Int /\ handle[g].cpp \in Nat /\ Times(uses, Clients, g) \in Nat
      BY ArrFacts, CountNat
    <3> QED  BY <1>5, <2>1, <3>1, <3>2
  <2> QED  BY <2>2 DEF RcRight
<1>10. RefsRight'
  <2>1. /\ \A o : Times(owners', Handle, o) = Times(owners, Handle, o)
        /\ \A o : Times(selves', Handle, o) = Times(selves, Handle, o)
        /\ \A o : Times(ctxs', Tensor, o) = Times(ctxs, Tensor, o)
        /\ \A o : Times(bases', Obj, o) = Times(bases, Obj, o)
    BY <1>2, <1>5, OwnersSame, SelvesSame, CtxsSame, BasesSame
  <2> QED  BY <1>2, <2>1 DEF ArrInv, RefsRight
<1> QED  BY <1>4, <1>7, <1>8, <1>9, <1>10 DEF ArrInv

\* The program drops an object, or gets the array that was imported.
LEMMA HeldInv ==
    ASSUME ArrLegal, ArrInv, handle' = handle, tensor' = tensor, obj' = obj, import' = import,
           aborted' = aborted, NEW o \in Obj, held' \in {held \cup {o}, held \ {o}},
           o \notin held' => o # import.src,
           o \in held' => import.capsule # o,
           counts' = [x \in Obj |-> counts[x] + (IF x \in held' THEN 1 ELSE 0)
                                              - (IF x \in held THEN 1 ELSE 0)]
    PROVE  ArrInv'
<1>1. ArrTypes'
  <2>1. \A x \in Obj : counts'[x] \in Int  BY ArrFacts
  <2>2. counts' \in [Obj -> Int] /\ held' \subseteq Obj  BY <2>1 DEF ArrInv, ArrTypes
  <2> QED  BY <2>2 DEF ArrInv, ArrTypes
<1>2. /\ ObjsRight' /\ HandlesRight' /\ TensorsRight' /\ ClaimsRight' /\ UsesRight'
      /\ ImportRight' /\ \A x \in Clients : Claim(x)' = Claim(x) /\ Use(x)' = Use(x)
  <2>1. import # N!NoImport => import.src \in held' /\ import.capsule \notin held'
    BY DEF ArrInv, ImportRight, ArrTypes, ArrLegal
  <2> QED  BY <2>1, ArrStill
<1>3. RcRight'
  <2>1. \A g : Times(uses', Clients, g) = Times(uses, Clients, g)  BY <1>2, UsesSame
  <2> QED  BY <2>1 DEF ArrInv, RcRight
<1>4. RefsRight'
  <2>1. /\ \A x : Times(owners', Handle, x) = Times(owners, Handle, x)
        /\ \A x : Times(selves', Handle, x) = Times(selves, Handle, x)
        /\ \A x : Times(ctxs', Tensor, x) = Times(ctxs, Tensor, x)
        /\ \A x : Times(bases', Obj, x) = Times(bases, Obj, x)
    BY OwnersSame, SelvesSame, CtxsSame, BasesSame
  <2>2. ASSUME NEW x \in Obj
        PROVE  counts'[x] = (IF x \in held' THEN 1 ELSE 0) + Times(owners', Handle, x)
                   + Times(selves', Handle, x) + Times(ctxs', Tensor, x) + Times(bases', Obj, x)
                   + One(import'.capsule, x)
    <3>1. counts[x] = (IF x \in held THEN 1 ELSE 0) + Times(owners, Handle, x)
              + Times(selves, Handle, x) + Times(ctxs, Tensor, x) + Times(bases, Obj, x)
              + One(import.capsule, x)
      BY DEF ArrInv, RefsRight
    <3>2. One(import.capsule, x) \in Nat  BY DEF One
    <3> QED  BY <2>1, <3>1, <3>2, CountNat
  <2> QED  BY <2>2 DEF RefsRight
<1> QED  BY <1>1, <1>2, <1>3, <1>4 DEF ArrInv

LEMMA DropObjInv ==
    ASSUME ArrLegal, ArrInv, NEW o \in Obj, N!Drop(o) PROVE ArrInv'
<1>1. /\ o \in held /\ o # import.src /\ held' = held \ {o}
      /\ handle' = handle /\ tensor' = tensor /\ obj' = obj /\ import' = import
      /\ aborted' = aborted
      /\ counts' = [x \in Obj |-> counts[x] + N!Count(x \in {}) - N!Count(x \in {o})]
  BY DEF N!Drop, N!Refer
<1>2. counts' = [x \in Obj |-> counts[x] + (IF x \in held' THEN 1 ELSE 0)
                                         - (IF x \in held THEN 1 ELSE 0)]
  <2>1. ASSUME NEW x \in Obj
        PROVE  counts[x] + N!Count(x \in {}) - N!Count(x \in {o})
                   = counts[x] + (IF x \in held' THEN 1 ELSE 0) - (IF x \in held THEN 1 ELSE 0)
    <3>1. counts[x] \in Int  BY ArrFacts
    <3> QED  BY <1>1, <3>1 DEF N!Count
  <2> QED  BY <1>1, <2>1
<1> QED  BY <1>1, <1>2, HeldInv

LEMMA ExportSelfInv ==
    ASSUME ArrLegal, ArrInv, NEW h \in Handle, NEW p, N!ExportSelf(h, p) PROVE ArrInv'
<1> DEFINE o == handle[h].self
<1>1. /\ o # None /\ held' = held \cup {o}
      /\ handle' = handle /\ tensor' = tensor /\ obj' = obj /\ import' = import
      /\ aborted' = aborted
      /\ counts' = [x \in Obj |-> counts[x] + N!Count(x \in {o} \ held) - N!Count(x \in {})]
  BY DEF N!ExportSelf, N!Refer
<1>2. o \in Obj  BY <1>1, ArrFacts
<1>3. counts' = [x \in Obj |-> counts[x] + (IF x \in held' THEN 1 ELSE 0)
                                         - (IF x \in held THEN 1 ELSE 0)]
  <2>1. ASSUME NEW x \in Obj
        PROVE  counts[x] + N!Count(x \in {o} \ held) - N!Count(x \in {})
                   = counts[x] + (IF x \in held' THEN 1 ELSE 0) - (IF x \in held THEN 1 ELSE 0)
    <3>1. counts[x] \in Int  BY ArrFacts
    <3> QED  BY <1>1, <3>1 DEF N!Count
  <2> QED  BY <1>1, <2>1
<1>4. o # import.capsule
  <2>1. obj[o].kind # "capsule"  BY <1>1 DEF ArrInv, HandlesRight, Shaped
  <2> QED  BY <1>2, <2>1 DEF ArrInv, ImportRight, N!NoImport, ArrLegal
<1>5. held' \in {held \cup {o}, held \ {o}} /\ o \in held'  BY <1>1
<1> HIDE DEF o
<1> QED  BY <1>1, <1>2, <1>3, <1>4, <1>5, HeldInv

\* An object appears that neither uses a handle nor deletes a tensor.
LEMMA AppearsInv ==
    ASSUME ArrLegal, ArrInv, handle' = handle, tensor' = tensor, import' = import,
           aborted' = aborted, NEW v \in Obj, N!Free(v), NEW n \in ObjRec,
           obj' = [obj EXCEPT ![v] = n], held' = held \cup {v},
           n.kind \in {"data", "view"}, n.t = None,
           n.base # None => n.kind = "view" /\ n.base # v,
           counts' = [x \in Obj |-> counts[x] + One(v, x) + One(n.base, x)]
    PROVE  ArrInv'
<1>1. /\ obj'[v] = n /\ \A x \in Obj : x # v => obj'[x] = obj[x]
      /\ obj[v] = N!NoObj /\ counts[v] = 0
      /\ obj' \in [Obj -> ObjRec]
  BY DEF ArrInv, ArrTypes, N!Free
<1>2. /\ v \notin held /\ import.capsule # v
      /\ \A h \in Handle : handle[h].owner # v /\ handle[h].self # v
      /\ \A t \in Tensor : tensor[t].ctx # v
      /\ \A x \in Obj : obj[x].base # v
  BY <1>1, Unreferred
<1>3. ArrTypes'
  <2>1. \A x \in Obj : counts'[x] \in Int  BY ArrFacts DEF One
  <2> QED  BY <1>1, <2>1 DEF ArrInv, ArrTypes
<1>4. obj[v].kind = "none" /\ obj[v].base = None  BY <1>1 DEF N!NoObj
<1>5. \A x \in Clients : Claim(x)' = Claim(x) /\ Use(x)' = Use(x)
  <2>1. \A x \in Clients : Claim(x)' = Claim(x)
    BY <1>1, <1>4 DEF Clients, Claim, ArrLegal
  <2>2. \A x \in Clients : Use(x)' = Use(x)  BY <1>1, <1>4, <2>1 DEF Use
  <2> QED  BY <2>1, <2>2
<1>6. ObjsRight'
  <2>1. Alike(v)'
    BY <1>1 DEF Alike
  <2> QED  BY <1>1, <2>1 DEF ArrInv, ObjsRight, Alike
<1>7. HandlesRight' /\ TensorsRight'
  <2>1. \A h \in Handle : Shaped(h)'
    BY <1>1, <1>2, ArrFacts DEF ArrInv, HandlesRight, Shaped
  <2>2. \A t \in Tensor : Formed(t)'
    BY <1>1, <1>2 DEF ArrInv, TensorsRight, Formed
  <2> QED  BY <2>1, <2>2 DEF HandlesRight, TensorsRight
<1>8. ClaimsRight'  BY <1>5 DEF ArrInv, ClaimsRight, OwnOf
<1>9. UsesRight'  BY <1>5 DEF ArrInv, UsesRight, Founded
<1>10. ImportRight'
  <2>1. import' = import /\ \A x \in Clients : Claim(x)' = Claim(x)  BY <1>5
  <2>2. import.capsule # None => import.capsule \in Obj  BY DEF ArrInv, ArrTypes, ImportRec
  <2>3. import # N!NoImport => import.src \in Obj /\ import.src # v
    BY <1>2 DEF ArrInv, ImportRight, ArrTypes
  <2> QED  BY <1>1, <1>2, <2>1, <2>2, <2>3 DEF ArrInv, ImportRight
<1>11. RcRight'
  <2>1. \A g : Times(uses', Clients, g) = Times(uses, Clients, g)  BY <1>5, UsesSame
  <2> QED  BY <2>1 DEF ArrInv, RcRight
<1>12. RefsRight'
  <2>1. /\ \A x : Times(owners', Handle, x) = Times(owners, Handle, x)
        /\ \A x : Times(selves', Handle, x) = Times(selves, Handle, x)
        /\ \A x : Times(ctxs', Tensor, x) = Times(ctxs, Tensor, x)
        /\ \A x : Times(bases', Obj, x) = Times(bases, Obj, x) + One(n.base, x) - One(None, x)
    BY <1>1, <1>4, OwnersSame, SelvesSame, CtxsSame, BasesMove
  <2>2. ASSUME NEW x \in Obj
        PROVE  counts'[x] = (IF x \in held' THEN 1 ELSE 0) + Times(owners', Handle, x)
                   + Times(selves', Handle, x) + Times(ctxs', Tensor, x) + Times(bases', Obj, x)
                   + One(import'.capsule, x)
    <3>1. counts[x] = (IF x \in held THEN 1 ELSE 0) + Times(owners, Handle, x)
              + Times(selves, Handle, x) + Times(ctxs, Tensor, x) + Times(bases, Obj, x)
              + One(import.capsule, x)
      BY DEF ArrInv, RefsRight
    <3>2. One(import.capsule, x) \in Nat /\ One(n.base, x) \in Nat /\ One(None, x) = 0
      BY DEF One, ArrLegal
    <3>3. (IF x \in held' THEN 1 ELSE 0) = (IF x \in held THEN 1 ELSE 0) + One(v, x)
      BY <1>2 DEF One
    <3>4. (IF x \in held THEN 1 ELSE 0) \in Nat /\ One(v, x) \in Nat  BY DEF One
    <3> QED  BY <2>1, <3>1, <3>2, <3>3, <3>4, CountNat
  <2> QED  BY <2>2 DEF RefsRight
<1> QED  BY <1>3, <1>6, <1>7, <1>8, <1>9, <1>10, <1>11, <1>12 DEF ArrInv

LEMMA DataInv ==
    ASSUME ArrLegal, ArrInv, NEW o \in Obj,
           N!NewData(o) \/ \E h \in Handle, p \in N!Policy : N!ExportCopy(h, p, o)
    PROVE  ArrInv'
<1> DEFINE n == [obj[o] EXCEPT !.kind = "data"]
<1>1. /\ N!Free(o) /\ obj' = [obj EXCEPT ![o].kind = "data"] /\ held' = held \cup {o}
      /\ handle' = handle /\ tensor' = tensor /\ import' = import /\ aborted' = aborted
      /\ N!Refer({o}, {})
  BY DEF N!NewData, N!ExportCopy
<1>2. /\ n \in ObjRec /\ n.kind = "data" /\ n.t = None /\ n.base = None
  <2>1. obj[o] \in ObjRec /\ obj[o] = N!NoObj  BY <1>1 DEF N!Free, ArrInv, ArrTypes
  <2>2. n \in ObjRec  BY <2>1 DEF ObjRec, ObjKinds
  <2>3. n.kind = "data" /\ n.t = None /\ n.base = None  BY <2>1 DEF N!NoObj
  <2> QED  BY <2>2, <2>3
<1>3. obj' = [obj EXCEPT ![o] = n]  BY <1>1
<1>4. counts' = [x \in Obj |-> counts[x] + One(o, x) + One(None, x)]
  <2>1. ASSUME NEW x \in Obj
        PROVE  counts[x] + N!Count(x \in {o}) - N!Count(x \in {})
                   = counts[x] + One(o, x) + One(None, x)
    BY ArrFacts DEF N!Count, One, ArrLegal
  <2> QED  BY <1>1, <2>1 DEF N!Refer
<1> HIDE DEF n
<1> QED  BY <1>1, <1>2, <1>3, <1>4, AppearsInv

LEMMA GetBufferInv ==
    ASSUME ArrLegal, ArrInv, NEW o \in Obj, NEW v \in Obj, N!GetBuffer(o, v) PROVE ArrInv'
<1> DEFINE n == [N!NoObj EXCEPT !.kind = "view", !.base = o]
<1>1. /\ N!Free(v) /\ obj[o].kind = "array" /\ held' = held \cup {v}
      /\ obj' = [obj EXCEPT ![v] = n]
      /\ handle' = handle /\ tensor' = tensor /\ import' = import /\ aborted' = aborted
      /\ N!Refer({v, o}, {})
  BY DEF N!GetBuffer
<1>2. o # v  BY <1>1 DEF N!Free, N!NoObj
<1>3. /\ n \in ObjRec /\ n.kind = "view" /\ n.t = None /\ n.base = o
  BY DEF N!NoObj, ObjRec, ObjKinds
<1>4. counts' = [x \in Obj |-> counts[x] + One(v, x) + One(o, x)]
  <2>1. ASSUME NEW x \in Obj
        PROVE  counts[x] + N!Count(x \in {v, o}) - N!Count(x \in {})
                   = counts[x] + One(v, x) + One(o, x)
    BY <1>2, ArrFacts DEF N!Count, One
  <2> QED  BY <1>1, <2>1 DEF N!Refer
<1> HIDE DEF n
<1> QED  BY <1>1, <1>2, <1>3, <1>4, AppearsInv

LEMMA ConsumeInv ==
    ASSUME ArrLegal, ArrInv, NEW c \in Obj, N!Consume(c) PROVE ArrInv'
<1> DEFINE n == [obj[c] EXCEPT !.kind = "view"]
<1>1. /\ c \in held /\ obj[c].kind = "capsule" /\ obj' = [obj EXCEPT ![c] = n]
      /\ handle' = handle /\ tensor' = tensor /\ counts' = counts /\ held' = held
      /\ import' = import /\ aborted' = aborted
  BY DEF N!Consume
<1>2. n \in ObjRec /\ n.kind = "view" /\ n.h = obj[c].h /\ n.t = obj[c].t /\ n.base = obj[c].base
  BY DEF ArrInv, ArrTypes, ObjRec, ObjKinds
<1> HIDE DEF n
<1>3. /\ obj'[c] = n /\ obj' \in [Obj -> ObjRec]
      /\ \A x \in Obj : x # c => obj'[x] = obj[x]
  BY <1>1, <1>2 DEF ArrInv, ArrTypes
<1>4. ArrTypes'  BY <1>1, <1>3 DEF ArrInv, ArrTypes
<1>5. \A x \in Clients : Claim(x)' = Claim(x) /\ Use(x)' = Use(x)
  <2>1. \A x \in Clients : Claim(x)' = Claim(x)  BY <1>1, <1>2, <1>3 DEF Clients, Claim
  <2>2. \A x \in Clients : Use(x)' = Use(x)  BY <1>1, <1>2, <1>3, <2>1 DEF Use
  <2> QED  BY <2>1, <2>2
<1>6. ObjsRight'
  <2>1. Alike(c)'  BY <1>1, <1>2, <1>3 DEF ArrInv, ObjsRight, Alike
  <2> QED  BY <1>3, <2>1 DEF ArrInv, ObjsRight, Alike
<1>7. HandlesRight' /\ TensorsRight'
  <2>1. \A h \in Handle : Shaped(h)'
    BY <1>1, <1>3, ArrFacts DEF ArrInv, HandlesRight, Shaped
  <2>2. \A t \in Tensor : Formed(t)'
    BY <1>1, <1>3 DEF ArrInv, TensorsRight, Formed
  <2> QED  BY <2>1, <2>2 DEF HandlesRight, TensorsRight
<1>8. ClaimsRight'  BY <1>1, <1>5 DEF ArrInv, ClaimsRight, OwnOf
<1>9. UsesRight'  BY <1>1, <1>5 DEF ArrInv, UsesRight, Founded
<1>10. ImportRight'
  <2>1. \A x \in Clients : Claim(x)' = Claim(x)  BY <1>5
  <2>2. import.capsule # None => import.capsule \in Obj  BY DEF ArrInv, ArrTypes, ImportRec
  <2>3. import # N!NoImport => /\ import.src \in Obj /\ import.src # c /\ import.capsule # c
    BY <1>1 DEF ArrInv, ImportRight, ArrTypes, ArrLegal
  <2> QED  BY <1>1, <1>3, <2>1, <2>2, <2>3 DEF ArrInv, ImportRight
<1>11. RcRight'
  <2>1. \A g : Times(uses', Clients, g) = Times(uses, Clients, g)  BY <1>5, UsesSame
  <2> QED  BY <1>1, <2>1 DEF ArrInv, RcRight
<1>12. RefsRight'
  <2>1. \A x \in Obj : obj'[x].base = obj[x].base  BY <1>2, <1>3
  <2>2. /\ \A x : Times(owners', Handle, x) = Times(owners, Handle, x)
        /\ \A x : Times(selves', Handle, x) = Times(selves, Handle, x)
        /\ \A x : Times(ctxs', Tensor, x) = Times(ctxs, Tensor, x)
        /\ \A x : Times(bases', Obj, x) = Times(bases, Obj, x)
    BY <1>1, <2>1, OwnersSame, SelvesSame, CtxsSame, BasesSame
  <2> QED  BY <1>1, <2>2 DEF ArrInv, RefsRight
<1> QED
  BY <1>1, <1>4, <1>6, <1>7, <1>8, <1>9, <1>10, <1>11, <1>12 DEF ArrInv

\* Nobody deletes a tensor that is not there.
LEMMA Unclaimed ==
    ASSUME ArrLegal, ArrInv, NEW t \in Tensor, tensor[t] = N!NoTensor
    PROVE  /\ \A x \in Clients : Claim(x) # t
           /\ \A h \in Handle : handle[h].t # t
           /\ import # N!NoImport => import.t # t
           /\ tensor[t].ctx = None /\ tensor[t].data = None
<1>1. tensor[t].ctx = None /\ tensor[t].data = None  BY DEF N!NoTensor
<1>2. t # None  BY DEF ArrLegal
<1>3. \A x \in Clients : Claim(x) # t  BY <1>2 DEF ArrInv, ClaimsRight
<1>4. \A h \in Handle : handle[h].t # t  BY <1>2 DEF ArrInv, HandlesRight, Shaped
<1>5. import # N!NoImport => import.t # t
  <2> SUFFICES ASSUME import # N!NoImport, import.t = t PROVE FALSE  OBVIOUS
  <2>1. CASE import.capsule = None
    BY <1>1, <2>1 DEF ArrInv, ImportRight, ArrTypes, ArrLegal
  <2>2. CASE import.capsule # None
    <3>1. /\ import.capsule \in Obj /\ obj[import.capsule].kind = "capsule"
          /\ obj[import.capsule].t = t
      BY <2>2 DEF ArrInv, ImportRight, ArrTypes, ImportRec
    <3>2. import.capsule \in Clients /\ Claim(import.capsule) = t  BY <3>1 DEF Clients, Claim
    <3> QED  BY <1>3, <3>2
  <2> QED  BY <2>1, <2>2
<1> QED  BY <1>1, <1>3, <1>4, <1>5

LEMMA CreateInv ==
    ASSUME ArrLegal, ArrInv, NEW h \in Handle, NEW t \in Tensor, NEW d \in Obj,
           NEW w \in Obj \cup {None}, N!Create(h, t, d, w)
    PROVE  ArrInv'
<1> DEFINE n == [N!NoHandle EXCEPT !.rc = 1, !.cpp = 1, !.owner = w, !.t = t]
           m == [ctx |-> h, data |-> d]
<1>1. /\ handle[h] = N!NoHandle /\ tensor[t] = N!NoTensor /\ obj[d].kind = "data"
      /\ w \in {d, None}
      /\ handle' = [handle EXCEPT ![h] = n] /\ tensor' = [tensor EXCEPT ![t] = m]
      /\ obj' = obj /\ held' = held /\ import' = import /\ aborted' = aborted
      /\ N!Refer({w}, {})
  BY DEF N!Create, N!Unused
<1>2. /\ n \in HandleRec /\ n.rc = 1 /\ n.cpp = 1 /\ n.owner = w /\ n.self = None /\ n.t = t
      /\ ~n.call_deleter /\ ~n.lent /\ m \in TensorRec /\ m.ctx = h /\ m.data = d
  <2> DEFINE k1 == [N!NoHandle EXCEPT !.rc = 1]
             k2 == [k1 EXCEPT !.cpp = 1]
             k3 == [k2 EXCEPT !.owner = w]
  <2>1. N!NoHandle \in HandleRec  BY DEF N!NoHandle, HandleRec
  <2>2. n \in HandleRec
    <3>1. k1 \in HandleRec  BY <2>1 DEF HandleRec
    <3> HIDE DEF k1
    <3>2. k2 \in HandleRec  BY <3>1 DEF HandleRec
    <3> HIDE DEF k2
    <3>3. k3 \in HandleRec  BY <3>2 DEF HandleRec
    <3>4. n = [k3 EXCEPT !.t = t]  BY DEF k1, k2, k3
    <3> HIDE DEF k3, n
    <3> QED  BY <3>3, <3>4 DEF HandleRec
  <2>3. /\ n.rc = 1 /\ n.cpp = 1 /\ n.owner = w /\ n.self = None /\ n.t = t
        /\ ~n.call_deleter /\ ~n.lent
    BY DEF N!NoHandle
  <2>4. m \in TensorRec /\ m.ctx = h /\ m.data = d  BY DEF TensorRec
  <2> QED  BY <2>2, <2>3, <2>4
<1> HIDE DEF n, m
<1>3. /\ handle' \in [Handle -> HandleRec] /\ handle'[h] = n
      /\ \A g \in Handle : g # h => handle'[g] = handle[g]
      /\ tensor' \in [Tensor -> TensorRec] /\ tensor'[t] = m
      /\ \A s \in Tensor : s # t => tensor'[s] = tensor[s]
  BY <1>1, <1>2 DEF ArrInv, ArrTypes
<1>4. /\ handle[h].rc = 0 /\ handle[h].owner = None /\ handle[h].self = None
      /\ handle[h].t = None /\ ~handle[h].call_deleter
  BY <1>1 DEF N!NoHandle
<1>5. \A x \in Clients : Use(x) # h  BY <1>4, Unattended
<1>6. /\ \A x \in Clients : Claim(x) # t
      /\ \A g \in Handle : handle[g].t # t
      /\ import # N!NoImport => import.t # t
      /\ tensor[t].ctx = None
  BY <1>1, Unclaimed
<1>7. counts' = [x \in Obj |-> counts[x] + One(w, x)]
  <2>1. ASSUME NEW x \in Obj
        PROVE  counts[x] + N!Count(x \in {w}) - N!Count(x \in {}) = counts[x] + One(w, x)
    BY ArrFacts DEF N!Count, One
  <2> QED  BY <1>1, <2>1 DEF N!Refer
<1>8. ArrTypes'
  <2>1. \A x \in Obj : counts'[x] \in Int  BY <1>7, ArrFacts DEF One
  <2> QED  BY <1>1, <1>3, <1>7, <2>1 DEF ArrInv, ArrTypes
<1>9. \A x \in Clients : Claim(x)' = Claim(x) /\ Use(x)' = Use(x)
  <2>1. \A x \in Clients : Claim(x)' = Claim(x)
    BY <1>1, <1>2, <1>3, <1>4 DEF Clients, Claim
  <2>2. \A x \in Clients : Use(x)' = Use(x)  BY <1>1, <1>3, <1>6, <2>1 DEF Use
  <2> QED  BY <2>1, <2>2
<1>10. ObjsRight'  BY <1>1 DEF ArrInv, ObjsRight, Alike
<1>11. HandlesRight'
  <2>1. Shaped(h)'
    BY <1>1, <1>2, <1>3 DEF Shaped, N!NoTensor, ArrLegal
  <2>2. ASSUME NEW g \in Handle, g # h PROVE Shaped(g)'
    BY <1>1, <1>3, <1>6, <2>2, ArrFacts DEF ArrInv, HandlesRight, Shaped
  <2> QED  BY <2>1, <2>2 DEF HandlesRight
<1>12. TensorsRight'
  <2>1. Formed(t)'  BY <1>2, <1>3 DEF Formed, ArrLegal
  <2>2. \A s \in Tensor : s # t => Formed(s)'
    BY <1>1, <1>3 DEF ArrInv, TensorsRight, Formed
  <2> QED  BY <2>1, <2>2 DEF TensorsRight
<1>13. ClaimsRight'
  <2> SUFFICES ASSUME NEW x \in Clients, Claim(x) # None
               PROVE  LET s == Claim(x)
                      IN  /\ tensor'[s] # N!NoTensor
                          /\ tensor'[s].ctx \in Handle =>
                                tensor'[s].data = tensor'[handle'[tensor'[s].ctx].t].data
                          /\ \A y \in Clients : Claim(y) = s => x = y \/ OwnOf(s)'
    BY <1>9 DEF ClaimsRight
  <2>1. Claim(x) \in Tensor /\ Claim(x) # t  BY <1>6, ArrFacts
  <2>2. tensor'[Claim(x)] = tensor[Claim(x)]  BY <1>3, <2>1
  <2>3. tensor[Claim(x)].ctx \in Handle => tensor[Claim(x)].ctx # h
    BY <1>5, <2>1 DEF Use, Claim
  <2>4. tensor[Claim(x)].ctx \in Handle =>
            /\ handle'[tensor[Claim(x)].ctx] = handle[tensor[Claim(x)].ctx]
            /\ handle[tensor[Claim(x)].ctx].t # t
    BY <1>3, <1>6, <2>3
  <2>5. tensor[Claim(x)].ctx \in Handle => handle[tensor[Claim(x)].ctx].t \in Tensor
    <3>1. tensor[Claim(x)].ctx \in Handle => Use(x) = tensor[Claim(x)].ctx
      BY <2>1 DEF Use, Claim, ArrLegal
    <3> QED  BY <3>1, Attended, ArrFacts
  <2> QED  BY <1>3, <1>9, <2>2, <2>4, <2>5 DEF ArrInv, ClaimsRight, OwnOf
<1>14. UsesRight'
  <2> SUFFICES ASSUME NEW g \in Handle, NEW x \in Clients, Use(x) = g
               PROVE  handle'[g].lent \/ handle'[g].owner = tensor'[handle'[g].t].data
    BY <1>9 DEF UsesRight, Founded
  <2>1. g # h /\ handle'[g] = handle[g]  BY <1>3, <1>5
  <2>2. handle[g].t \in Tensor /\ handle[g].t # t  BY <1>6, Attended, ArrFacts
  <2> QED  BY <1>3, <2>1, <2>2 DEF ArrInv, UsesRight, Founded
<1>15. ImportRight'
  <2>1. \A x \in Clients : Claim(x)' = Claim(x)  BY <1>9
  <2> QED  BY <1>1, <1>3, <1>6, <2>1 DEF ArrInv, ImportRight
<1>16. RcRight'
  <2>1. \A g : Times(uses', Clients, g) = Times(uses, Clients, g)  BY <1>9, UsesSame
  <2>2. handle[h].rc = handle[h].cpp + Times(uses, Clients, h) /\ handle[h].cpp = 0
    BY <1>4, Unattended DEF ArrInv, RcRight
  <2>3. Times(uses, Clients, h) = 0  BY <1>4, <2>2, CountNat
  <2> QED  BY <1>2, <1>3, <2>1, <2>3 DEF ArrInv, RcRight
<1>17. RefsRight'
  <2>1. /\ \A x : Times(owners', Handle, x) = Times(owners, Handle, x) + One(w, x) - One(None, x)
        /\ \A x : Times(selves', Handle, x) = Times(selves, Handle, x)
        /\ \A x : Times(ctxs', Tensor, x) = Times(ctxs, Tensor, x) + One(h, x) - One(None, x)
        /\ \A x : Times(bases', Obj, x) = Times(bases, Obj, x)
    <3>1. \A x : Times(owners', Handle, x) = Times(owners, Handle, x) + One(w, x) - One(None, x)
      BY <1>2, <1>3, <1>4, OwnersMove
    <3>2. \A x : Times(selves', Handle, x) = Times(selves, Handle, x)
      BY <1>2, <1>3, <1>4, SelvesSame
    <3>3. \A x : Times(ctxs', Tensor, x) = Times(ctxs, Tensor, x) + One(h, x) - One(None, x)
      BY <1>2, <1>3, <1>6, CtxsMove
    <3> QED  BY <1>1, <3>1, <3>2, <3>3, BasesSame
  <2>2. ASSUME NEW x \in Obj
        PROVE  counts'[x] = (IF x \in held' THEN 1 ELSE 0) + Times(owners', Handle, x)
                   + Times(selves', Handle, x) + Times(ctxs', Tensor, x) + Times(bases', Obj, x)
                   + One(import'.capsule, x)
    <3>1. counts[x] = (IF x \in held THEN 1 ELSE 0) + Times(owners, Handle, x)
              + Times(selves, Handle, x) + Times(ctxs, Tensor, x) + Times(bases, Obj, x)
              + One(import.capsule, x)
      BY DEF ArrInv, RefsRight
    <3>2. /\ One(import.capsule, x) \in Nat /\ One(w, x) \in Nat
          /\ One(None, x) = 0 /\ One(h, x) = 0
      BY DEF One, ArrLegal
    <3>3. (IF x \in held THEN 1 ELSE 0) \in Nat  OBVIOUS
    <3> QED  BY <1>1, <1>7, <2>1, <3>1, <3>2, <3>3, CountNat
  <2> QED  BY <2>2 DEF RefsRight
<1> QED
  BY <1>1, <1>8, <1>10, <1>11, <1>12, <1>13, <1>14, <1>15, <1>16, <1>17 DEF ArrInv

LEMMA ExportViewInv ==
    ASSUME ArrLegal, ArrInv, NEW h \in Handle, NEW p \in N!Policy, NEW o \in Obj,
           N!ExportView(h, p, o)
    PROVE  ArrInv'
<1> DEFINE d == tensor[handle[h].t].data
           alone == handle[h].owner = None /\ handle[h].self = None
           w == IF p = "reference_internal" /\ alone THEN d ELSE handle[h].owner
           lends == handle[h].lent \/ (p = "reference" /\ alone)
           n == [N!NoObj EXCEPT !.kind = "array", !.h = h]
<1>1. /\ handle[h].cpp > 0 /\ obj[d].kind = "data" /\ handle[h].self = None
      /\ ~(p = "copy" \/ (p = "automatic" /\ alone))
      /\ N!Free(o) /\ obj' = [obj EXCEPT ![o] = n] /\ held' = held \cup {o}
      /\ tensor' = tensor /\ import' = import /\ aborted' = aborted
  BY DEF N!ExportView, N!Exportable, N!NeedsCopy, N!Data, N!Unowned
<1>2. /\ handle[h].t \in Tensor /\ d \in Obj /\ d # None /\ d # o
      /\ handle[h].owner \in {None, d} /\ handle[h] \in HandleRec
      /\ obj[o] = N!NoObj /\ counts[o] = 0 /\ obj[o].kind = "none"
  <2>1. handle[h].t # None
    BY <1>1 DEF ArrInv, HandlesRight, Shaped, N!NoHandle
  <2>2. handle[h].t \in Tensor /\ tensor[handle[h].t] # N!NoTensor
    BY <2>1, ArrFacts DEF ArrInv, HandlesRight, Shaped
  <2>3. d \in Obj /\ d # None
    BY <2>2, ArrFacts DEF ArrInv, TensorsRight, Formed, ArrLegal
  <2>4. obj[o] = N!NoObj /\ counts[o] = 0 /\ obj[o].kind = "none"
    BY <1>1 DEF N!Free, N!NoObj
  <2>5. handle[h].owner \in {None, d}  BY <2>1 DEF ArrInv, HandlesRight, Shaped
  <2>6. handle[h] \in HandleRec  BY DEF ArrInv, ArrTypes
  <2> QED  BY <1>1, <2>2, <2>3, <2>4, <2>5, <2>6
<1>3. /\ N!Adopted(h, p) = IF p = "reference_internal" /\ alone THEN {d} ELSE {}
      /\ N!Refer({o} \cup N!Adopted(h, p), {})
  BY DEF N!ExportView, N!Adopted, N!Data, N!Unowned
<1>4. /\ handle' \in [Handle -> HandleRec]
      /\ handle'[h].rc = handle[h].rc + 1 /\ handle'[h].cpp = handle[h].cpp
      /\ handle'[h].owner = w /\ handle'[h].self = None /\ handle'[h].t = handle[h].t
      /\ handle'[h].call_deleter = handle[h].call_deleter
      /\ (handle'[h].lent <=> lends)
      /\ \A g \in Handle : g # h => handle'[g] = handle[g]
  <2> DEFINE k1 == [handle[h] EXCEPT !.rc = @ + 1]
             k2 == [k1 EXCEPT !.lent = lends]
             k == [k2 EXCEPT !.owner = w]
  <2>1. handle' = [handle EXCEPT ![h] = k]
    <3>1. handle' = [[handle EXCEPT ![h].rc = @ + 1] EXCEPT
                        ![h].lent = @ \/ (p = "reference" /\ alone),
                        ![h].owner = IF N!Adopted(h, p) = {} THEN @ ELSE d]
      BY DEF N!ExportView, N!Counted, N!Unowned, N!Data
    <3>2. N!Adopted(h, p) = {} <=> ~(p = "reference_internal" /\ alone)  BY <1>3
    <3> QED  BY <3>1, <3>2 DEF ArrInv, ArrTypes
  <2>2. k1 \in HandleRec  BY <1>2 DEF HandleRec
  <2>3. lends \in BOOLEAN /\ w \in Obj \cup {None}  BY <1>2 DEF HandleRec
  <2> HIDE DEF k1, lends, w
  <2>4. k2 \in HandleRec  BY <2>2, <2>3 DEF HandleRec
  <2> HIDE DEF k2
  <2>5. k \in HandleRec  BY <2>3, <2>4 DEF HandleRec
  <2>6. /\ k.rc = handle[h].rc + 1 /\ k.cpp = handle[h].cpp /\ k.owner = w
        /\ k.self = handle[h].self /\ k.t = handle[h].t
        /\ k.call_deleter = handle[h].call_deleter /\ k.lent = lends
    BY <1>2 DEF k1, k2, HandleRec
  <2> HIDE DEF k
  <2> QED  BY <1>1, <2>1, <2>5, <2>6 DEF ArrInv, ArrTypes
<1>5. /\ n \in ObjRec /\ n.kind = "array" /\ n.h = h /\ n.t = None /\ n.base = None
  BY DEF N!NoObj, ObjRec, ObjKinds
<1>6. w \in {None, d} /\ (lends \/ w = d)
  BY <1>1, <1>2 DEF N!Policy
<1> HIDE DEF n
<1>7. /\ obj' \in [Obj -> ObjRec] /\ obj'[o] = n
      /\ \A x \in Obj : x # o => obj'[x] = obj[x]
  BY <1>1, <1>5 DEF ArrInv, ArrTypes
<1>8. /\ o \notin held /\ import.capsule # o
      /\ \A g \in Handle : handle[g].owner # o /\ handle[g].self # o
      /\ \A t \in Tensor : tensor[t].ctx # o
      /\ \A x \in Obj : obj[x].base # o
  BY <1>2, Unreferred
<1>9. counts' = [x \in Obj |-> counts[x] + One(o, x) + One(w, x) - One(handle[h].owner, x)]
  <2>1. ASSUME NEW x \in Obj
        PROVE  counts[x] + N!Count(x \in {o} \cup N!Adopted(h, p)) - N!Count(x \in {})
                   = counts[x] + One(o, x) + One(w, x) - One(handle[h].owner, x)
    <3>1. counts[x] \in Int  BY ArrFacts
    <3>2. CASE p = "reference_internal" /\ alone
      BY <1>2, <1>3, <3>1, <3>2 DEF N!Count, One, ArrLegal
    <3>3. CASE ~(p = "reference_internal" /\ alone)
      <4>1. w = handle[h].owner /\ N!Adopted(h, p) = {}  BY <1>3, <3>3
      <4> QED  BY <3>1, <4>1 DEF N!Count, One
    <3> QED  BY <3>2, <3>3
  <2> QED  BY <1>3, <2>1 DEF N!Refer
<1>10. d = tensor'[handle'[h].t].data  BY <1>1, <1>4
<1> HIDE DEF w, lends, alone, d
<1>11. ArrTypes'
  <2>1. \A x \in Obj : counts'[x] \in Int  BY <1>9, ArrFacts DEF One
  <2> QED  BY <1>1, <1>4, <1>7, <1>9, <2>1 DEF ArrInv, ArrTypes
<1>12. /\ \A x \in Clients : Claim(x)' = Claim(x)
       /\ \A x \in Clients : x # o => Use(x)' = Use(x)
       /\ Use(o)' = h /\ Use(o) = None
  <2>1. ASSUME NEW x \in Clients PROVE Claim(x)' = Claim(x)
    <3>1. CASE x \in Obj  BY <1>2, <1>5, <1>7, <3>1 DEF Claim
    <3>2. CASE x \in Handle /\ x \notin Obj  BY <1>4, <3>2 DEF Claim
    <3> QED  BY <3>1, <3>2 DEF Clients
  <2>2. \A x \in Clients : x # o => Use(x)' = Use(x)  BY <1>1, <1>7, <2>1 DEF Use
  <2>3. Use(o)' = h  BY <1>5, <1>7 DEF Use
  <2>4. Use(o) = None  BY <1>2 DEF Use, Claim, ArrLegal
  <2> QED  BY <2>1, <2>2, <2>3, <2>4
<1>13. ObjsRight'
  <2>1. Alike(o)'  BY <1>5, <1>7 DEF Alike
  <2> QED  BY <1>7, <2>1 DEF ArrInv, ObjsRight, Alike
<1>14. HandlesRight'
  <2>1. Shaped(h)'
    <3>1. obj'[d].kind = "data"  BY <1>1, <1>2, <1>7 DEF d
    <3>2. handle'[h].t # None /\ tensor'[handle'[h].t] # N!NoTensor
          /\ (handle'[h].call_deleter <=> tensor'[handle'[h].t].ctx # h)
      <4>1. handle[h].t # None  BY <1>2 DEF ArrLegal
      <4> QED  BY <1>1, <1>4, <4>1 DEF ArrInv, HandlesRight, Shaped
    <3> QED  BY <1>4, <1>6, <1>10, <3>1, <3>2 DEF Shaped
  <2>2. ASSUME NEW g \in Handle, g # h PROVE Shaped(g)'
    BY <1>1, <1>4, <1>7, <1>8, <2>2, ArrFacts DEF ArrInv, HandlesRight, Shaped
  <2> QED  BY <2>1, <2>2 DEF HandlesRight
<1>15. TensorsRight'
  BY <1>1, <1>7, <1>8 DEF ArrInv, TensorsRight, Formed
<1>16. \A g \in Handle : handle'[g].t = handle[g].t  BY <1>4
<1>17. ClaimsRight'  BY <1>1, <1>12, <1>16 DEF ArrInv, ClaimsRight, OwnOf
<1>18. UsesRight'
  <2> SUFFICES ASSUME NEW g \in Handle, NEW x \in Clients, Use(x)' = g
               PROVE  handle'[g].lent \/ handle'[g].owner = tensor'[handle'[g].t].data
    BY DEF UsesRight, Founded
  <2>1. CASE g = h  BY <1>4, <1>6, <1>10, <2>1
  <2>2. CASE g # h
    <3>1. Use(x) = g  BY <1>12, <2>2
    <3> QED  BY <1>1, <1>4, <2>2, <3>1 DEF ArrInv, UsesRight, Founded
  <2> QED  BY <2>1, <2>2
<1>19. ImportRight'
  <2>1. \A x \in Clients : Claim(x)' = Claim(x)  BY <1>12
  <2>2. import.capsule # None => import.capsule \in Obj  BY DEF ArrInv, ArrTypes, ImportRec
  <2>3. import # N!NoImport => import.src \in Obj /\ import.src # o
    BY <1>8 DEF ArrInv, ImportRight, ArrTypes
  <2> QED  BY <1>1, <1>7, <1>8, <2>1, <2>2, <2>3 DEF ArrInv, ImportRight
<1>20. RcRight'
  <2>1. o \in Clients  BY DEF Clients
  <2>2. \A g : Times(uses', Clients, g) = Times(uses, Clients, g) + One(h, g) - One(None, g)
    BY <1>12, <2>1, UsesMove
  <2>3. ASSUME NEW g \in Handle
        PROVE  handle'[g].rc = handle'[g].cpp + Times(uses', Clients, g)
    <3>1. handle[g].rc = handle[g].cpp + Times(uses, Clients, g)  BY DEF ArrInv, RcRight
    <3>2. handle[g].rc \in Int /\ handle[g].cpp \in Nat /\ Times(uses, Clients, g) \in Nat
      BY ArrFacts, CountNat
    <3>3. One(None, g) = 0 /\ One(h, g) = IF g = h THEN 1 ELSE 0  BY DEF One, ArrLegal
    <3> QED  BY <1>4, <2>2, <3>1, <3>2, <3>3
  <2> QED  BY <2>3 DEF RcRight
<1>21. RefsRight'
  <2>1. \A x : Times(owners', Handle, x) =
                   Times(owners, Handle, x) + One(w, x) - One(handle[h].owner, x)
    BY <1>4, OwnersMove
  <2>2. \A x : Times(selves', Handle, x) = Times(selves, Handle, x)
    BY <1>1, <1>4, SelvesSame
  <2>3. \A x : Times(ctxs', Tensor, x) = Times(ctxs, Tensor, x)  BY <1>1, CtxsSame
  <2>4. \A x : Times(bases', Obj, x) = Times(bases, Obj, x)
    <3>1. \A x \in Obj : obj'[x].base = obj[x].base  BY <1>2, <1>5, <1>7 DEF N!NoObj
    <3> QED  BY <3>1, BasesSame
  <2>5. ASSUME NEW x \in Obj
        PROVE  counts'[x] = (IF x \in held' THEN 1 ELSE 0) + Times(owners', Handle, x)
                   + Times(selves', Handle, x) + Times(ctxs', Tensor, x) + Times(bases', Obj, x)
                   + One(import'.capsule, x)
    <3>1. counts[x] = (IF x \in held THEN 1 ELSE 0) + Times(owners, Handle, x)
              + Times(selves, Handle, x) + Times(ctxs, Tensor, x) + Times(bases, Obj, x)
              + One(import.capsule, x)
      BY DEF ArrInv, RefsRight
    <3>2. /\ One(import.capsule, x) \in Nat /\ One(w, x) \in Nat /\ One(o, x) \in Nat
          /\ One(handle[h].owner, x) \in Nat
      BY DEF One
    <3>3. (IF x \in held' THEN 1 ELSE 0) = (IF x \in held THEN 1 ELSE 0) + One(o, x)
      BY <1>1, <1>8 DEF One
    <3>4. (IF x \in held THEN 1 ELSE 0) \in Nat  OBVIOUS
    <3> QED
      BY <1>1, <1>9, <2>1, <2>2, <2>3, <2>4, <3>1, <3>2, <3>3, <3>4, CountNat
  <2> QED  BY <2>5 DEF RefsRight
<1> QED
  BY <1>1, <1>11, <1>13, <1>14, <1>15, <1>17, <1>18, <1>19, <1>20, <1>21 DEF ArrInv

\* A capsule for a handle: its own tensor, or a new one.
LEMMA CapsuleMade ==
    ASSUME ArrLegal, ArrInv, NEW h \in Handle, NEW o \in Obj, obj[o].kind = "array", obj[o].h = h,
           NEW b, NEW c \in Obj, NEW t \in Tensor, N!MakeCapsule(h, b, c, t)
    PROVE  /\ handle' \in [Handle -> HandleRec] /\ tensor' \in [Tensor -> TensorRec]
           /\ obj' \in [Obj -> ObjRec]
           /\ ObjsRight' /\ HandlesRight' /\ TensorsRight' /\ ClaimsRight' /\ UsesRight'
           /\ RcRight'
           /\ obj'[c].kind = "capsule" /\ obj'[c].t = t /\ Claim(c)' = t
           /\ \A x \in Obj : x # c => obj'[x] = obj[x]
           /\ \A x \in Clients : x # c => Claim(x)' = Claim(x)
           /\ \A s \in Tensor : s # t => tensor'[s] = tensor[s]
           /\ c # o /\ c \notin held /\ import.capsule # c /\ counts[c] = 0 /\ obj[c].kind = "none"
           /\ (import # N!NoImport /\ import.capsule = None) => import.t # t
           /\ \A x : Times(owners', Handle, x) = Times(owners, Handle, x)
           /\ \A x : Times(selves', Handle, x) = Times(selves, Handle, x)
           /\ \A x \in Obj : Times(ctxs', Tensor, x) = Times(ctxs, Tensor, x)
           /\ \A x : Times(bases', Obj, x) = Times(bases, Obj, x)
<1> DEFINE old == handle[h].t
           m == [ctx |-> h, data |-> tensor[old].data]
           n == [N!NoObj EXCEPT !.kind = "capsule", !.t = t]
<1>1. /\ N!Free(c) /\ obj' = [obj EXCEPT ![c] = n]
      /\ handle' = [handle EXCEPT ![h].rc = @ + 1]
      /\ \/ t = old /\ tensor[old].ctx = h /\ tensor' = tensor
         \/ tensor[t] = N!NoTensor /\ tensor' = [tensor EXCEPT ![t] = m]
  BY DEF N!MakeCapsule, N!Reusable, N!Own, N!Counted
<1>2. /\ obj[c] = N!NoObj /\ counts[c] = 0 /\ obj[c].kind = "none" /\ obj[c].base = None
      /\ c # o
  BY <1>1 DEF N!Free, N!NoObj
<1>3. /\ Use(o) = h /\ o \in Clients /\ c \in Clients /\ old \in Tensor /\ old # None
      /\ tensor[old] # N!NoTensor /\ tensor[old].data \in Obj
  <2>1. Use(o) = h /\ o \in Clients /\ c \in Clients  BY DEF Use, Clients
  <2>2. old # None  BY <2>1, Attended
  <2>3. old \in Tensor /\ tensor[old] # N!NoTensor
    BY <2>2, ArrFacts DEF ArrInv, HandlesRight, Shaped
  <2>4. tensor[old].data \in Obj  BY <2>3, ArrFacts DEF ArrInv, TensorsRight, Formed
  <2> QED  BY <2>1, <2>2, <2>3, <2>4
<1>4. /\ n \in ObjRec /\ n.kind = "capsule" /\ n.t = t /\ n.base = None
  BY DEF N!NoObj, ObjRec, ObjKinds
<1>5. m \in TensorRec /\ m.ctx = h /\ m.data = tensor[old].data  BY <1>3 DEF TensorRec
<1> HIDE DEF n, m
<1>6. /\ obj' \in [Obj -> ObjRec] /\ obj'[c] = n /\ \A x \in Obj : x # c => obj'[x] = obj[x]
  BY <1>1, <1>4 DEF ArrInv, ArrTypes
<1>7. /\ tensor' \in [Tensor -> TensorRec] /\ \A s \in Tensor : s # t => tensor'[s] = tensor[s]
      /\ tensor'[t].ctx = h /\ tensor'[t].data = tensor[old].data /\ tensor'[old] = tensor[old]
      /\ t # old => tensor[t] = N!NoTensor
      /\ t = old => tensor' = tensor
  <2>1. CASE t = old /\ tensor[old].ctx = h /\ tensor' = tensor
    BY <2>1 DEF ArrInv, ArrTypes
  <2>2. CASE tensor[t] = N!NoTensor /\ tensor' = [tensor EXCEPT ![t] = m]
    BY <1>3, <1>5, <2>2 DEF ArrInv, ArrTypes
  <2> QED  BY <1>1, <2>1, <2>2
<1>8. /\ handle' \in [Handle -> HandleRec]
      /\ handle'[h].rc = handle[h].rc + 1
      /\ \A g \in Handle :
            /\ handle'[g].cpp = handle[g].cpp /\ handle'[g].owner = handle[g].owner
            /\ handle'[g].self = handle[g].self /\ handle'[g].t = handle[g].t
            /\ handle'[g].call_deleter = handle[g].call_deleter
            /\ handle'[g].lent = handle[g].lent
            /\ g # h => handle'[g] = handle[g]
  <2>1. handle[h] \in HandleRec  BY DEF ArrInv, ArrTypes
  <2>2. [handle[h] EXCEPT !.rc = @ + 1] \in HandleRec  BY <2>1 DEF HandleRec
  <2>3. handle' \in [Handle -> HandleRec]  BY <1>1, <2>2 DEF ArrInv, ArrTypes
  <2> QED  BY <1>1, <2>1, <2>3 DEF ArrInv, ArrTypes, HandleRec
<1>9. /\ c \notin held /\ import.capsule # c
      /\ \A g \in Handle : handle[g].owner # c /\ handle[g].self # c
      /\ \A s \in Tensor : tensor[s].ctx # c
      /\ \A x \in Obj : obj[x].base # c
  BY <1>2, Unreferred
<1>10. t # old => /\ \A x \in Clients : Claim(x) # t
                  /\ \A g \in Handle : handle[g].t # t
                  /\ import # N!NoImport => import.t # t
                  /\ tensor[t].ctx = None
  BY <1>7, Unclaimed
<1>11. /\ \A x \in Clients : x # c => Claim(x)' = Claim(x) /\ Use(x)' = Use(x)
       /\ Claim(c) = None /\ Claim(c)' = t /\ Use(c) = None /\ Use(c)' = h
  <2>1. ASSUME NEW x \in Clients, x # c PROVE Claim(x)' = Claim(x)
    <3>1. CASE x \in Obj  BY <1>6, <2>1, <3>1 DEF Claim
    <3>2. CASE x \in Handle /\ x \notin Obj  BY <1>8, <3>2 DEF Claim
    <3> QED  BY <3>1, <3>2 DEF Clients
  <2>2. ASSUME NEW x \in Clients, x # c PROVE Use(x)' = Use(x)
    <3>1. Claim(x) \in Tensor => tensor'[Claim(x)] = tensor[Claim(x)]
      BY <1>7, <1>10
    <3> QED  BY <1>6, <2>1, <2>2, <3>1 DEF Use
  <2>3. Claim(c)' = t /\ Use(c)' = h  BY <1>4, <1>6, <1>7 DEF Claim, Use
  <2>4. Claim(c) = None /\ Use(c) = None  BY <1>2 DEF Claim, Use, ArrLegal
  <2> QED  BY <2>1, <2>2, <2>3, <2>4
<1>12. ObjsRight'
  <2>1. Alike(c)'  BY <1>4, <1>6 DEF Alike
  <2> QED  BY <1>6, <2>1 DEF ArrInv, ObjsRight, Alike
<1>13. HandlesRight'
  <2> SUFFICES ASSUME NEW g \in Handle PROVE Shaped(g)'
    BY DEF HandlesRight
  <2>1. handle[g].t = None => g # h  BY <1>3
  <2>2. handle[g].t \in Tensor => tensor'[handle[g].t] = tensor[handle[g].t]
    BY <1>7, <1>10
  <2>3. handle[g].t \in Tensor \cup {None}  BY ArrFacts
  <2>4. /\ handle[g].owner # None => obj'[handle[g].owner] = obj[handle[g].owner]
        /\ handle[g].self # None => obj'[handle[g].self] = obj[handle[g].self]
    BY <1>6, <1>9, ArrFacts
  <2> QED  BY <1>8, <2>1, <2>2, <2>3, <2>4 DEF ArrInv, HandlesRight, Shaped
<1>14. TensorsRight'
  <2>1. Formed(t)'  BY <1>3, <1>7 DEF Formed, ArrLegal
  <2>2. ASSUME NEW s \in Tensor, s # t PROVE Formed(s)'
    <3>1. tensor[s].ctx \in Obj => obj'[tensor[s].ctx] = obj[tensor[s].ctx]
      BY <1>6, <1>9
    <3> QED  BY <1>7, <2>2, <3>1 DEF ArrInv, TensorsRight, Formed
  <2> QED  BY <2>1, <2>2 DEF TensorsRight
<1>15. tensor'[t] # N!NoTensor /\ (t = old => OwnOf(t)')
  BY <1>7, <1>8 DEF N!NoTensor, OwnOf, ArrLegal
<1>16. ClaimsRight'
  <2> SUFFICES ASSUME NEW x \in Clients, Claim(x)' # None
               PROVE  /\ tensor'[Claim(x)'] # N!NoTensor
                      /\ tensor'[Claim(x)'].ctx \in Handle =>
                            tensor'[Claim(x)'].data =
                                tensor'[handle'[tensor'[Claim(x)'].ctx].t].data
                      /\ \A y \in Clients : Claim(y)' = Claim(x)' => x = y \/ OwnOf(Claim(x))'
    BY DEF ClaimsRight
  <2>1. CASE x = c
    <3>1. Claim(x)' = t  BY <1>11, <2>1
    <3>2. tensor'[t].data = tensor'[handle'[h].t].data  BY <1>7, <1>8
    <3>3. ASSUME NEW y \in Clients, Claim(y)' = t PROVE x = y \/ OwnOf(t)'
      <4>1. CASE t = old  BY <1>15, <4>1
      <4>2. CASE t # old  BY <1>10, <1>11, <2>1, <3>3, <4>2
      <4> QED  BY <4>1, <4>2
    <3>4. \A y \in Clients : Claim(y)' = Claim(x)' => x = y \/ OwnOf(Claim(x))'
      BY <3>1, <3>3 DEF OwnOf
    <3> QED  BY <1>7, <1>15, <3>1, <3>2, <3>4
  <2>2. CASE x # c
    <3>1. Claim(x)' = Claim(x) /\ Claim(x) \in Tensor  BY <1>11, <2>2, ArrFacts
    <3>2. tensor'[Claim(x)] = tensor[Claim(x)]  BY <1>7, <1>10, <3>1
    <3>3. /\ tensor[Claim(x)] # N!NoTensor
          /\ tensor[Claim(x)].ctx \in Handle =>
               tensor[Claim(x)].data = tensor[handle[tensor[Claim(x)].ctx].t].data
          /\ \A y \in Clients : Claim(y) = Claim(x) => x = y \/ OwnOf(Claim(x))
      BY <2>2, <3>1 DEF ArrInv, ClaimsRight
    <3>4. tensor[Claim(x)].ctx \in Handle =>
             tensor'[handle'[tensor[Claim(x)].ctx].t] = tensor[handle[tensor[Claim(x)].ctx].t]
      <4> SUFFICES ASSUME tensor[Claim(x)].ctx \in Handle
                   PROVE  tensor'[handle[tensor[Claim(x)].ctx].t]
                              = tensor[handle[tensor[Claim(x)].ctx].t]
        BY <1>8
      <4>1. Use(x) = tensor[Claim(x)].ctx  BY <3>1 DEF Use, Claim
      <4>2. handle[tensor[Claim(x)].ctx].t \in Tensor  BY <4>1, Attended, ArrFacts
      <4> QED  BY <1>7, <1>10, <4>2
    <3>5. OwnOf(Claim(x)) => OwnOf(Claim(x))'
      BY <1>8, <3>1, <3>2 DEF OwnOf
    <3>6. ASSUME NEW y \in Clients, Claim(y)' = Claim(x) PROVE x = y \/ OwnOf(Claim(x))'
      <4>1. CASE y = c
        <5>1. Claim(x) = t  BY <1>11, <3>6, <4>1
        <5>2. t = old  BY <1>10, <5>1
        <5> QED  BY <1>15, <3>1, <5>1, <5>2 DEF OwnOf
      <4>2. CASE y # c  BY <1>11, <3>3, <3>5, <3>6, <4>2
      <4> QED  BY <4>1, <4>2
    <3> QED  BY <3>1, <3>2, <3>3, <3>4, <3>6
  <2> QED  BY <2>1, <2>2
<1>17. UsesRight'
  <2> SUFFICES ASSUME NEW g \in Handle, NEW x \in Clients, Use(x)' = g
               PROVE  handle'[g].lent \/ handle'[g].owner = tensor'[handle'[g].t].data
    BY DEF UsesRight, Founded
  <2>1. \E y \in Clients : Use(y) = g  BY <1>3, <1>11
  <2>2. handle[g].t \in Tensor  BY <2>1, Attended, ArrFacts
  <2>3. tensor'[handle[g].t] = tensor[handle[g].t]  BY <1>7, <1>10, <2>2
  <2> QED  BY <1>8, <2>1, <2>3 DEF ArrInv, UsesRight, Founded
<1>18. RcRight'
  <2>1. \A g : Times(uses', Clients, g) = Times(uses, Clients, g) + One(h, g) - One(None, g)
    BY <1>3, <1>11, UsesMove
  <2>2. ASSUME NEW g \in Handle
        PROVE  handle'[g].rc = handle'[g].cpp + Times(uses', Clients, g)
    <3>1. handle[g].rc = handle[g].cpp + Times(uses, Clients, g)  BY DEF ArrInv, RcRight
    <3>2. handle[g].rc \in Int /\ handle[g].cpp \in Nat /\ Times(uses, Clients, g) \in Nat
      BY ArrFacts, CountNat
    <3>3. One(None, g) = 0 /\ One(h, g) = IF g = h THEN 1 ELSE 0  BY DEF One, ArrLegal
    <3> QED  BY <1>8, <2>1, <3>1, <3>2, <3>3
  <2> QED  BY <2>2 DEF RcRight
<1>19. (import # N!NoImport /\ import.capsule = None) => import.t # t
  <2> SUFFICES ASSUME import # N!NoImport, import.capsule = None, import.t = t PROVE FALSE
    OBVIOUS
  <2>1. t = old  BY <1>10
  <2>2. tensor[t].ctx = h  BY <1>7, <2>1
  <2>3. tensor[t].ctx \in Obj  BY DEF ArrInv, ImportRight, ArrTypes
  <2> QED  BY <2>2, <2>3 DEF ArrLegal
<1>20. \A x : Times(owners', Handle, x) = Times(owners, Handle, x)  BY <1>8, OwnersSame
<1>21. \A x : Times(selves', Handle, x) = Times(selves, Handle, x)  BY <1>8, SelvesSame
<1>22. \A x \in Obj : Times(ctxs', Tensor, x) = Times(ctxs, Tensor, x)
  <2>1. CASE t = old  BY <1>7, <2>1, CtxsSame
  <2>2. CASE t # old
    <3>1. \A x : Times(ctxs', Tensor, x) = Times(ctxs, Tensor, x) + One(h, x) - One(None, x)
      BY <1>7, <1>10, <2>2, CtxsMove
    <3>2. \A x \in Obj : One(h, x) = 0 /\ One(None, x) = 0  BY DEF One, ArrLegal
    <3> QED  BY <3>1, <3>2, CountNat
  <2> QED  BY <2>1, <2>2
<1>23. \A x : Times(bases', Obj, x) = Times(bases, Obj, x)
  <2>1. \A x \in Obj : obj'[x].base = obj[x].base  BY <1>2, <1>4, <1>6
  <2> QED  BY <2>1, BasesSame
<1>24. obj'[c].kind = "capsule" /\ obj'[c].t = t  BY <1>4, <1>6
<1> QED
  BY <1>2, <1>6, <1>7, <1>8, <1>9, <1>11, <1>12, <1>13, <1>14, <1>16, <1>17, <1>18, <1>19,
     <1>20, <1>21, <1>22, <1>23, <1>24

LEMMA DlpackInv ==
    ASSUME ArrLegal, ArrInv, NEW o \in Obj, NEW b, NEW c \in Obj, NEW t \in Tensor,
           N!Dlpack(o, b, c, t)
    PROVE  ArrInv'
<1> DEFINE h == obj[o].h
<1>1. /\ obj[o].kind = "array" /\ N!MakeCapsule(h, b, c, t) /\ held' = held \cup {c}
      /\ N!Refer({c}, {}) /\ import' = import /\ aborted' = aborted
  BY DEF N!Dlpack
<1>2. h \in Handle  BY <1>1 DEF ArrInv, ObjsRight, Alike
<1>3. /\ handle' \in [Handle -> HandleRec] /\ tensor' \in [Tensor -> TensorRec]
      /\ obj' \in [Obj -> ObjRec]
      /\ ObjsRight' /\ HandlesRight' /\ TensorsRight' /\ ClaimsRight' /\ UsesRight' /\ RcRight'
      /\ obj'[c].kind = "capsule" /\ obj'[c].t = t /\ Claim(c)' = t
      /\ \A x \in Obj : x # c => obj'[x] = obj[x]
      /\ \A x \in Clients : x # c => Claim(x)' = Claim(x)
      /\ \A s \in Tensor : s # t => tensor'[s] = tensor[s]
      /\ c # o /\ c \notin held /\ import.capsule # c /\ obj[c].kind = "none"
      /\ (import # N!NoImport /\ import.capsule = None) => import.t # t
      /\ \A x : Times(owners', Handle, x) = Times(owners, Handle, x)
      /\ \A x : Times(selves', Handle, x) = Times(selves, Handle, x)
      /\ \A x \in Obj : Times(ctxs', Tensor, x) = Times(ctxs, Tensor, x)
      /\ \A x : Times(bases', Obj, x) = Times(bases, Obj, x)
  <2> HIDE DEF h
  <2>1. obj[o].h = h  BY DEF h
  <2> QED  BY <1>1, <1>2, <2>1, CapsuleMade
<1>4. counts' = [x \in Obj |-> counts[x] + One(c, x)]
  <2>1. ASSUME NEW x \in Obj
        PROVE  counts[x] + N!Count(x \in {c}) - N!Count(x \in {}) = counts[x] + One(c, x)
    BY ArrFacts DEF N!Count, One
  <2> QED  BY <1>1, <2>1 DEF N!Refer
<1>5. ArrTypes'
  <2>1. \A x \in Obj : counts'[x] \in Int  BY <1>4, ArrFacts DEF One
  <2> QED  BY <1>1, <1>3, <1>4, <2>1 DEF ArrInv, ArrTypes
<1>6. ImportRight'
  <2> SUFFICES ASSUME import # N!NoImport
               PROVE  /\ import.src \in held' /\ import.t \in Tensor
                      /\ obj'[import.src].kind \in {"data", "array"}
                      /\ import.capsule # None =>
                            /\ obj'[import.capsule].kind = "capsule"
                            /\ obj'[import.capsule].t = import.t
                            /\ import.capsule \notin held'
                      /\ import.capsule = None =>
                            /\ tensor'[import.t].ctx = import.src
                            /\ \A x \in Clients : Claim(x)' # import.t
    BY <1>1 DEF ImportRight
  <2>1. /\ import.src \in held /\ import.t \in Tensor
        /\ obj[import.src].kind \in {"data", "array"}
        /\ import.capsule # None =>
              /\ obj[import.capsule].kind = "capsule" /\ obj[import.capsule].t = import.t
              /\ import.capsule \notin held
        /\ import.capsule = None =>
              /\ tensor[import.t].ctx = import.src
              /\ \A x \in Clients : Claim(x) # import.t
    BY DEF ArrInv, ImportRight
  <2>2. import.src \in Obj /\ import.src # c /\ import.capsule \in Obj \cup {None}
    BY <1>3, <2>1 DEF ArrInv, ArrTypes, ImportRec
  <2> QED  BY <1>1, <1>3, <2>1, <2>2
<1>7. RefsRight'
  <2>1. ASSUME NEW x \in Obj
        PROVE  counts'[x] = (IF x \in held' THEN 1 ELSE 0) + Times(owners', Handle, x)
                   + Times(selves', Handle, x) + Times(ctxs', Tensor, x) + Times(bases', Obj, x)
                   + One(import'.capsule, x)
    <3>1. counts[x] = (IF x \in held THEN 1 ELSE 0) + Times(owners, Handle, x)
              + Times(selves, Handle, x) + Times(ctxs, Tensor, x) + Times(bases, Obj, x)
              + One(import.capsule, x)
      BY DEF ArrInv, RefsRight
    <3>2. /\ One(import.capsule, x) \in Nat /\ One(c, x) \in Nat  BY DEF One
    <3>3. (IF x \in held' THEN 1 ELSE 0) = (IF x \in held THEN 1 ELSE 0) + One(c, x)
      BY <1>1, <1>3 DEF One
    <3>4. (IF x \in held THEN 1 ELSE 0) \in Nat  OBVIOUS
    <3> QED  BY <1>1, <1>3, <1>4, <3>1, <3>2, <3>3, <3>4, CountNat
  <2> QED  BY <2>1 DEF RefsRight
<1> QED  BY <1>1, <1>3, <1>5, <1>6, <1>7 DEF ArrInv

LEMMA BeginOwnInv ==
    ASSUME ArrLegal, ArrInv, NEW o \in Obj, NEW b, NEW c \in Obj, NEW t \in Tensor,
           N!BeginOwn(o, b, c, t)
    PROVE  ArrInv'
<1> DEFINE h == obj[o].h
<1>1. /\ import = N!NoImport /\ o \in held
      /\ obj[o].kind = "array" /\ N!MakeCapsule(h, b, c, t) /\ held' = held
      /\ N!Refer({c}, {}) /\ import' = [src |-> o, capsule |-> c, t |-> t]
      /\ aborted' = aborted
  BY DEF N!BeginOwn
<1>2. h \in Handle  BY <1>1 DEF ArrInv, ObjsRight, Alike
<1>3. /\ handle' \in [Handle -> HandleRec] /\ tensor' \in [Tensor -> TensorRec]
      /\ obj' \in [Obj -> ObjRec]
      /\ ObjsRight' /\ HandlesRight' /\ TensorsRight' /\ ClaimsRight' /\ UsesRight' /\ RcRight'
      /\ obj'[c].kind = "capsule" /\ obj'[c].t = t
      /\ \A x \in Obj : x # c => obj'[x] = obj[x]
      /\ c # o /\ c \notin held
      /\ \A x : Times(owners', Handle, x) = Times(owners, Handle, x)
      /\ \A x : Times(selves', Handle, x) = Times(selves, Handle, x)
      /\ \A x \in Obj : Times(ctxs', Tensor, x) = Times(ctxs, Tensor, x)
      /\ \A x : Times(bases', Obj, x) = Times(bases, Obj, x)
  <2> HIDE DEF h
  <2>1. obj[o].h = h  BY DEF h
  <2> QED  BY <1>1, <1>2, <2>1, CapsuleMade
<1>4. counts' = [x \in Obj |-> counts[x] + One(c, x)]
  <2>1. ASSUME NEW x \in Obj
        PROVE  counts[x] + N!Count(x \in {c}) - N!Count(x \in {}) = counts[x] + One(c, x)
    BY ArrFacts DEF N!Count, One
  <2> QED  BY <1>1, <2>1 DEF N!Refer
<1>5. ArrTypes'
  <2>1. \A x \in Obj : counts'[x] \in Int  BY <1>4, ArrFacts DEF One
  <2>2. import' \in ImportRec  BY <1>1 DEF ImportRec
  <2> QED  BY <1>1, <1>3, <1>4, <2>1, <2>2 DEF ArrInv, ArrTypes
<1>6. ImportRight'
  <2>1. import'.src = o /\ import'.capsule = c /\ import'.t = t  BY <1>1
  <2>2. obj'[o].kind = "array" /\ c # None  BY <1>1, <1>3 DEF ArrLegal
  <2> QED  BY <1>1, <1>3, <2>1, <2>2 DEF ImportRight
<1>7. RefsRight'
  <2>1. ASSUME NEW x \in Obj
        PROVE  counts'[x] = (IF x \in held' THEN 1 ELSE 0) + Times(owners', Handle, x)
                   + Times(selves', Handle, x) + Times(ctxs', Tensor, x) + Times(bases', Obj, x)
                   + One(import'.capsule, x)
    <3>1. counts[x] = (IF x \in held THEN 1 ELSE 0) + Times(owners, Handle, x)
              + Times(selves, Handle, x) + Times(ctxs, Tensor, x) + Times(bases, Obj, x)
              + One(import.capsule, x)
      BY DEF ArrInv, RefsRight
    <3>2. /\ One(import.capsule, x) = 0 /\ One(c, x) \in Nat /\ import'.capsule = c
      BY <1>1 DEF One, N!NoImport, ArrLegal
    <3>4. (IF x \in held THEN 1 ELSE 0) \in Nat  OBVIOUS
    <3> QED  BY <1>1, <1>3, <1>4, <3>1, <3>2, <3>4, CountNat
  <2> QED  BY <2>1 DEF RefsRight
<1> QED  BY <1>1, <1>3, <1>5, <1>6, <1>7 DEF ArrInv

LEMMA BeginForeignInv ==
    ASSUME ArrLegal, ArrInv, NEW o \in Obj, NEW c \in Obj \cup {None}, NEW t \in Tensor,
           N!BeginForeign(o, c, t)
    PROVE  ArrInv'
<1> DEFINE m == [ctx |-> o, data |-> o]
           n == [N!NoObj EXCEPT !.kind = "capsule", !.t = t]
<1>1. /\ import = N!NoImport /\ o \in held /\ obj[o].kind = "data" /\ tensor[t] = N!NoTensor
      /\ tensor' = [tensor EXCEPT ![t] = m]
      /\ c # None => N!Free(c)
      /\ obj' = IF c = None THEN obj ELSE [obj EXCEPT ![c] = n]
      /\ N!Refer({o, c}, {}) /\ import' = [src |-> o, capsule |-> c, t |-> t]
      /\ handle' = handle /\ held' = held /\ aborted' = aborted
  BY DEF N!BeginForeign
<1>2. /\ n \in ObjRec /\ n.kind = "capsule" /\ n.t = t /\ n.base = None
  BY DEF N!NoObj, ObjRec, ObjKinds
<1>3. m \in TensorRec /\ m.ctx = o /\ m.data = o  BY DEF TensorRec
<1> HIDE DEF n, m
<1>4. c # None =>
      /\ c \in Obj /\ c # o /\ obj[c].kind = "none" /\ obj[c].base = None /\ c \notin held
      /\ \A g \in Handle : handle[g].owner # c /\ handle[g].self # c
      /\ \A s \in Tensor : tensor[s].ctx # c
      /\ \A x \in Obj : obj[x].base # c
  <2> SUFFICES ASSUME c # None
               PROVE  /\ c \in Obj /\ c # o /\ obj[c].kind = "none" /\ obj[c].base = None
                      /\ c \notin held
                      /\ \A g \in Handle : handle[g].owner # c /\ handle[g].self # c
                      /\ \A s \in Tensor : tensor[s].ctx # c
                      /\ \A x \in Obj : obj[x].base # c
    OBVIOUS
  <2>1. c \in Obj /\ c # o /\ obj[c].kind = "none" /\ obj[c].base = None /\ counts[c] = 0
    BY <1>1 DEF N!Free, N!NoObj
  <2> QED  BY <2>1, Unreferred
<1>5. /\ obj' \in [Obj -> ObjRec] /\ \A x \in Obj : x # c => obj'[x] = obj[x]
      /\ c # None => obj'[c] = n
  BY <1>1, <1>2, <1>4 DEF ArrInv, ArrTypes, ArrLegal
<1>6. /\ tensor' \in [Tensor -> TensorRec] /\ tensor'[t] = m
      /\ \A s \in Tensor : s # t => tensor'[s] = tensor[s]
  BY <1>1, <1>3 DEF ArrInv, ArrTypes
<1>7. /\ \A x \in Clients : Claim(x) # t
      /\ \A g \in Handle : handle[g].t # t
      /\ tensor[t].ctx = None
  BY <1>1, Unclaimed
<1>8. counts' = [x \in Obj |-> counts[x] + One(o, x) + One(c, x)]
  <2>1. ASSUME NEW x \in Obj
        PROVE  counts[x] + N!Count(x \in {o, c}) - N!Count(x \in {})
                   = counts[x] + One(o, x) + One(c, x)
    BY <1>4, ArrFacts DEF N!Count, One, ArrLegal
  <2> QED  BY <1>1, <2>1 DEF N!Refer
<1>9. ArrTypes'
  <2>1. \A x \in Obj : counts'[x] \in Int  BY <1>8, ArrFacts DEF One
  <2>2. import' \in ImportRec  BY <1>1 DEF ImportRec
  <2> QED  BY <1>1, <1>5, <1>6, <1>8, <2>1, <2>2 DEF ArrInv, ArrTypes
<1>10. /\ \A x \in Clients : x # c => Claim(x)' = Claim(x)
       /\ \A x \in Clients : Use(x)' \in Handle => Use(x)' = Use(x) /\ x # c
       /\ \A x \in Clients : x # c => Use(x)' = Use(x)
       /\ c # None => Claim(c)' = t /\ Use(c)' = o /\ Use(c) = None
  <2>1. ASSUME NEW x \in Clients, x # c PROVE Claim(x)' = Claim(x)
    <3>1. CASE x \in Obj  BY <1>5, <2>1, <3>1 DEF Claim
    <3>2. CASE x \in Handle /\ x \notin Obj  BY <1>1, <3>2 DEF Claim
    <3> QED  BY <3>1, <3>2 DEF Clients
  <2>2. ASSUME NEW x \in Clients, x # c PROVE Use(x)' = Use(x)
    <3>1. Claim(x) \in Tensor => tensor'[Claim(x)] = tensor[Claim(x)]  BY <1>6, <1>7
    <3> QED  BY <1>5, <2>1, <2>2, <3>1 DEF Use
  <2>3. c # None => Claim(c)' = t /\ Use(c)' = o
    BY <1>2, <1>3, <1>4, <1>5, <1>6 DEF Claim, Use
  <2>4. c # None => Use(c) = None  BY <1>4 DEF Claim, Use, ArrLegal
  <2>5. o \notin Handle /\ None \notin Clients  BY DEF ArrLegal, Clients
  <2> QED  BY <2>1, <2>2, <2>3, <2>4, <2>5
<1>11. ObjsRight'
  <2>1. c # None => Alike(c)'  BY <1>2, <1>5 DEF Alike
  <2>2. \A x \in Obj : x # c => Alike(x)'  BY <1>5 DEF ArrInv, ObjsRight, Alike
  <2> QED  BY <2>1, <2>2 DEF ObjsRight, ArrLegal
<1>12. HandlesRight'
  <2> SUFFICES ASSUME NEW g \in Handle PROVE Shaped(g)'
    BY DEF HandlesRight
  <2>1. handle[g].t \in Tensor => tensor'[handle[g].t] = tensor[handle[g].t]
    BY <1>6, <1>7
  <2>2. handle[g].t \in Tensor \cup {None}  BY ArrFacts
  <2>3. /\ handle[g].owner # None => obj'[handle[g].owner] = obj[handle[g].owner]
        /\ handle[g].self # None => obj'[handle[g].self] = obj[handle[g].self]
    BY <1>4, <1>5, ArrFacts
  <2> QED  BY <1>1, <2>1, <2>2, <2>3 DEF ArrInv, HandlesRight, Shaped
<1>13. TensorsRight'
  <2>1. Formed(t)'
    <3>1. obj'[o].kind = "data"  BY <1>1, <1>4, <1>5 DEF ArrLegal
    <3> QED  BY <1>3, <1>6, <3>1 DEF Formed, ArrLegal
  <2>2. ASSUME NEW s \in Tensor, s # t PROVE Formed(s)'
    <3>1. tensor[s].ctx \in Obj => obj'[tensor[s].ctx] = obj[tensor[s].ctx]
      BY <1>4, <1>5, ArrFacts DEF ArrLegal
    <3> QED  BY <1>6, <2>2, <3>1 DEF ArrInv, TensorsRight, Formed
  <2> QED  BY <2>1, <2>2 DEF TensorsRight
<1>14. ClaimsRight'
  <2> SUFFICES ASSUME NEW x \in Clients, Claim(x)' # None
               PROVE  /\ tensor'[Claim(x)'] # N!NoTensor
                      /\ tensor'[Claim(x)'].ctx \in Handle =>
                            tensor'[Claim(x)'].data =
                                tensor'[handle'[tensor'[Claim(x)'].ctx].t].data
                      /\ \A y \in Clients : Claim(y)' = Claim(x)' => x = y \/ OwnOf(Claim(x))'
    BY DEF ClaimsRight
  <2>1. CASE x = c
    <3>1. Claim(x)' = t /\ tensor'[t].ctx = o /\ o \notin Handle /\ o # None
      BY <1>3, <1>4, <1>6, <1>10, <2>1 DEF ArrLegal, Clients
    <3>2. tensor'[t] # N!NoTensor  BY <3>1 DEF N!NoTensor
    <3>3. \A y \in Clients : Claim(y)' = t => x = y  BY <1>7, <1>10, <2>1
    <3> QED  BY <3>1, <3>2, <3>3
  <2>2. CASE x # c
    <3>1. Claim(x)' = Claim(x) /\ Claim(x) \in Tensor /\ Claim(x) # t
      BY <1>7, <1>10, <2>2, ArrFacts
    <3>2. tensor'[Claim(x)] = tensor[Claim(x)]  BY <1>6, <3>1
    <3>3. /\ tensor[Claim(x)] # N!NoTensor
          /\ tensor[Claim(x)].ctx \in Handle =>
               tensor[Claim(x)].data = tensor[handle[tensor[Claim(x)].ctx].t].data
          /\ \A y \in Clients : Claim(y) = Claim(x) => x = y \/ OwnOf(Claim(x))
      BY <2>2, <3>1 DEF ArrInv, ClaimsRight
    <3>4. tensor[Claim(x)].ctx \in Handle =>
             tensor'[handle[tensor[Claim(x)].ctx].t] = tensor[handle[tensor[Claim(x)].ctx].t]
      <4> SUFFICES ASSUME tensor[Claim(x)].ctx \in Handle
                   PROVE  tensor'[handle[tensor[Claim(x)].ctx].t]
                              = tensor[handle[tensor[Claim(x)].ctx].t]
        OBVIOUS
      <4>1. Use(x) = tensor[Claim(x)].ctx  BY <3>1 DEF Use, Claim
      <4>2. handle[tensor[Claim(x)].ctx].t \in Tensor  BY <4>1, Attended, ArrFacts
      <4> QED  BY <1>6, <1>7, <4>2
    <3>5. OwnOf(Claim(x)) => OwnOf(Claim(x))'
      BY <1>1, <3>1, <3>2 DEF OwnOf
    <3>6. ASSUME NEW y \in Clients, Claim(y)' = Claim(x) PROVE x = y \/ OwnOf(Claim(x))'
      <4>1. y # c
        <5> SUFFICES ASSUME y = c PROVE FALSE  OBVIOUS
        <5>1. c # None  BY DEF Clients, ArrLegal
        <5> QED  BY <1>10, <3>1, <3>6, <5>1
      <4> QED  BY <1>10, <3>3, <3>5, <3>6, <4>1
    <3>7. \A y \in Clients : Claim(y)' = Claim(x)' => x = y \/ OwnOf(Claim(x))'
      BY <3>1, <3>6
    <3> QED  BY <1>1, <3>1, <3>2, <3>3, <3>4, <3>7
  <2> QED  BY <2>1, <2>2
<1>15. UsesRight'
  <2> SUFFICES ASSUME NEW g \in Handle, NEW x \in Clients, Use(x)' = g
               PROVE  handle'[g].lent \/ handle'[g].owner = tensor'[handle'[g].t].data
    BY DEF UsesRight, Founded
  <2>1. Use(x) = g  BY <1>10
  <2>2. handle[g].t \in Tensor  BY <2>1, Attended, ArrFacts
  <2>3. tensor'[handle[g].t] = tensor[handle[g].t]  BY <1>6, <1>7, <2>2
  <2> QED  BY <1>1, <2>1, <2>3 DEF ArrInv, UsesRight, Founded
<1>16. ImportRight'
  <2>1. import'.src = o /\ import'.capsule = c /\ import'.t = t  BY <1>1
  <2>2. obj'[o].kind = "data"  BY <1>1, <1>4, <1>5 DEF ArrLegal
  <2>3. c # None => obj'[c].kind = "capsule" /\ obj'[c].t = t /\ c \notin held'
    BY <1>1, <1>2, <1>4, <1>5
  <2>4. c = None => \A x \in Clients : Claim(x)' # t
    BY <1>7, <1>10 DEF Clients, ArrLegal
  <2>5. tensor'[t].ctx = o  BY <1>3, <1>6
  <2> QED  BY <1>1, <2>1, <2>2, <2>3, <2>4, <2>5 DEF ImportRight
<1>17. RcRight'
  <2>1. \A g \in Handle : Times(uses', Clients, g) = Times(uses, Clients, g)
    <3>1. CASE c = None
      <4>1. \A x \in Clients : Use(x)' = Use(x)  BY <1>10, <3>1 DEF Clients, ArrLegal
      <4> QED  BY <4>1, UsesSame
    <3>2. CASE c # None
      <4>1. c \in Clients  BY <1>4, <3>2 DEF Clients
      <4>2. \A g : Times(uses', Clients, g) = Times(uses, Clients, g) + One(o, g) - One(None, g)
        BY <1>10, <3>2, <4>1, UsesMove
      <4>3. \A g \in Handle : One(o, g) = 0 /\ One(None, g) = 0  BY DEF One, ArrLegal
      <4> QED  BY <4>2, <4>3, CountNat
    <3> QED  BY <3>1, <3>2
  <2> QED  BY <1>1, <2>1 DEF ArrInv, RcRight
<1>18. RefsRight'
  <2>1. /\ \A x : Times(owners', Handle, x) = Times(owners, Handle, x)
        /\ \A x : Times(selves', Handle, x) = Times(selves, Handle, x)
    BY <1>1, OwnersSame, SelvesSame
  <2>2. \A x : Times(ctxs', Tensor, x) = Times(ctxs, Tensor, x) + One(o, x) - One(None, x)
    BY <1>3, <1>6, <1>7, CtxsMove
  <2>3. \A x : Times(bases', Obj, x) = Times(bases, Obj, x)
    <3>1. ASSUME NEW x \in Obj PROVE obj'[x].base = obj[x].base
      <4>1. CASE x = c
        <5>1. c # None  BY <4>1 DEF ArrLegal
        <5> QED  BY <1>2, <1>4, <1>5, <4>1, <5>1
      <4>2. CASE x # c  BY <1>5, <4>2
      <4> QED  BY <4>1, <4>2
    <3> QED  BY <3>1, BasesSame
  <2>4. ASSUME NEW x \in Obj
        PROVE  counts'[x] = (IF x \in held' THEN 1 ELSE 0) + Times(owners', Handle, x)
                   + Times(selves', Handle, x) + Times(ctxs', Tensor, x) + Times(bases', Obj, x)
                   + One(import'.capsule, x)
    <3>1. counts[x] = (IF x \in held THEN 1 ELSE 0) + Times(owners, Handle, x)
              + Times(selves, Handle, x) + Times(ctxs, Tensor, x) + Times(bases, Obj, x)
              + One(import.capsule, x)
      BY DEF ArrInv, RefsRight
    <3>2. /\ One(import.capsule, x) = 0 /\ One(c, x) \in Nat /\ import'.capsule = c
          /\ One(o, x) \in Nat /\ One(None, x) = 0
      BY <1>1 DEF One, N!NoImport, ArrLegal
    <3>3. (IF x \in held THEN 1 ELSE 0) \in Nat  OBVIOUS
    <3> QED  BY <1>1, <1>8, <2>1, <2>2, <2>3, <3>1, <3>2, <3>3, CountNat
  <2> QED  BY <2>4 DEF RefsRight
<1> QED
  BY <1>1, <1>9, <1>11, <1>12, <1>13, <1>14, <1>15, <1>16, <1>17, <1>18 DEF ArrInv

\* A new handle takes a tensor over, from a capsule if there is one.
LEMMA TakenOver ==
    ASSUME ArrLegal, ArrInv, NEW h \in Handle, handle[h] = N!NoHandle, NEW t \in Tensor,
           NEW src \in Obj \cup {None}, NEW c \in Obj \cup {None},
           src # None => obj[src].kind \in {"data", "array"},
           c # None => obj[c].kind = "capsule" /\ obj[c].t = t,
           c = None => tensor[t].ctx \in Obj /\ \A x \in Clients : Claim(x) # t,
           handle' = N!Wrapped(h, t, src), obj' = N!Neutralized(c), tensor' = tensor
    PROVE  /\ handle' \in [Handle -> HandleRec] /\ obj' \in [Obj -> ObjRec]
           /\ ObjsRight' /\ HandlesRight' /\ TensorsRight' /\ ClaimsRight' /\ UsesRight'
           /\ RcRight'
           /\ \A x \in Obj : x # c => obj'[x] = obj[x]
           /\ \A x \in Clients : x # h /\ x # c => Claim(x)' = Claim(x)
           /\ Claim(h)' = t /\ (c # None => Claim(c)' = None)
           /\ \A x : Times(owners', Handle, x) = Times(owners, Handle, x)
           /\ \A x \in Obj : Times(selves', Handle, x) = Times(selves, Handle, x) + One(src, x)
           /\ \A x : Times(ctxs', Tensor, x) = Times(ctxs, Tensor, x)
           /\ \A x : Times(bases', Obj, x) = Times(bases, Obj, x)
<1> DEFINE k1 == [N!NoHandle EXCEPT !.rc = 1]
           k2 == [k1 EXCEPT !.cpp = 1]
           k3 == [k2 EXCEPT !.self = src]
           k4 == [k3 EXCEPT !.t = t]
           n == [k4 EXCEPT !.call_deleter = TRUE]
           u == [obj[c] EXCEPT !.kind = "used"]
<1>1. handle' = [handle EXCEPT ![h] = n]
  <2>1. n = [N!NoHandle EXCEPT !.rc = 1, !.cpp = 1, !.self = src, !.t = t, !.call_deleter = TRUE]
    OBVIOUS
  <2> HIDE DEF n
  <2> QED  BY <2>1 DEF N!Wrapped
<1>2. /\ n.rc = 1 /\ n.cpp = 1 /\ n.owner = None /\ n.self = src /\ n.t = t
      /\ n.call_deleter /\ ~n.lent
  BY DEF N!NoHandle
<1>3. n \in HandleRec
  <2>1. N!NoHandle \in HandleRec  BY DEF N!NoHandle, HandleRec
  <2>2. k1 \in HandleRec  BY <2>1 DEF HandleRec
  <2> HIDE DEF k1
  <2>3. k2 \in HandleRec  BY <2>2 DEF HandleRec
  <2> HIDE DEF k2
  <2>4. k3 \in HandleRec  BY <2>3 DEF HandleRec
  <2> HIDE DEF k3
  <2>5. k4 \in HandleRec  BY <2>4 DEF HandleRec
  <2> HIDE DEF k4
  <2> QED  BY <2>5 DEF HandleRec
<1>4. c # None => /\ obj' = [obj EXCEPT ![c] = u] /\ u \in ObjRec /\ u.kind = "used"
                  /\ u.t = t /\ u.base = obj[c].base /\ c \in Obj
  BY DEF N!Neutralized, ArrInv, ArrTypes, ObjRec, ObjKinds
<1>5. c = None => obj' = obj  BY DEF N!Neutralized
<1> HIDE DEF n, u
<1>6. /\ handle' \in [Handle -> HandleRec] /\ handle'[h] = n
      /\ \A g \in Handle : g # h => handle'[g] = handle[g]
  BY <1>1, <1>3 DEF ArrInv, ArrTypes
<1>7. /\ obj' \in [Obj -> ObjRec] /\ \A x \in Obj : x # c => obj'[x] = obj[x]
      /\ c # None => obj'[c] = u
  <2>1. CASE c = None  BY <1>5, <2>1 DEF ArrInv, ArrTypes
  <2>2. CASE c # None  BY <1>4, <2>2 DEF ArrInv, ArrTypes
  <2> QED  BY <2>1, <2>2
<1>8. /\ handle[h].rc = 0 /\ handle[h].owner = None /\ handle[h].self = None
      /\ handle[h].t = None /\ ~handle[h].call_deleter
  BY DEF N!NoHandle
<1>9. \A x \in Clients : Use(x) # h  BY <1>8, Unattended
<1>10. /\ h \in Clients /\ h \notin Obj /\ h # c /\ h # None /\ t # None
       /\ c # None => c \in Clients
  BY DEF Clients, ArrLegal
<1>11. c # None => Claim(c) = t /\ Use(c) = tensor[t].ctx
  BY <1>4 DEF Claim, Use
<1>12. /\ Claim(h) = None /\ Use(h) = None /\ Claim(h)' = t /\ Use(h)' = tensor[t].ctx
       /\ c # None => Claim(c)' = None /\ Use(c)' = None
  <2>1. Claim(h) = None /\ Use(h) = None  BY <1>8, <1>10 DEF Claim, Use, ArrLegal
  <2>2. Claim(h)' = t /\ Use(h)' = tensor[t].ctx  BY <1>2, <1>6, <1>10 DEF Claim, Use
  <2>3. c # None => Claim(c)' = None /\ Use(c)' = None
    BY <1>4, <1>7 DEF Claim, Use, ArrLegal
  <2> QED  BY <2>1, <2>2, <2>3
<1>13. \A x \in Clients : x # h /\ x # c => Claim(x)' = Claim(x) /\ Use(x)' = Use(x)
  <2> SUFFICES ASSUME NEW x \in Clients, x # h, x # c
               PROVE  Claim(x)' = Claim(x) /\ Use(x)' = Use(x)
    OBVIOUS
  <2>1. Claim(x)' = Claim(x)
    <3>1. CASE x \in Obj  BY <1>7, <3>1 DEF Claim
    <3>2. CASE x \in Handle /\ x \notin Obj  BY <1>6, <3>2 DEF Claim
    <3> QED  BY <3>1, <3>2 DEF Clients
  <2> QED  BY <1>7, <2>1 DEF Use
<1>14. tensor[t] # N!NoTensor
  <2>1. CASE c = None  BY <2>1 DEF N!NoTensor, ArrLegal
  <2>2. CASE c # None  BY <1>10, <1>11, <2>2 DEF ArrInv, ClaimsRight
  <2> QED  BY <2>1, <2>2
<1>15. tensor[t].ctx # h
  <2>1. CASE c = None  BY <2>1 DEF ArrLegal
  <2>2. CASE c # None  BY <1>9, <1>10, <1>11, <2>2
  <2> QED  BY <2>1, <2>2
<1>16. ASSUME NEW o \in Obj, obj[o].kind \in {"data", "array"} PROVE obj'[o] = obj[o]
  <2>1. o # c  BY <1>16 DEF ArrLegal
  <2> QED  BY <1>7, <2>1
<1>17. ObjsRight'
  <2>1. ASSUME c # None PROVE Alike(c)'
    <3>1. Alike(c)  BY <1>4, <2>1 DEF ArrInv, ObjsRight
    <3>2. obj[c].base = None  BY <1>10, <2>1, <3>1 DEF Alike
    <3> QED  BY <1>4, <1>7, <2>1, <3>2 DEF Alike
  <2>2. \A x \in Obj : x # c => Alike(x)'  BY <1>7 DEF ArrInv, ObjsRight, Alike
  <2> QED  BY <2>1, <2>2 DEF ObjsRight, ArrLegal
<1>18. HandlesRight'
  <2>1. Shaped(h)'
    <3>1. src # None => obj'[src].kind \in {"data", "array"}  BY <1>16
    <3> QED  BY <1>2, <1>6, <1>10, <1>14, <1>15, <3>1 DEF Shaped
  <2>2. ASSUME NEW g \in Handle, g # h PROVE Shaped(g)'
    <3>1. Shaped(g) /\ handle'[g] = handle[g]  BY <1>6, <2>2 DEF ArrInv, HandlesRight
    <3>2. /\ handle[g].owner # None => obj'[handle[g].owner] = obj[handle[g].owner]
          /\ handle[g].self # None => obj'[handle[g].self] = obj[handle[g].self]
      BY <1>16, <3>1, ArrFacts DEF Shaped
    <3> QED  BY <3>1, <3>2 DEF Shaped
  <2> QED  BY <2>1, <2>2 DEF HandlesRight
<1>19. TensorsRight'
  <2> SUFFICES ASSUME NEW s \in Tensor PROVE Formed(s)'
    BY DEF TensorsRight
  <2>1. Formed(s)  BY DEF ArrInv, TensorsRight
  <2>2. tensor[s].ctx \in Obj => obj'[tensor[s].ctx] = obj[tensor[s].ctx]
    BY <1>16, <2>1 DEF Formed
  <2> QED  BY <2>1, <2>2 DEF Formed
<1>20. ASSUME NEW x \in Clients, NEW s, Claim(x) = s, s # None
       PROVE  /\ tensor[s] # N!NoTensor
              /\ tensor[s].ctx \in Handle => tensor[s].data = tensor[handle'[tensor[s].ctx].t].data
              /\ OwnOf(s) => OwnOf(s)'
              /\ \A y \in Clients : Claim(y) = s => x = y \/ OwnOf(s)
  <2>1. s \in Tensor /\ Use(x) # h  BY <1>9, <1>20, ArrFacts
  <2>2. tensor[s].ctx \in Handle =>
            tensor[s].ctx # h /\ handle'[tensor[s].ctx] = handle[tensor[s].ctx]
    <3>1. Use(x) = tensor[s].ctx  BY <1>20, <2>1 DEF Use, Claim
    <3> QED  BY <1>6, <2>1, <3>1
  <2>3. OwnOf(s) => OwnOf(s)'  BY <2>2 DEF OwnOf
  <2>4. OwnOf(Claim(x)) <=> OwnOf(s)  BY <1>20
  <2> QED  BY <1>20, <2>2, <2>3, <2>4 DEF ArrInv, ClaimsRight
<1>21. ClaimsRight'
  <2> SUFFICES ASSUME NEW x \in Clients, NEW s, Claim(x)' = s, s # None
               PROVE  /\ tensor[s] # N!NoTensor
                      /\ tensor[s].ctx \in Handle =>
                            tensor[s].data = tensor[handle'[tensor[s].ctx].t].data
                      /\ \A y \in Clients : Claim(y)' = s => x = y \/ OwnOf(s)'
    BY DEF ClaimsRight, OwnOf
  <2>1. CASE x = h
    <3>1. s = t  BY <1>12, <2>1
    <3>2. tensor[t].ctx \in Handle => c # None  BY DEF ArrLegal
    <3>3. tensor[t].ctx \in Handle => tensor[t].data = tensor[handle'[tensor[t].ctx].t].data
      BY <1>10, <1>11, <1>20, <3>2
    <3>4. ASSUME NEW y \in Clients, Claim(y)' = t PROVE x = y \/ OwnOf(t)'
      <4>1. CASE y = h  BY <2>1, <4>1
      <4>2. CASE y # h
        <5>1. y # c
          <6> SUFFICES ASSUME y = c PROVE FALSE  OBVIOUS
          <6>1. c # None  BY DEF Clients, ArrLegal
          <6> QED  BY <1>10, <1>12, <3>4, <6>1
        <5>2. Claim(y) = t  BY <1>13, <3>4, <4>2, <5>1
        <5>3. c # None  BY <5>2
        <5>4. OwnOf(t)  BY <1>10, <1>11, <1>20, <5>1, <5>2, <5>3
        <5> QED  BY <1>10, <1>11, <1>20, <5>3, <5>4
      <4> QED  BY <4>1, <4>2
    <3>5. \A y \in Clients : Claim(y)' = s => x = y \/ OwnOf(s)'
      BY <3>1, <3>4 DEF OwnOf
    <3> QED  BY <1>14, <3>1, <3>3, <3>5
  <2>2. CASE x # h
    <3>1. x # c
      <4> SUFFICES ASSUME x = c PROVE FALSE  OBVIOUS
      <4>1. c # None  BY DEF Clients, ArrLegal
      <4> QED  BY <1>12, <4>1
    <3>2. Claim(x) = s  BY <1>13, <2>2, <3>1
    <3>3. /\ tensor[s] # N!NoTensor
          /\ tensor[s].ctx \in Handle => tensor[s].data = tensor[handle'[tensor[s].ctx].t].data
          /\ OwnOf(s) => OwnOf(s)'
          /\ \A y \in Clients : Claim(y) = s => x = y \/ OwnOf(s)
      BY <1>20, <3>2
    <3>4. ASSUME NEW y \in Clients, Claim(y)' = s PROVE x = y \/ OwnOf(s)'
      <4>1. CASE y = h
        <5>1. s = t  BY <1>12, <3>4, <4>1
        <5>2. c # None  BY <3>2, <5>1
        <5> QED  BY <1>10, <1>11, <3>1, <3>3, <5>1, <5>2
      <4>2. CASE y = c
        <5>1. c # None  BY <4>2 DEF Clients, ArrLegal
        <5> QED  BY <1>12, <3>4, <4>2, <5>1
      <4>3. CASE y # h /\ y # c  BY <1>13, <3>3, <3>4, <4>3
      <4> QED  BY <4>1, <4>2, <4>3
    <3> QED  BY <3>3, <3>4
  <2> QED  BY <2>1, <2>2
<1>22. UsesRight'
  <2> SUFFICES ASSUME NEW g \in Handle, NEW x \in Clients, Use(x)' = g
               PROVE  handle'[g].lent \/ handle'[g].owner = tensor[handle'[g].t].data
    BY DEF UsesRight, Founded
  <2>1. g # None  BY DEF ArrLegal
  <2>2. \E y \in Clients : Use(y) = g
    <3>1. CASE x = h
      <4>1. tensor[t].ctx = g  BY <1>12, <3>1
      <4>2. c # None  BY <4>1 DEF ArrLegal
      <4> QED  BY <1>10, <1>11, <4>1, <4>2
    <3>2. CASE x = c
      <4>1. c # None  BY <3>2 DEF Clients, ArrLegal
      <4> QED  BY <1>12, <2>1, <3>2, <4>1
    <3>3. CASE x # h /\ x # c  BY <1>13, <3>3
    <3> QED  BY <3>1, <3>2, <3>3
  <2>3. g # h /\ handle'[g] = handle[g]  BY <1>6, <1>9, <2>2
  <2> QED  BY <2>2, <2>3 DEF ArrInv, UsesRight, Founded
<1>23. RcRight'
  <2>1. \A g \in Handle : Times(uses', Clients, g) = Times(uses, Clients, g)
    <3>1. CASE c = None
      <4>1. \A x \in Clients : x # h => Use(x)' = Use(x)
        BY <1>13, <3>1 DEF Clients, ArrLegal
      <4>2. \A g : Times(uses', Clients, g) =
                       Times(uses, Clients, g) + One(tensor[t].ctx, g) - One(None, g)
        BY <1>10, <1>12, <4>1, UsesMove
      <4>3. \A g \in Handle : One(tensor[t].ctx, g) = 0 /\ One(None, g) = 0
        BY <3>1 DEF One, ArrLegal
      <4> QED  BY <4>2, <4>3, CountNat
    <3>2. CASE c # None
      <4>1. \A g : g # None => Times(uses', Clients, g) = Times(uses, Clients, g)
        BY <1>10, <1>11, <1>12, <1>13, <3>2, UsesPass
      <4> QED  BY <4>1 DEF ArrLegal
    <3> QED  BY <3>1, <3>2
  <2>2. handle[h].rc = handle[h].cpp + Times(uses, Clients, h) /\ handle[h].cpp = 0
    BY <1>8, Unattended DEF ArrInv, RcRight
  <2>3. Times(uses, Clients, h) = 0  BY <1>8, <2>2, CountNat
  <2> QED  BY <1>2, <1>6, <2>1, <2>3 DEF ArrInv, RcRight
<1>24. \A x : Times(owners', Handle, x) = Times(owners, Handle, x)
  BY <1>2, <1>6, <1>8, OwnersSame
<1>25. \A x \in Obj : Times(selves', Handle, x) = Times(selves, Handle, x) + One(src, x)
  <2>1. \A x : Times(selves', Handle, x) = Times(selves, Handle, x) + One(src, x) - One(None, x)
    BY <1>2, <1>6, <1>8, SelvesMove
  <2>2. \A x \in Obj : One(src, x) \in Nat /\ One(None, x) = 0  BY DEF One, ArrLegal
  <2> QED  BY <2>1, <2>2, CountNat
<1>26. \A x : Times(bases', Obj, x) = Times(bases, Obj, x)
  <2>1. ASSUME NEW x \in Obj PROVE obj'[x].base = obj[x].base
    <3>1. CASE x = c
      <4>1. c # None  BY <3>1 DEF ArrLegal
      <4> QED  BY <1>4, <1>7, <3>1, <4>1
    <3>2. CASE x # c  BY <1>7, <3>2
    <3> QED  BY <3>1, <3>2
  <2> QED  BY <2>1, BasesSame
<1> QED
  BY <1>6, <1>7, <1>12, <1>13, <1>17, <1>18, <1>19, <1>21, <1>22, <1>23, <1>24, <1>25, <1>26,
     CtxsSame

LEMMA AcceptInv ==
    ASSUME ArrLegal, ArrInv, NEW h \in Handle, N!Accept(h) PROVE ArrInv'
<1> DEFINE src == import.src
           c == import.capsule
           t == import.t
<1>1. /\ import # N!NoImport /\ handle[h] = N!NoHandle
      /\ handle' = N!Wrapped(h, t, src) /\ obj' = N!Neutralized(c) /\ tensor' = tensor
      /\ N!Refer({src}, {c}) /\ import' = N!NoImport /\ held' = held /\ aborted' = aborted
  BY DEF N!Accept, N!Unused
<1>2. /\ src \in Obj /\ t \in Tensor /\ obj[src].kind \in {"data", "array"}
      /\ c \in Obj \cup {None}
      /\ c # None => obj[c].kind = "capsule" /\ obj[c].t = t
      /\ c = None => tensor[t].ctx \in Obj /\ \A x \in Clients : Claim(x) # t
  BY <1>1 DEF ArrInv, ArrTypes, ImportRec, ImportRight
<1> HIDE DEF src, c, t
<1>3. /\ handle' \in [Handle -> HandleRec] /\ obj' \in [Obj -> ObjRec]
      /\ ObjsRight' /\ HandlesRight' /\ TensorsRight' /\ ClaimsRight' /\ UsesRight' /\ RcRight'
      /\ \A x : Times(owners', Handle, x) = Times(owners, Handle, x)
      /\ \A x \in Obj : Times(selves', Handle, x) = Times(selves, Handle, x) + One(src, x)
      /\ \A x : Times(ctxs', Tensor, x) = Times(ctxs, Tensor, x)
      /\ \A x : Times(bases', Obj, x) = Times(bases, Obj, x)
  BY <1>1, <1>2, TakenOver
<1>4. counts' = [x \in Obj |-> counts[x] + One(src, x) - One(c, x)]
  <2>1. ASSUME NEW x \in Obj
        PROVE  counts[x] + N!Count(x \in {src}) - N!Count(x \in {c})
                   = counts[x] + One(src, x) - One(c, x)
    BY DEF N!Count, One
  <2> QED  BY <1>1, <2>1 DEF N!Refer
<1>5. ArrTypes'
  <2>1. \A x \in Obj : counts'[x] \in Int  BY <1>4, ArrFacts DEF One
  <2>2. import' \in ImportRec  BY <1>1 DEF ImportRec, N!NoImport
  <2> QED  BY <1>1, <1>3, <1>4, <2>1, <2>2 DEF ArrInv, ArrTypes
<1>6. ImportRight'  BY <1>1 DEF ImportRight, N!NoImport
<1>7. RefsRight'
  <2>1. ASSUME NEW x \in Obj
        PROVE  counts'[x] = (IF x \in held' THEN 1 ELSE 0) + Times(owners', Handle, x)
                   + Times(selves', Handle, x) + Times(ctxs', Tensor, x) + Times(bases', Obj, x)
                   + One(import'.capsule, x)
    <3>1. counts[x] = (IF x \in held THEN 1 ELSE 0) + Times(owners, Handle, x)
              + Times(selves, Handle, x) + Times(ctxs, Tensor, x) + Times(bases, Obj, x)
              + One(c, x)
      BY DEF ArrInv, RefsRight, c
    <3>2. /\ One(import'.capsule, x) = 0 /\ One(c, x) \in Nat /\ One(src, x) \in Nat
      BY <1>1 DEF One, N!NoImport, ArrLegal
    <3>3. (IF x \in held THEN 1 ELSE 0) \in Nat  OBVIOUS
    <3> QED  BY <1>1, <1>3, <1>4, <3>1, <3>2, <3>3, CountNat
  <2> QED  BY <2>1 DEF RefsRight
<1> QED  BY <1>1, <1>3, <1>5, <1>6, <1>7 DEF ArrInv

LEMMA ImportCapsuleInv ==
    ASSUME ArrLegal, ArrInv, NEW h \in Handle, NEW c \in Obj, N!ImportCapsule(h, c) PROVE ArrInv'
<1> DEFINE t == obj[c].t
<1>1. /\ import = N!NoImport /\ obj[c].kind = "capsule" /\ handle[h] = N!NoHandle
      /\ handle' = N!Wrapped(h, t, None) /\ obj' = N!Neutralized(c) /\ tensor' = tensor
      /\ counts' = counts /\ import' = import /\ held' = held /\ aborted' = aborted
  BY DEF N!ImportCapsule, N!Unused
<1>2. t \in Tensor /\ c # None /\ obj[c].t = t
  BY <1>1 DEF ArrInv, ObjsRight, Alike, ArrLegal
<1> HIDE DEF t
<1>3. /\ handle' \in [Handle -> HandleRec] /\ obj' \in [Obj -> ObjRec]
      /\ ObjsRight' /\ HandlesRight' /\ TensorsRight' /\ ClaimsRight' /\ UsesRight' /\ RcRight'
      /\ \A x : Times(owners', Handle, x) = Times(owners, Handle, x)
      /\ \A x \in Obj : Times(selves', Handle, x) = Times(selves, Handle, x) + One(None, x)
      /\ \A x : Times(ctxs', Tensor, x) = Times(ctxs, Tensor, x)
      /\ \A x : Times(bases', Obj, x) = Times(bases, Obj, x)
  <2>1. None \in Obj \cup {None} /\ c \in Obj \cup {None}  OBVIOUS
  <2> QED  BY <1>1, <1>2, <2>1, TakenOver
<1>4. ArrTypes'  BY <1>1, <1>3 DEF ArrInv, ArrTypes
<1>5. ImportRight'  BY <1>1 DEF ImportRight, N!NoImport
<1>6. RefsRight'
  <2>1. \A x \in Obj : One(None, x) = 0  BY DEF One, ArrLegal
  <2>2. \A x \in Obj : Times(selves', Handle, x) = Times(selves, Handle, x)
    BY <1>3, <2>1, CountNat
  <2> QED  BY <1>1, <1>3, <2>2 DEF ArrInv, RefsRight
<1> QED  BY <1>1, <1>3, <1>4, <1>5, <1>6 DEF ArrInv

\* The deleter of a tensor spares the own tensor of a handle.
LEMMA DeletedBut ==
    ASSUME ArrLegal, ArrInv, NEW t, tensor' = N!Deleted(t, {})
    PROVE  /\ tensor' \in [Tensor -> TensorRec]
           /\ \A s \in Tensor : tensor'[s] = IF s = t /\ ~OwnOf(s) THEN N!NoTensor ELSE tensor[s]
<1>1. \A s \in Tensor : s = t =>
         ((\E h \in Handle : handle[h].t = t /\ tensor[t].ctx = h) <=> OwnOf(s))
  BY DEF OwnOf
<1>2. N!NoTensor \in TensorRec  BY DEF N!NoTensor, TensorRec
<1>3. \A s \in Tensor : tensor'[s] = IF s = t /\ ~OwnOf(s) THEN N!NoTensor ELSE tensor[s]
  BY <1>1 DEF N!Deleted
<1>4. \A s \in Tensor : tensor'[s] \in TensorRec  BY <1>2, <1>3 DEF ArrInv, ArrTypes
<1>5. tensor' = [s \in Tensor |-> tensor'[s]]
  BY DEF N!Deleted
<1> QED  BY <1>3, <1>4, <1>5

\* A client goes, with its reference.
Gone(x, u) ==
    /\ x \in Obj => counts[x] = 0
    /\ x \in Handle => handle[x].rc = 0 /\ handle[x].call_deleter
    /\ \A y \in Obj : obj'[y] = IF y = x THEN N!NoObj ELSE obj[y]
    /\ x \in Handle => handle'[x] = N!NoHandle
    /\ \A g \in Handle : g # x =>
          /\ handle'[g].cpp = handle[g].cpp /\ handle'[g].owner = handle[g].owner
          /\ handle'[g].self = handle[g].self /\ handle'[g].t = handle[g].t
          /\ handle'[g].call_deleter = handle[g].call_deleter
          /\ handle'[g].lent = handle[g].lent
          /\ handle'[g].rc = handle[g].rc - One(u, g)
          /\ g # u => handle'[g] = handle[g]
    /\ tensor' = N!Deleted(Claim(x), {})
    /\ import' = import /\ held' = held
LEMMA ClientGone ==
    ASSUME ArrLegal, ArrInv, NEW x \in Clients, NEW u, u = Use(x), Gone(x, u)
    PROVE  /\ tensor' \in [Tensor -> TensorRec]
           /\ ObjsRight' /\ HandlesRight' /\ TensorsRight' /\ ClaimsRight' /\ UsesRight'
           /\ ImportRight' /\ RcRight'
           /\ u \in Handle => u # x /\ handle[u].rc # 0
           /\ \A o \in Obj : Times(ctxs', Tensor, o) = Times(ctxs, Tensor, o)
                  - One(IF Claim(x) \in Tensor THEN tensor[Claim(x)].ctx ELSE None, o)
           /\ \A o \in Obj : Times(bases', Obj, o) = Times(bases, Obj, o)
                  - One(IF x \in Obj THEN obj[x].base ELSE None, o)
<1> DEFINE t == Claim(x)
<1>1. /\ \A y \in Obj : obj'[y] = IF y = x THEN N!NoObj ELSE obj[y]
      /\ x \in Handle => handle'[x] = N!NoHandle
      /\ \A g \in Handle : g # x =>
            /\ handle'[g].cpp = handle[g].cpp /\ handle'[g].owner = handle[g].owner
            /\ handle'[g].self = handle[g].self /\ handle'[g].t = handle[g].t
            /\ handle'[g].call_deleter = handle[g].call_deleter
            /\ handle'[g].lent = handle[g].lent
            /\ handle'[g].rc = handle[g].rc - One(u, g)
            /\ g # u => handle'[g] = handle[g]
      /\ import' = import /\ held' = held
  BY DEF Gone
<1>2. x \in Obj => /\ x \notin held /\ import.capsule # x
                   /\ \A h \in Handle : handle[h].owner # x /\ handle[h].self # x
                   /\ \A s \in Tensor : tensor[s].ctx # x
                   /\ \A v \in Obj : obj[v].base # x
  BY Unreferred DEF Gone
<1>3. x \in Handle => /\ handle[x].rc = 0 /\ handle[x].cpp = 0 /\ x \notin Obj
                      /\ \A y \in Clients : Use(y) # x
  BY Unattended DEF Gone, ArrLegal
<1>4. u \in Handle => u # x /\ handle[u].rc # 0 /\ handle[u].t # None
  <2> SUFFICES ASSUME u \in Handle PROVE u # x /\ handle[u].rc # 0 /\ handle[u].t # None
    OBVIOUS
  <2>1. handle[u].rc # 0 /\ handle[u].t # None  BY Attended
  <2> QED  BY <1>3, <2>1
<1>5. t \in Tensor \cup {None} /\ u \in Handle \cup Obj \cup {None} /\ None \notin Tensor
  BY ArrFacts DEF ArrLegal
<1>6. /\ tensor' \in [Tensor -> TensorRec]
      /\ \A s \in Tensor : tensor'[s] = IF s = t /\ ~OwnOf(s) THEN N!NoTensor ELSE tensor[s]
  BY DeletedBut DEF Gone
<1>7. \A y \in Clients : y # x => Claim(y)' = Claim(y)
  <2> SUFFICES ASSUME NEW y \in Clients, y # x PROVE Claim(y)' = Claim(y)
    OBVIOUS
  <2>1. CASE y \in Obj  BY <1>1, <2>1 DEF Claim
  <2>2. CASE y \in Handle /\ y \notin Obj  BY <1>1, <2>2 DEF Claim
  <2> QED  BY <2>1, <2>2 DEF Clients
<1>8. ASSUME NEW y \in Clients, y # x, NEW s \in Tensor, Claim(y) = s
      PROVE  tensor'[s] = tensor[s]
  <2>1. s = t => OwnOf(s)
    <3> SUFFICES ASSUME s = t PROVE OwnOf(s)
      OBVIOUS
    <3>1. OwnOf(Claim(x))  BY <1>5, <1>8 DEF ArrInv, ClaimsRight
    <3> QED  BY <3>1
  <2> QED  BY <1>6, <2>1
<1>9. \A y \in Clients : y # x => Use(y)' = Use(y)
  <2> SUFFICES ASSUME NEW y \in Clients, y # x PROVE Use(y)' = Use(y)
    OBVIOUS
  <2>1. Claim(y) \in Tensor => tensor'[Claim(y)] = tensor[Claim(y)]  BY <1>8
  <2>2. Claim(y)' = Claim(y)  BY <1>7
  <2>3. y \in Obj => obj'[y] = obj[y]  BY <1>1
  <2> QED  BY <2>1, <2>2, <2>3 DEF Use
<1>10. Claim(x)' = None /\ Use(x)' = None
  <2>1. Claim(x)' = None
    <3>1. CASE x \in Obj  BY <1>1, <3>1 DEF Claim, N!NoObj
    <3>2. CASE x \in Handle /\ x \notin Obj  BY <1>1, <3>2 DEF Claim, N!NoHandle
    <3> QED  BY <3>1, <3>2 DEF Clients
  <2>2. x \in Obj => obj'[x].kind = "none"  BY <1>1 DEF N!NoObj
  <2> QED  BY <1>5, <2>1, <2>2 DEF Use
<1>11. ASSUME NEW g \in Handle, g # x, handle[g].t # None
       PROVE  handle[g].t \in Tensor /\ tensor'[handle[g].t] = tensor[handle[g].t]
  <2>1. handle[g].t \in Tensor  BY <1>11, ArrFacts
  <2>2. CASE handle[g].call_deleter
    <3>1. Claim(g) = handle[g].t /\ g \in Clients  BY <2>2 DEF Claim, Clients, ArrLegal
    <3> QED  BY <1>8, <1>11, <2>1, <3>1
  <2>3. CASE ~handle[g].call_deleter
    <3>1. tensor[handle[g].t].ctx = g
      BY <1>11, <2>3 DEF ArrInv, HandlesRight, Shaped
    <3>2. OwnOf(handle[g].t)  BY <3>1 DEF OwnOf
    <3> QED  BY <1>6, <2>1, <3>2
  <2> QED  BY <2>1, <2>2, <2>3
<1> HIDE DEF t
<1>12. ObjsRight'
  <2>1. x \in Obj => Alike(x)'  BY <1>1 DEF Alike, N!NoObj
  <2>2. \A y \in Obj : y # x => Alike(y)'  BY <1>1 DEF ArrInv, ObjsRight, Alike
  <2> QED  BY <2>1, <2>2 DEF ObjsRight
<1>13. HandlesRight'
  <2>1. x \in Handle => Shaped(x)'  BY <1>1 DEF Shaped, N!NoHandle
  <2>2. ASSUME NEW g \in Handle, g # x PROVE Shaped(g)'
    <3>1. Shaped(g)  BY DEF ArrInv, HandlesRight
    <3>2. /\ handle[g].owner # None => obj'[handle[g].owner] = obj[handle[g].owner]
          /\ handle[g].self # None => obj'[handle[g].self] = obj[handle[g].self]
      BY <1>1, <1>2, ArrFacts
    <3>3. CASE handle[g].t = None
      <4>1. handle'[g] = handle[g]  BY <1>1, <1>4, <2>2, <3>3
      <4> QED  BY <3>1, <3>2, <3>3, <4>1 DEF Shaped
    <3>4. CASE handle[g].t # None
      BY <1>1, <1>11, <2>2, <3>1, <3>2, <3>4 DEF Shaped
    <3> QED  BY <3>3, <3>4
  <2> QED  BY <2>1, <2>2 DEF HandlesRight
<1>14. TensorsRight'
  <2> SUFFICES ASSUME NEW s \in Tensor PROVE Formed(s)'
    BY DEF TensorsRight
  <2>1. CASE tensor'[s] = N!NoTensor  BY <2>1 DEF Formed, N!NoTensor, ArrLegal
  <2>2. CASE tensor'[s] = tensor[s]
    <3>1. tensor[s].ctx \in Obj => obj'[tensor[s].ctx] = obj[tensor[s].ctx]
      BY <1>1, <1>2
    <3> QED  BY <2>2, <3>1 DEF ArrInv, TensorsRight, Formed
  <2> QED  BY <1>6, <2>1, <2>2
<1>15. ClaimsRight'
  <2> SUFFICES ASSUME NEW y \in Clients, NEW s, Claim(y)' = s, s # None
               PROVE  /\ tensor'[s] # N!NoTensor
                      /\ tensor'[s].ctx \in Handle =>
                            tensor'[s].data = tensor'[handle'[tensor'[s].ctx].t].data
                      /\ \A z \in Clients : Claim(z)' = s => y = z \/ OwnOf(s)'
    BY DEF ClaimsRight, OwnOf
  <2>1. y # x /\ Claim(y) = s /\ s \in Tensor  BY <1>7, <1>10, ArrFacts
  <2>2. tensor'[s] = tensor[s]  BY <1>8, <2>1
  <2>3. /\ tensor[s] # N!NoTensor
        /\ tensor[s].ctx \in Handle => tensor[s].data = tensor[handle[tensor[s].ctx].t].data
        /\ \A z \in Clients : Claim(z) = s => y = z \/ OwnOf(s)
    <3>1. OwnOf(Claim(y)) <=> OwnOf(s)  BY <2>1
    <3> QED  BY <2>1, <3>1 DEF ArrInv, ClaimsRight
  <2>4. tensor[s].ctx \in Handle =>
            /\ handle'[tensor[s].ctx].t = handle[tensor[s].ctx].t
            /\ tensor'[handle[tensor[s].ctx].t] = tensor[handle[tensor[s].ctx].t]
    <3> SUFFICES ASSUME tensor[s].ctx \in Handle
                 PROVE  /\ handle'[tensor[s].ctx].t = handle[tensor[s].ctx].t
                        /\ tensor'[handle[tensor[s].ctx].t] = tensor[handle[tensor[s].ctx].t]
      OBVIOUS
    <3>1. Use(y) = tensor[s].ctx  BY <1>5, <2>1 DEF Use, Claim
    <3>2. tensor[s].ctx # x /\ handle[tensor[s].ctx].t # None  BY <1>3, <3>1, Attended
    <3> QED  BY <1>1, <1>11, <3>2
  <2>5. OwnOf(s) => OwnOf(s)'  BY <2>2, <2>4 DEF OwnOf
  <2>6. ASSUME NEW z \in Clients, Claim(z)' = s PROVE y = z \/ OwnOf(s)'
    <3>1. z # x  BY <1>10, <2>6
    <3> QED  BY <1>7, <2>3, <2>5, <2>6, <3>1
  <2> QED  BY <2>2, <2>3, <2>4, <2>6
<1>16. UsesRight'
  <2> SUFFICES ASSUME NEW g \in Handle, NEW y \in Clients, Use(y)' = g
               PROVE  handle'[g].lent \/ handle'[g].owner = tensor'[handle'[g].t].data
    BY DEF UsesRight, Founded
  <2>1. y # x  BY <1>10 DEF ArrLegal
  <2>2. Use(y) = g  BY <1>9, <2>1
  <2>3. g # x /\ handle[g].t # None  BY <1>3, <2>2, Attended
  <2>4. tensor'[handle[g].t] = tensor[handle[g].t]  BY <1>11, <2>3
  <2> QED  BY <1>1, <2>2, <2>3, <2>4 DEF ArrInv, UsesRight, Founded
<1>17. ImportRight'
  <2> SUFFICES ASSUME import # N!NoImport
               PROVE  /\ import.src \in held' /\ import.t \in Tensor
                      /\ obj'[import.src].kind \in {"data", "array"}
                      /\ import.capsule # None =>
                            /\ obj'[import.capsule].kind = "capsule"
                            /\ obj'[import.capsule].t = import.t
                            /\ import.capsule \notin held'
                      /\ import.capsule = None =>
                            /\ tensor'[import.t].ctx = import.src
                            /\ \A y \in Clients : Claim(y)' # import.t
    BY <1>1 DEF ImportRight
  <2>1. /\ import.src \in held /\ import.t \in Tensor
        /\ obj[import.src].kind \in {"data", "array"}
        /\ import.capsule # None =>
              /\ obj[import.capsule].kind = "capsule" /\ obj[import.capsule].t = import.t
              /\ import.capsule \notin held
        /\ import.capsule = None =>
              /\ tensor[import.t].ctx = import.src
              /\ \A y \in Clients : Claim(y) # import.t
    BY DEF ArrInv, ImportRight
  <2>2. import.src \in Obj /\ import.src # x
    BY <1>2, <2>1 DEF ArrInv, ArrTypes
  <2>3. import.capsule # None => import.capsule \in Obj /\ import.capsule # x
    BY <1>2, <1>3 DEF ArrInv, ArrTypes, ImportRec
  <2>4. import.capsule = None => import.t # t /\ tensor'[import.t] = tensor[import.t]
    BY <1>6, <2>1 DEF t
  <2>5. import.capsule = None => \A y \in Clients : Claim(y)' # import.t
    BY <1>5, <1>7, <1>10, <2>1
  <2> QED  BY <1>1, <2>1, <2>2, <2>3, <2>4, <2>5
<1>18. RcRight'
  <2>1. \A g : Times(uses', Clients, g) = Times(uses, Clients, g) + One(None, g) - One(u, g)
    BY <1>9, <1>10, UsesMove
  <2>2. ASSUME NEW g \in Handle
        PROVE  handle'[g].rc = handle'[g].cpp + Times(uses', Clients, g)
    <3>1. handle[g].rc = handle[g].cpp + Times(uses, Clients, g)  BY DEF ArrInv, RcRight
    <3>2. handle[g].rc \in Int /\ handle[g].cpp \in Nat /\ Times(uses, Clients, g) \in Nat
      BY ArrFacts, CountNat
    <3>3. One(None, g) = 0 /\ One(u, g) \in Nat  BY DEF One, ArrLegal
    <3>4. CASE g = x
      <4>1. One(u, g) = 0  BY <1>4, <3>4 DEF One
      <4>2. handle'[g].rc = 0 /\ handle'[g].cpp = 0  BY <1>1, <3>4 DEF N!NoHandle
      <4>3. Times(uses, Clients, g) = 0  BY <1>3, <3>1, <3>2, <3>4
      <4> QED  BY <2>1, <3>3, <4>1, <4>2, <4>3
    <3>5. CASE g # x  BY <1>1, <2>1, <3>1, <3>2, <3>3, <3>5
    <3> QED  BY <3>4, <3>5
  <2> QED  BY <2>2 DEF RcRight
<1>19. \A o \in Obj : Times(ctxs', Tensor, o) = Times(ctxs, Tensor, o)
           - One(IF Claim(x) \in Tensor THEN tensor[Claim(x)].ctx ELSE None, o)
  <2> SUFFICES ASSUME NEW o \in Obj
               PROVE  Times(ctxs', Tensor, o) = Times(ctxs, Tensor, o)
                          - One(IF t \in Tensor THEN tensor[t].ctx ELSE None, o)
    BY DEF t
  <2>1. One(None, o) = 0 /\ Times(ctxs, Tensor, o) \in Nat  BY CountNat DEF One, ArrLegal
  <2>2. CASE t \notin Tensor \/ OwnOf(t)
    <3>1. \A s \in Tensor : tensor'[s] = tensor[s]  BY <1>6, <2>2
    <3>2. Same(ctxs, ctxs', Tensor)  BY <3>1 DEF Same, ctxs
    <3>3. Times(ctxs', Tensor, o) = Times(ctxs, Tensor, o)  BY <3>2, TimesSame
    <3>4. t \in Tensor => One(tensor[t].ctx, o) = 0  BY <2>2 DEF OwnOf, One, ArrLegal
    <3> QED  BY <2>1, <3>3, <3>4
  <2>3. CASE t \in Tensor /\ ~OwnOf(t)
    <3>1. tensor'[t].ctx = None /\ \A s \in Tensor : s # t => tensor'[s].ctx = tensor[s].ctx
      BY <1>6, <2>3 DEF N!NoTensor
    <3>2. Times(ctxs', Tensor, o) = Times(ctxs, Tensor, o) + One(None, o) - One(tensor[t].ctx, o)
      BY <2>3, <3>1, CtxsMove
    <3>3. One(tensor[t].ctx, o) \in Nat  BY DEF One
    <3> QED  BY <2>1, <2>3, <3>2, <3>3
  <2> QED  BY <2>2, <2>3
<1>20. \A o \in Obj : Times(bases', Obj, o) = Times(bases, Obj, o)
           - One(IF x \in Obj THEN obj[x].base ELSE None, o)
  <2> SUFFICES ASSUME NEW o \in Obj
               PROVE  Times(bases', Obj, o) = Times(bases, Obj, o)
                          - One(IF x \in Obj THEN obj[x].base ELSE None, o)
    OBVIOUS
  <2>1. One(None, o) = 0 /\ Times(bases, Obj, o) \in Nat  BY CountNat DEF One, ArrLegal
  <2>2. CASE x \in Obj
    <3>1. obj'[x].base = None /\ \A y \in Obj : y # x => obj'[y].base = obj[y].base
      BY <1>1, <2>2 DEF N!NoObj
    <3>2. Times(bases', Obj, o) = Times(bases, Obj, o) + One(None, o) - One(obj[x].base, o)
      BY <2>2, <3>1, BasesMove
    <3>3. One(obj[x].base, o) \in Nat  BY DEF One
    <3> QED  BY <2>1, <2>2, <3>2, <3>3
  <2>3. CASE x \notin Obj
    <3>1. \A y \in Obj : obj'[y].base = obj[y].base  BY <1>1, <2>3
    <3> QED  BY <2>1, <2>3, <3>1, BasesSame
  <2> QED  BY <2>2, <2>3
<1> QED
  BY <1>4, <1>6, <1>12, <1>13, <1>14, <1>15, <1>16, <1>17, <1>18, <1>19, <1>20

\* A tensor goes that nobody claims, with the handle whose own it is.
Alone(t, h) ==
    /\ \A x \in Clients : Claim(x) # t
    /\ tensor[t].ctx \in Obj \cup {h}
    /\ h \in Handle => handle[h].rc = 0 /\ ~handle[h].call_deleter
    /\ \A g \in Handle : handle'[g] = IF g = h THEN N!NoHandle ELSE handle[g]
    /\ \A s \in Tensor : tensor'[s] = IF s = t THEN N!NoTensor ELSE tensor[s]
    /\ obj' = obj
LEMMA TensorGone ==
    ASSUME ArrLegal, ArrInv, NEW t \in Tensor, NEW h, Alone(t, h)
    PROVE  /\ ObjsRight' /\ HandlesRight' /\ TensorsRight' /\ ClaimsRight' /\ UsesRight'
           /\ RcRight'
           /\ \A x \in Clients : Claim(x)' = Claim(x)
           /\ \A o \in Obj : Times(ctxs', Tensor, o) =
                                 Times(ctxs, Tensor, o) - One(tensor[t].ctx, o)
           /\ \A o : Times(bases', Obj, o) = Times(bases, Obj, o)
<1>1. /\ \A x \in Clients : Claim(x) # t
      /\ tensor[t].ctx \in Obj \cup {h}
      /\ \A g \in Handle : handle'[g] = IF g = h THEN N!NoHandle ELSE handle[g]
      /\ \A s \in Tensor : tensor'[s] = IF s = t THEN N!NoTensor ELSE tensor[s]
      /\ obj' = obj
  BY DEF Alone
<1>2. h \in Handle => /\ handle[h].rc = 0 /\ handle[h].cpp = 0 /\ ~handle[h].call_deleter
                      /\ \A x \in Clients : Use(x) # h
  BY Unattended DEF Alone
<1>3. \A x \in Clients : Claim(x)' = Claim(x)
  <2> SUFFICES ASSUME NEW x \in Clients PROVE Claim(x)' = Claim(x)
    OBVIOUS
  <2>1. CASE x = h /\ x \in Handle /\ x \notin Obj
    <3>1. ~handle'[x].call_deleter  BY <1>1, <2>1 DEF N!NoHandle
    <3> QED  BY <1>2, <2>1, <3>1 DEF Claim
  <2>2. CASE x # h \/ x \in Obj  BY <1>1, <2>2 DEF Claim, Clients
  <2> QED  BY <2>1, <2>2 DEF Clients
<1>4. \A x \in Clients : Use(x)' = Use(x)
  <2> SUFFICES ASSUME NEW x \in Clients PROVE Use(x)' = Use(x)
    OBVIOUS
  <2>1. Claim(x) \in Tensor => tensor'[Claim(x)] = tensor[Claim(x)]  BY <1>1
  <2>2. Claim(x)' = Claim(x)  BY <1>3
  <2> QED  BY <1>1, <2>1, <2>2 DEF Use
<1>5. ASSUME NEW g \in Handle, g # h, handle[g].t # None
      PROVE  handle[g].t \in Tensor /\ tensor'[handle[g].t] = tensor[handle[g].t]
  <2>1. handle[g].t \in Tensor  BY <1>5, ArrFacts
  <2>2. handle[g].t # t
    <3>1. CASE handle[g].call_deleter
      <4>1. Claim(g) = handle[g].t /\ g \in Clients  BY <3>1 DEF Claim, Clients, ArrLegal
      <4> QED  BY <1>1, <4>1
    <3>2. CASE ~handle[g].call_deleter
      <4>1. tensor[handle[g].t].ctx = g  BY <1>5, <3>2 DEF ArrInv, HandlesRight, Shaped
      <4> QED  BY <1>1, <1>5, <4>1 DEF ArrLegal
    <3> QED  BY <3>1, <3>2
  <2> QED  BY <1>1, <2>1, <2>2
<1>6. ObjsRight'  BY <1>1 DEF ArrInv, ObjsRight, Alike
<1>7. HandlesRight'
  <2>1. ASSUME h \in Handle PROVE Shaped(h)'
    <3>1. handle'[h] = N!NoHandle  BY <1>1, <2>1
    <3>2. N!NoHandle.t = None /\ N!NoHandle.self = None /\ N!NoHandle.owner = None
      BY DEF N!NoHandle
    <3> QED  BY <3>1, <3>2 DEF Shaped
  <2>2. ASSUME NEW g \in Handle, g # h PROVE Shaped(g)'
    <3>1. Shaped(g) /\ handle'[g] = handle[g]  BY <1>1, <2>2 DEF ArrInv, HandlesRight
    <3>2. handle[g].t # None => tensor'[handle[g].t] = tensor[handle[g].t]  BY <1>5, <2>2
    <3> QED  BY <1>1, <3>1, <3>2 DEF Shaped
  <2> QED  BY <2>1, <2>2 DEF HandlesRight
<1>8. TensorsRight'
  <2>1. Formed(t)'  BY <1>1 DEF Formed, N!NoTensor, ArrLegal
  <2>2. \A s \in Tensor : s # t => Formed(s)'
    BY <1>1 DEF ArrInv, TensorsRight, Formed
  <2> QED  BY <2>1, <2>2 DEF TensorsRight
<1>9. ClaimsRight'
  <2> SUFFICES ASSUME NEW y \in Clients, NEW s, Claim(y)' = s, s # None
               PROVE  /\ tensor'[s] # N!NoTensor
                      /\ tensor'[s].ctx \in Handle =>
                            tensor'[s].data = tensor'[handle'[tensor'[s].ctx].t].data
                      /\ \A z \in Clients : Claim(z)' = s => y = z \/ OwnOf(s)'
    BY DEF ClaimsRight, OwnOf
  <2>1. Claim(y) = s /\ s \in Tensor  BY <1>3, ArrFacts
  <2>2. tensor'[s] = tensor[s]  BY <1>1, <2>1
  <2>3. /\ tensor[s] # N!NoTensor
        /\ tensor[s].ctx \in Handle => tensor[s].data = tensor[handle[tensor[s].ctx].t].data
        /\ \A z \in Clients : Claim(z) = s => y = z \/ OwnOf(s)
    <3>1. OwnOf(Claim(y)) <=> OwnOf(s)  BY <2>1
    <3> QED  BY <2>1, <3>1 DEF ArrInv, ClaimsRight
  <2>4. tensor[s].ctx \in Handle =>
            /\ handle'[tensor[s].ctx] = handle[tensor[s].ctx]
            /\ tensor'[handle[tensor[s].ctx].t] = tensor[handle[tensor[s].ctx].t]
    <3> SUFFICES ASSUME tensor[s].ctx \in Handle
                 PROVE  /\ handle'[tensor[s].ctx] = handle[tensor[s].ctx]
                        /\ tensor'[handle[tensor[s].ctx].t] = tensor[handle[tensor[s].ctx].t]
      OBVIOUS
    <3>1. Use(y) = tensor[s].ctx  BY <2>1 DEF Use, Claim, ArrLegal
    <3>2. tensor[s].ctx # h /\ handle[tensor[s].ctx].t # None  BY <1>2, <3>1, Attended
    <3> QED  BY <1>1, <1>5, <3>2
  <2>5. OwnOf(s) => OwnOf(s)'  BY <2>2, <2>4 DEF OwnOf
  <2> QED  BY <1>3, <2>2, <2>3, <2>4, <2>5
<1>10. UsesRight'
  <2> SUFFICES ASSUME NEW g \in Handle, NEW y \in Clients, Use(y)' = g
               PROVE  handle'[g].lent \/ handle'[g].owner = tensor'[handle'[g].t].data
    BY DEF UsesRight, Founded
  <2>1. Use(y) = g  BY <1>4
  <2>2. g # h /\ handle[g].t # None  BY <1>2, <2>1, Attended
  <2>3. tensor'[handle[g].t] = tensor[handle[g].t]  BY <1>5, <2>2
  <2> QED  BY <1>1, <2>1, <2>2, <2>3 DEF ArrInv, UsesRight, Founded
<1>11. RcRight'
  <2>1. \A g : Times(uses', Clients, g) = Times(uses, Clients, g)  BY <1>4, UsesSame
  <2>2. ASSUME NEW g \in Handle
        PROVE  handle'[g].rc = handle'[g].cpp + Times(uses', Clients, g)
    <3>1. handle[g].rc = handle[g].cpp + Times(uses, Clients, g)  BY DEF ArrInv, RcRight
    <3>2. Times(uses, Clients, g) \in Nat  BY CountNat
    <3>3. CASE g = h  BY <1>1, <1>2, <2>1, <3>1, <3>2, <3>3 DEF N!NoHandle
    <3>4. CASE g # h  BY <1>1, <2>1, <3>1, <3>4
    <3> QED  BY <3>3, <3>4
  <2> QED  BY <2>2 DEF RcRight
<1>12. \A o \in Obj : Times(ctxs', Tensor, o) =
                          Times(ctxs, Tensor, o) - One(tensor[t].ctx, o)
  <2>1. tensor'[t].ctx = None  BY <1>1 DEF N!NoTensor
  <2>2. \A o : Times(ctxs', Tensor, o) =
                   Times(ctxs, Tensor, o) + One(None, o) - One(tensor[t].ctx, o)
    BY <1>1, <2>1, CtxsMove
  <2>3. \A o \in Obj : One(None, o) = 0 /\ One(tensor[t].ctx, o) \in Nat
    BY DEF One, ArrLegal
  <2> QED  BY <2>2, <2>3, CountNat
<1> QED
  BY <1>1, <1>3, <1>6, <1>7, <1>8, <1>9, <1>10, <1>11, <1>12, BasesSame

LEMMA RejectInv ==
    ASSUME ArrLegal, ArrInv, N!Reject PROVE ArrInv'
<1> DEFINE src == import.src
           c == import.capsule
           t == import.t
           w == IF c # None THEN c ELSE src
<1>1. /\ import # N!NoImport /\ N!Refer({}, {w}) /\ import' = N!NoImport
      /\ c # None => tensor' = tensor
      /\ c = None => tensor' = N!Deleted(t, {})
      /\ handle' = handle /\ obj' = obj /\ held' = held /\ aborted' = aborted
  BY DEF N!Reject
<1>2. /\ src \in Obj /\ t \in Tensor /\ c \in Obj \cup {None}
      /\ c = None => tensor[t].ctx = src /\ \A x \in Clients : Claim(x) # t
  BY <1>1 DEF ArrInv, ArrTypes, ImportRec, ImportRight
<1>3. counts' = [x \in Obj |-> counts[x] - One(w, x)]
  <2> HIDE DEF w
  <2>1. ASSUME NEW x \in Obj
        PROVE  counts[x] + N!Count(x \in {}) - N!Count(x \in {w}) = counts[x] - One(w, x)
    BY ArrFacts DEF N!Count, One
  <2> QED  BY <1>1, <2>1 DEF N!Refer
<1>4. tensor' \in [Tensor -> TensorRec]
  BY <1>1, DeletedBut DEF ArrInv, ArrTypes
<1>5. /\ ObjsRight' /\ HandlesRight' /\ TensorsRight' /\ ClaimsRight' /\ UsesRight' /\ RcRight'
      /\ \A o \in Obj : Times(ctxs', Tensor, o) = Times(ctxs, Tensor, o)
                                    - One(IF c = None THEN src ELSE None, o)
  <2>1. CASE c # None
    <3>1. /\ ObjsRight' /\ HandlesRight' /\ TensorsRight' /\ ClaimsRight'
      <4>1. ObjsRight' /\ TensorsRight'
        BY <1>1, <2>1 DEF ArrInv, ObjsRight, Alike, TensorsRight, Formed
      <4>2. HandlesRight'  BY <1>1, <2>1 DEF ArrInv, HandlesRight, Shaped
      <4>3. ClaimsRight'
        <5>1. \A x \in Clients : Claim(x)' = Claim(x)  BY <1>1 DEF Claim
        <5> QED  BY <1>1, <2>1, <5>1 DEF ArrInv, ClaimsRight, OwnOf
      <4> QED  BY <4>1, <4>2, <4>3
    <3>2. \A x \in Clients : Use(x)' = Use(x)  BY <1>1, <2>1 DEF Use, Claim
    <3>3. UsesRight'  BY <1>1, <2>1, <3>2 DEF ArrInv, UsesRight, Founded
    <3>4. RcRight'
      <4>1. \A g : Times(uses', Clients, g) = Times(uses, Clients, g)  BY <3>2, UsesSame
      <4> QED  BY <1>1, <4>1 DEF ArrInv, RcRight
    <3>5. \A o \in Obj : One(None, o) = 0 /\ One(c, o) \in Nat  BY DEF One, ArrLegal
    <3> QED  BY <1>1, <2>1, <3>1, <3>3, <3>4, <3>5, CtxsSame, CountNat
  <2>2. CASE c = None
    <3>1. ~OwnOf(t)  BY <1>2, <2>2 DEF OwnOf, ArrLegal
    <3>2. \A s \in Tensor : tensor'[s] = IF s = t THEN N!NoTensor ELSE tensor[s]
      BY <1>1, <2>2, <3>1, DeletedBut
    <3>3. Alone(t, None)  BY <1>1, <1>2, <2>2, <3>2 DEF Alone, ArrLegal
    <3>4. /\ ObjsRight' /\ HandlesRight' /\ TensorsRight' /\ ClaimsRight' /\ UsesRight' /\ RcRight'
          /\ \A o \in Obj : Times(ctxs', Tensor, o) =
                                Times(ctxs, Tensor, o) - One(tensor[t].ctx, o)
      BY <1>2, <3>3, TensorGone
    <3>5. \A o \in Obj : One(c, o) = 0 /\ One(tensor[t].ctx, o) = One(src, o)
                         /\ One(src, o) \in Nat
      BY <1>2, <2>2 DEF One, ArrLegal
    <3> QED  BY <2>2, <3>4, <3>5, CountNat
  <2> QED  BY <2>1, <2>2
<1>6. ArrTypes'
  <2>1. \A x \in Obj : counts'[x] \in Int  BY <1>3, ArrFacts DEF One
  <2>2. import' \in ImportRec  BY <1>1 DEF ImportRec, N!NoImport
  <2> QED  BY <1>1, <1>3, <1>4, <2>1, <2>2 DEF ArrInv, ArrTypes
<1>7. ImportRight'  BY <1>1 DEF ImportRight, N!NoImport
<1>8. RefsRight'
  <2>1. ASSUME NEW x \in Obj
        PROVE  counts'[x] = (IF x \in held' THEN 1 ELSE 0) + Times(owners', Handle, x)
                   + Times(selves', Handle, x) + Times(ctxs', Tensor, x) + Times(bases', Obj, x)
                   + One(import'.capsule, x)
    <3>1. counts[x] = (IF x \in held THEN 1 ELSE 0) + Times(owners, Handle, x)
              + Times(selves, Handle, x) + Times(ctxs, Tensor, x) + Times(bases, Obj, x)
              + One(c, x)
      BY DEF ArrInv, RefsRight
    <3>2. One(import'.capsule, x) = 0 /\ One(c, x) \in Nat /\ One(src, x) \in Nat
      BY <1>1 DEF One, N!NoImport, ArrLegal
    <3>3. One(w, x) = One(c, x) + One(IF c = None THEN src ELSE None, x)
      BY DEF One, ArrLegal
    <3>4. /\ Times(owners', Handle, x) = Times(owners, Handle, x)
          /\ Times(selves', Handle, x) = Times(selves, Handle, x)
          /\ Times(bases', Obj, x) = Times(bases, Obj, x)
      BY <1>1, OwnersSame, SelvesSame, BasesSame
    <3>5. Times(ctxs', Tensor, x) = Times(ctxs, Tensor, x)
                                        - One(IF c = None THEN src ELSE None, x)
      BY <1>5
    <3>6. (IF x \in held THEN 1 ELSE 0) \in Nat /\ One(IF c = None THEN src ELSE None, x) \in Nat
      BY DEF One
    <3> HIDE DEF src, c, w
    <3> QED  BY <1>1, <1>3, <3>1, <3>2, <3>3, <3>4, <3>5, <3>6, CountNat
  <2> QED  BY <2>1 DEF RefsRight
<1> QED  BY <1>1, <1>5, <1>6, <1>7, <1>8 DEF ArrInv

LEMMA DeallocInv ==
    ASSUME ArrLegal, ArrInv, NEW o \in Obj, N!Dealloc(o) PROVE ArrInv'
<1> DEFINE t == IF obj[o].kind \in {"capsule", "view"} THEN obj[o].t ELSE None
           ctx == IF t = None THEN None ELSE tensor[t].ctx
           u == IF obj[o].kind = "array" THEN obj[o].h ELSE ctx
           base == obj[o].base
<1>1. /\ counts[o] = 0 /\ obj' = [obj EXCEPT ![o] = N!NoObj] /\ tensor' = N!Deleted(t, {})
      /\ handle' = N!Released(handle, u) /\ aborted' = N!Underflow(u)
      /\ N!Refer({}, {ctx, base}) /\ held' = held /\ import' = import
  BY DEF N!Dealloc
<1>2. o \in Clients /\ o \notin Handle /\ t = Claim(o)
  BY DEF Clients, Claim, ArrLegal
<1>3. t \in Tensor \cup {None} /\ None \notin Tensor  BY <1>2, ArrFacts DEF ArrLegal
<1>4. u = Use(o)
  <2>1. obj[o].kind = "array" => Use(o) = obj[o].h  BY DEF Use
  <2>2. obj[o].kind # "array" => Use(o) = ctx  BY <1>2, <1>3 DEF Use
  <2> QED  BY <2>1, <2>2
<1>5. t # None => base = None
  <2>1. Alike(o)  BY DEF ArrInv, ObjsRight
  <2> QED  BY <2>1 DEF Alike
<1>6. ctx = IF Claim(o) \in Tensor THEN tensor[Claim(o)].ctx ELSE None
  BY <1>2, <1>3
<1>7. u \in Handle \cup Obj \cup {None}  BY <1>2, <1>4, ArrFacts
<1>8. ctx = None \/ base = None  BY <1>5
<1> HIDE DEF t, ctx, u, base
<1>9. /\ handle' \in [Handle -> HandleRec]
      /\ \A g \in Handle :
            /\ handle'[g].cpp = handle[g].cpp /\ handle'[g].owner = handle[g].owner
            /\ handle'[g].self = handle[g].self /\ handle'[g].t = handle[g].t
            /\ handle'[g].call_deleter = handle[g].call_deleter
            /\ handle'[g].lent = handle[g].lent
            /\ handle'[g].rc = handle[g].rc - One(u, g)
            /\ g # u => handle'[g] = handle[g]
  <2>1. CASE u \in Handle
    <3>1. handle[u] \in HandleRec  BY <2>1 DEF ArrInv, ArrTypes
    <3>2. [handle[u] EXCEPT !.rc = @ - 1] \in HandleRec  BY <3>1 DEF HandleRec
    <3>3. handle' = [handle EXCEPT ![u] = [handle[u] EXCEPT !.rc = @ - 1]]
      BY <1>1, <2>1 DEF N!Released
    <3>4. handle' \in [Handle -> HandleRec]  BY <3>2, <3>3 DEF ArrInv, ArrTypes
    <3>5. \A g \in Handle : g # u => handle'[g] = handle[g] /\ handle[g].rc \in Int
      BY <3>3, ArrFacts DEF ArrInv, ArrTypes
    <3>6. handle'[u] = [handle[u] EXCEPT !.rc = @ - 1]
      BY <2>1, <3>3 DEF ArrInv, ArrTypes
    <3>7. /\ handle'[u].cpp = handle[u].cpp /\ handle'[u].owner = handle[u].owner
          /\ handle'[u].self = handle[u].self /\ handle'[u].t = handle[u].t
          /\ handle'[u].call_deleter = handle[u].call_deleter
          /\ handle'[u].lent = handle[u].lent /\ handle'[u].rc = handle[u].rc - 1
      BY <3>1, <3>6 DEF HandleRec
    <3> QED  BY <2>1, <3>4, <3>5, <3>7 DEF One
  <2>2. CASE u \notin Handle
    <3>1. handle' = handle  BY <1>1, <2>2 DEF N!Released
    <3> QED  BY <2>2, <3>1, ArrFacts DEF One, ArrInv, ArrTypes
  <2> QED  BY <2>1, <2>2
<1>10. /\ obj' \in [Obj -> ObjRec]
       /\ \A y \in Obj : obj'[y] = IF y = o THEN N!NoObj ELSE obj[y]
  <2>1. N!NoObj \in ObjRec  BY DEF N!NoObj, ObjRec, ObjKinds
  <2> QED  BY <1>1, <2>1 DEF ArrInv, ArrTypes
<1>11. Gone(o, u)  BY <1>1, <1>2, <1>9, <1>10 DEF Gone
<1>12. /\ tensor' \in [Tensor -> TensorRec]
       /\ ObjsRight' /\ HandlesRight' /\ TensorsRight' /\ ClaimsRight' /\ UsesRight'
       /\ ImportRight' /\ RcRight'
       /\ u \in Handle => handle[u].rc # 0
       /\ \A x \in Obj : Times(ctxs', Tensor, x) = Times(ctxs, Tensor, x) - One(ctx, x)
       /\ \A x \in Obj : Times(bases', Obj, x) = Times(bases, Obj, x) - One(base, x)
  BY <1>2, <1>4, <1>6, <1>11, ClientGone DEF base
<1>13. counts' = [x \in Obj |-> counts[x] - One(ctx, x) - One(base, x)]
  <2>1. ASSUME NEW x \in Obj
        PROVE  counts[x] + N!Count(x \in {}) - N!Count(x \in {ctx, base})
                   = counts[x] - One(ctx, x) - One(base, x)
    BY <1>8, ArrFacts DEF N!Count, One, ArrLegal
  <2> QED  BY <1>1, <2>1 DEF N!Refer
<1>14. ArrTypes'
  <2>1. \A x \in Obj : counts'[x] \in Int  BY <1>13, ArrFacts DEF One
  <2> QED  BY <1>1, <1>9, <1>10, <1>12, <1>13, <2>1 DEF ArrInv, ArrTypes
<1>15. RefsRight'
  <2>1. ASSUME NEW x \in Obj
        PROVE  counts'[x] = (IF x \in held' THEN 1 ELSE 0) + Times(owners', Handle, x)
                   + Times(selves', Handle, x) + Times(ctxs', Tensor, x) + Times(bases', Obj, x)
                   + One(import'.capsule, x)
    <3>1. counts[x] = (IF x \in held THEN 1 ELSE 0) + Times(owners, Handle, x)
              + Times(selves, Handle, x) + Times(ctxs, Tensor, x) + Times(bases, Obj, x)
              + One(import.capsule, x)
      BY DEF ArrInv, RefsRight
    <3>2. One(import.capsule, x) \in Nat /\ One(ctx, x) \in Nat /\ One(base, x) \in Nat
      BY DEF One
    <3>3. /\ Times(owners', Handle, x) = Times(owners, Handle, x)
          /\ Times(selves', Handle, x) = Times(selves, Handle, x)
      BY <1>9, OwnersSame, SelvesSame
    <3>4. (IF x \in held THEN 1 ELSE 0) \in Nat  OBVIOUS
    <3> QED  BY <1>1, <1>12, <1>13, <3>1, <3>2, <3>3, <3>4, CountNat
  <2> QED  BY <2>1 DEF RefsRight
<1>16. ~aborted'  BY <1>1, <1>12 DEF N!Underflow
<1> QED  BY <1>12, <1>14, <1>15, <1>16 DEF ArrInv

LEMMA FreeHandleInv ==
    ASSUME ArrLegal, ArrInv, NEW h \in Handle, N!FreeHandle(h) PROVE ArrInv'
<1> DEFINE t == handle[h].t
           del == handle[h].call_deleter
           ctx == IF del THEN tensor[t].ctx ELSE None
           w == handle[h].owner
           s == handle[h].self
<1>1. /\ handle[h] # N!NoHandle /\ handle[h].rc = 0
      /\ handle' = [N!Released(handle, ctx) EXCEPT ![h] = N!NoHandle]
      /\ tensor' = N!Deleted(t, IF del THEN {} ELSE {t})
      /\ counts' = [o \in Obj |-> counts[o] - N!Count(o \in {w, s})
                                      - N!Count(del /\ o = tensor[t].ctx)]
      /\ aborted' = (del /\ N!Underflow(tensor[t].ctx))
      /\ obj' = obj /\ held' = held /\ import' = import
  BY DEF N!FreeHandle, N!Unused, N!Kept
<1>2. /\ t \in Tensor /\ t # None /\ (del <=> tensor[t].ctx # h) /\ (w = None \/ s = None)
      /\ h \in Clients /\ h \notin Obj
  <2>1. Shaped(h) /\ t \in Tensor \cup {None}  BY ArrFacts DEF ArrInv, HandlesRight
  <2> QED  BY <1>1, <2>1 DEF Shaped, Clients, ArrLegal
<1>3. Claim(h) = (IF del THEN t ELSE None) /\ Use(h) = ctx
  BY <1>2 DEF Claim, Use, ArrLegal
<1>4. /\ ctx \in Handle \cup Obj \cup {None} /\ w \in Obj \cup {None} /\ s \in Obj \cup {None}
      /\ \A x \in Clients : Use(x) # h
  BY <1>1, <1>2, <1>3, Unattended, ArrFacts
<1>5. ctx # h  BY <1>2, <1>3, <1>4
<1>6. counts' = [o \in Obj |-> counts[o] - One(w, o) - One(s, o) - One(ctx, o)]
  <2>1. ASSUME NEW o \in Obj
        PROVE  counts[o] - N!Count(o \in {w, s}) - N!Count(del /\ o = tensor[t].ctx)
                   = counts[o] - One(w, o) - One(s, o) - One(ctx, o)
    <3>1. N!Count(o \in {w, s}) = One(w, o) + One(s, o)
      BY <1>2 DEF N!Count, One, ArrLegal
    <3>2. N!Count(del /\ o = tensor[t].ctx) = One(ctx, o)
      BY DEF N!Count, One, ArrLegal
    <3>3. counts[o] \in Int /\ One(w, o) \in Int /\ One(s, o) \in Int /\ One(ctx, o) \in Int
      BY ArrFacts DEF One
    <3> QED  BY <3>1, <3>2, <3>3
  <2> QED  BY <1>1, <2>1
<1>7. tensor' \in [Tensor -> TensorRec]
  <2>1. CASE del  BY <1>1, <2>1, DeletedBut
  <2>2. CASE ~del
    <3>1. N!NoTensor \in TensorRec  BY DEF N!NoTensor, TensorRec
    <3>2. \A x \in Tensor : tensor[x] \in TensorRec  BY DEF ArrInv, ArrTypes
    <3> QED  BY <1>1, <2>2, <3>1, <3>2 DEF N!Deleted
  <2> QED  BY <2>1, <2>2
<1> HIDE DEF ctx, w, s
<1>8. /\ handle' \in [Handle -> HandleRec] /\ handle'[h] = N!NoHandle
      /\ \A g \in Handle : g # h =>
            /\ handle'[g].cpp = handle[g].cpp /\ handle'[g].owner = handle[g].owner
            /\ handle'[g].self = handle[g].self /\ handle'[g].t = handle[g].t
            /\ handle'[g].call_deleter = handle[g].call_deleter
            /\ handle'[g].lent = handle[g].lent
            /\ handle'[g].rc = handle[g].rc - One(ctx, g)
            /\ g # ctx => handle'[g] = handle[g]
  <2>1. N!NoHandle \in HandleRec  BY DEF N!NoHandle, HandleRec
  <2>2. CASE ctx \in Handle
    <3>1. handle[ctx] \in HandleRec  BY <2>2 DEF ArrInv, ArrTypes
    <3>2. [handle[ctx] EXCEPT !.rc = @ - 1] \in HandleRec  BY <3>1 DEF HandleRec
    <3>3. handle' = [[handle EXCEPT ![ctx] = [handle[ctx] EXCEPT !.rc = @ - 1]]
                        EXCEPT ![h] = N!NoHandle]
      BY <1>1, <2>2 DEF N!Released
    <3>4. handle' \in [Handle -> HandleRec]  BY <2>1, <3>2, <3>3 DEF ArrInv, ArrTypes
    <3>5. \A g \in Handle : g # ctx /\ g # h => handle'[g] = handle[g] /\ handle[g].rc \in Int
      BY <3>3, ArrFacts DEF ArrInv, ArrTypes
    <3>6. handle'[ctx] = [handle[ctx] EXCEPT !.rc = @ - 1] /\ handle'[h] = N!NoHandle
      BY <1>5, <2>2, <3>3 DEF ArrInv, ArrTypes
    <3>7. /\ handle'[ctx].cpp = handle[ctx].cpp /\ handle'[ctx].owner = handle[ctx].owner
          /\ handle'[ctx].self = handle[ctx].self /\ handle'[ctx].t = handle[ctx].t
          /\ handle'[ctx].call_deleter = handle[ctx].call_deleter
          /\ handle'[ctx].lent = handle[ctx].lent /\ handle'[ctx].rc = handle[ctx].rc - 1
      BY <3>1, <3>6 DEF HandleRec
    <3>8. ASSUME NEW g \in Handle, g # h
          PROVE  /\ handle'[g].cpp = handle[g].cpp /\ handle'[g].owner = handle[g].owner
                 /\ handle'[g].self = handle[g].self /\ handle'[g].t = handle[g].t
                 /\ handle'[g].call_deleter = handle[g].call_deleter
                 /\ handle'[g].lent = handle[g].lent
                 /\ handle'[g].rc = handle[g].rc - One(ctx, g)
                 /\ g # ctx => handle'[g] = handle[g]
      <4>1. CASE g = ctx
        <5>1. One(ctx, g) = 1  BY <4>1 DEF One
        <5> QED  BY <3>7, <4>1, <5>1
      <4>2. CASE g # ctx
        <5>1. One(ctx, g) = 0 /\ handle'[g] = handle[g] /\ handle[g].rc \in Int
          BY <3>5, <3>8, <4>2 DEF One
        <5> QED  BY <4>2, <5>1
      <4> QED  BY <4>1, <4>2
    <3> QED  BY <3>4, <3>6, <3>8
  <2>3. CASE ctx \notin Handle
    <3>1. handle' = [handle EXCEPT ![h] = N!NoHandle]  BY <1>1, <2>3 DEF N!Released
    <3>2. handle' \in [Handle -> HandleRec] /\ handle'[h] = N!NoHandle
      BY <2>1, <3>1 DEF ArrInv, ArrTypes
    <3>3. \A g \in Handle : g # h => handle'[g] = handle[g] /\ One(ctx, g) = 0
      BY <2>3, <3>1 DEF One, ArrInv, ArrTypes
    <3> QED  BY <3>2, <3>3, ArrFacts
  <2> QED  BY <2>2, <2>3
<1>9. /\ ObjsRight' /\ HandlesRight' /\ TensorsRight' /\ ClaimsRight' /\ UsesRight'
      /\ ImportRight' /\ RcRight' /\ ~aborted'
      /\ \A o \in Obj : Times(ctxs', Tensor, o) = Times(ctxs, Tensor, o) - One(ctx, o)
  <2>1. CASE del
    <3>1. Claim(h) = t /\ Use(h) = ctx /\ ctx = tensor[t].ctx  BY <1>3, <2>1 DEF ctx
    <3>2. Gone(h, ctx)
      <4>1. tensor' = N!Deleted(Claim(h), {})  BY <1>1, <2>1, <3>1
      <4>2. \A y \in Obj : obj'[y] = IF y = h THEN N!NoObj ELSE obj[y]  BY <1>1, <1>2
      <4> HIDE DEF t
      <4> QED  BY <1>1, <1>2, <1>8, <2>1, <4>1, <4>2 DEF Gone
    <3>3. /\ ObjsRight' /\ HandlesRight' /\ TensorsRight' /\ ClaimsRight' /\ UsesRight'
          /\ ImportRight' /\ RcRight'
          /\ ctx \in Handle => ctx # h /\ handle[ctx].rc # 0
          /\ \A o \in Obj : Times(ctxs', Tensor, o) = Times(ctxs, Tensor, o)
                 - One(IF Claim(h) \in Tensor THEN tensor[Claim(h)].ctx ELSE None, o)
      BY <1>2, <3>1, <3>2, ClientGone
    <3>4. ~aborted'  BY <1>1, <3>1, <3>3 DEF N!Underflow
    <3> QED  BY <1>2, <3>1, <3>3, <3>4
  <2>2. CASE ~del
    <3>1. ctx = None /\ tensor[t].ctx = h  BY <1>2, <2>2 DEF ctx
    <3>2. \A x \in Clients : Claim(x) # t
      <4> SUFFICES ASSUME NEW x \in Clients, Claim(x) = t PROVE FALSE  OBVIOUS
      <4>1. Use(x) = h  BY <1>2, <3>1 DEF Use, Claim
      <4> QED  BY <1>4, <4>1
    <3>3. \A x \in Tensor : tensor'[x] = IF x = t THEN N!NoTensor ELSE tensor[x]
      BY <1>1, <2>2 DEF N!Deleted
    <3>4. \A g \in Handle : handle'[g] = IF g = h THEN N!NoHandle ELSE handle[g]
      BY <1>8, <3>1 DEF ArrLegal
    <3>5. Alone(t, h)
      <4> HIDE DEF t
      <4> QED  BY <1>1, <2>2, <3>1, <3>2, <3>3, <3>4 DEF Alone
    <3>6. /\ ObjsRight' /\ HandlesRight' /\ TensorsRight' /\ ClaimsRight' /\ UsesRight' /\ RcRight'
          /\ \A x \in Clients : Claim(x)' = Claim(x)
          /\ \A o \in Obj : Times(ctxs', Tensor, o) =
                                Times(ctxs, Tensor, o) - One(tensor[t].ctx, o)
      <4> HIDE DEF t
      <4> QED  BY <1>2, <3>5, TensorGone
    <3>7. \A o \in Obj : One(tensor[t].ctx, o) = 0 /\ One(ctx, o) = 0
      BY <1>2, <3>1 DEF One, ArrLegal
    <3>8. ImportRight'
      <4>1. import # N!NoImport /\ import.capsule = None => import.t # t
        BY <1>2, <3>1 DEF ArrInv, ArrTypes, ImportRight
      <4>2. import # N!NoImport /\ import.capsule = None =>
                tensor'[import.t] = tensor[import.t]
        BY <3>3, <4>1 DEF ArrInv, ImportRight
      <4> QED  BY <1>1, <3>6, <4>2 DEF ArrInv, ImportRight
    <3>9. ~aborted'  BY <1>1, <2>2
    <3> QED  BY <3>6, <3>7, <3>8, <3>9
  <2> QED  BY <2>1, <2>2
<1>10. ArrTypes'
  <2>1. \A x \in Obj : counts'[x] \in Int  BY <1>6, ArrFacts DEF One
  <2> QED  BY <1>1, <1>6, <1>7, <1>8, <2>1 DEF ArrInv, ArrTypes
<1>11. RefsRight'
  <2>1. \A o : Times(owners', Handle, o) = Times(owners, Handle, o) + One(None, o) - One(w, o)
    <3>1. handle'[h].owner = None  BY <1>8 DEF N!NoHandle
    <3> QED  BY <1>8, <3>1, OwnersMove DEF w
  <2>2. \A o : Times(selves', Handle, o) = Times(selves, Handle, o) + One(None, o) - One(s, o)
    <3>1. handle'[h].self = None  BY <1>8 DEF N!NoHandle
    <3> QED  BY <1>8, <3>1, SelvesMove DEF s
  <2>3. \A o : Times(bases', Obj, o) = Times(bases, Obj, o)  BY <1>1, BasesSame
  <2>4. ASSUME NEW x \in Obj
        PROVE  counts'[x] = (IF x \in held' THEN 1 ELSE 0) + Times(owners', Handle, x)
                   + Times(selves', Handle, x) + Times(ctxs', Tensor, x) + Times(bases', Obj, x)
                   + One(import'.capsule, x)
    <3>1. counts[x] = (IF x \in held THEN 1 ELSE 0) + Times(owners, Handle, x)
              + Times(selves, Handle, x) + Times(ctxs, Tensor, x) + Times(bases, Obj, x)
              + One(import.capsule, x)
      BY DEF ArrInv, RefsRight
    <3>2. /\ One(import.capsule, x) \in Nat /\ One(ctx, x) \in Nat /\ One(w, x) \in Nat
          /\ One(s, x) \in Nat /\ One(None, x) = 0
      BY DEF One, ArrLegal
    <3>3. (IF x \in held THEN 1 ELSE 0) \in Nat  OBVIOUS
    <3> QED  BY <1>1, <1>6, <1>9, <2>1, <2>2, <2>3, <3>1, <3>2, <3>3, CountNat
  <2> QED  BY <2>4 DEF RefsRight
<1> QED  BY <1>9, <1>10, <1>11 DEF ArrInv

LEMMA ArrInit == ASSUME ArrLegal, N!Init PROVE ArrInv
<1>1. /\ handle = [h \in Handle |-> N!NoHandle] /\ tensor = [t \in Tensor |-> N!NoTensor]
      /\ obj = [o \in Obj |-> N!NoObj] /\ counts = [o \in Obj |-> 0]
      /\ held = {} /\ import = N!NoImport /\ aborted = FALSE
  BY DEF N!Init
<1>2. /\ \A h \in Handle : /\ handle[h] = N!NoHandle /\ handle[h].rc = 0 /\ handle[h].cpp = 0
                           /\ handle[h].owner = None /\ handle[h].self = None
                           /\ handle[h].t = None /\ ~handle[h].call_deleter
      /\ \A t \in Tensor : /\ tensor[t] = N!NoTensor /\ tensor[t].ctx = None
      /\ \A o \in Obj : /\ obj[o] = N!NoObj /\ obj[o].kind = "none" /\ obj[o].h = None
                        /\ obj[o].t = None /\ obj[o].base = None
      /\ import.src = None /\ import.capsule = None /\ import.t = None
  BY <1>1 DEF N!NoHandle, N!NoTensor, N!NoObj, N!NoImport
<1>3. /\ N!NoHandle \in HandleRec /\ N!NoTensor \in TensorRec /\ N!NoObj \in ObjRec
      /\ N!NoImport \in ImportRec
  BY DEF N!NoHandle, N!NoTensor, N!NoObj, N!NoImport, HandleRec, TensorRec, ObjRec, ObjKinds,
         ImportRec
<1>4. ArrTypes  BY <1>1, <1>3 DEF ArrTypes
<1>5. \A x \in Clients : Claim(x) = None /\ Use(x) = None
  BY <1>2 DEF Clients, Claim, Use, ArrLegal
<1>6. ObjsRight /\ HandlesRight /\ TensorsRight
  <2>1. ObjsRight  BY <1>2 DEF ObjsRight, Alike
  <2>2. HandlesRight  BY <1>2 DEF HandlesRight, Shaped
  <2>3. TensorsRight  BY <1>2 DEF TensorsRight, Formed, ArrLegal
  <2> QED  BY <2>1, <2>2, <2>3
<1>7. ClaimsRight /\ UsesRight /\ ImportRight
  BY <1>1, <1>5 DEF ClaimsRight, UsesRight, Founded, ImportRight, ArrLegal
<1>8. RcRight
  <2>1. ASSUME NEW h \in Handle PROVE Times(uses, Clients, h) = 0
    <3>1. {x \in Clients : uses[x] = h} = {}  BY <1>5 DEF uses, ArrLegal
    <3> QED  BY <3>1, FS_EmptySet DEF Times
  <2> QED  BY <1>2, <2>1 DEF RcRight
<1>9. RefsRight
  <2>1. ASSUME NEW o \in Obj
        PROVE  /\ Times(owners, Handle, o) = 0 /\ Times(selves, Handle, o) = 0
               /\ Times(ctxs, Tensor, o) = 0 /\ Times(bases, Obj, o) = 0
    <3>1. o # None  BY DEF ArrLegal
    <3>2. /\ {h \in Handle : owners[h] = o} = {} /\ {h \in Handle : selves[h] = o} = {}
          /\ {t \in Tensor : ctxs[t] = o} = {} /\ {v \in Obj : bases[v] = o} = {}
      BY <1>2, <3>1 DEF owners, selves, ctxs, bases
    <3> QED  BY <3>2, FS_EmptySet DEF Times
  <2>2. \A o \in Obj : One(import.capsule, o) = 0  BY <1>2 DEF One, ArrLegal
  <2> QED  BY <1>1, <2>1, <2>2 DEF RefsRight
<1> QED  BY <1>1, <1>4, <1>6, <1>7, <1>8, <1>9 DEF ArrInv

LEMMA ArrNext == ASSUME ArrLegal, ArrInv, [N!Next]_(N!ndarrayVars) PROVE ArrInv'
<1>1. CASE UNCHANGED N!ndarrayVars
  <2>1. /\ handle' = handle /\ tensor' = tensor /\ obj' = obj /\ counts' = counts
        /\ held' = held /\ import' = import /\ aborted' = aborted
    BY <1>1 DEF N!ndarrayVars
  <2>2. \A x \in Clients : Claim(x)' = Claim(x) /\ Use(x)' = Use(x)
    BY <2>1 DEF Claim, Use
  <2>3. import # N!NoImport => import.src \in held' /\ import.capsule \notin held'
    BY <2>1 DEF ArrInv, ImportRight, ArrTypes, ArrLegal
  <2>4. ObjsRight' /\ HandlesRight' /\ TensorsRight' /\ ClaimsRight' /\ UsesRight' /\ ImportRight'
    BY <2>1, <2>3, ArrStill
  <2>5. RcRight'
    <3>1. \A h : Times(uses', Clients, h) = Times(uses, Clients, h)  BY <2>2, UsesSame
    <3> QED  BY <2>1, <3>1 DEF ArrInv, RcRight
  <2>6. RefsRight'
    <3>1. /\ \A o : Times(owners', Handle, o) = Times(owners, Handle, o)
          /\ \A o : Times(selves', Handle, o) = Times(selves, Handle, o)
          /\ \A o : Times(ctxs', Tensor, o) = Times(ctxs, Tensor, o)
          /\ \A o : Times(bases', Obj, o) = Times(bases, Obj, o)
      BY <2>1, OwnersSame, SelvesSame, CtxsSame, BasesSame
    <3> QED  BY <2>1, <3>1 DEF ArrInv, RefsRight
  <2>7. ArrTypes'  BY <2>1 DEF ArrInv, ArrTypes
  <2> QED  BY <2>1, <2>4, <2>5, <2>6, <2>7 DEF ArrInv
<1>2. ASSUME NEW o \in Obj, N!NewData(o) \/ N!Drop(o) \/ N!Consume(o) \/ N!Dealloc(o) PROVE ArrInv'
  BY <1>2, DataInv, DropObjInv, ConsumeInv, DeallocInv
<1>3. ASSUME NEW h \in Handle,
             N!CopyArray(h) \/ N!DropArray(h) \/ N!FreeHandle(h) \/ N!Accept(h)
      PROVE  ArrInv'
  BY <1>3, CopyArrayInv, FreeHandleInv, AcceptInv
<1>4. ASSUME NEW h \in Handle, NEW t \in Tensor, NEW d \in Obj, NEW w \in Obj \cup {None},
             N!Create(h, t, d, w)
      PROVE  ArrInv'
  BY <1>4, CreateInv
<1>5. ASSUME NEW h \in Handle, NEW p \in N!Policy, N!ExportSelf(h, p) PROVE ArrInv'
  BY <1>5, ExportSelfInv
<1>6. ASSUME NEW h \in Handle, NEW p \in N!Policy, NEW o \in Obj,
             N!ExportCopy(h, p, o) \/ N!ExportView(h, p, o)
      PROVE  ArrInv'
  BY <1>6, DataInv, ExportViewInv
<1>7. ASSUME NEW o \in Obj, NEW c \in Obj, N!GetBuffer(o, c) PROVE ArrInv'
  BY <1>7, GetBufferInv
<1>8. ASSUME NEW o \in Obj, NEW c \in Obj \cup {None}, NEW t \in Tensor, N!BeginForeign(o, c, t)
      PROVE  ArrInv'
  BY <1>8, BeginForeignInv
<1>9. ASSUME NEW o \in Obj, NEW v \in BOOLEAN, NEW c \in Obj, NEW t \in Tensor,
             N!Dlpack(o, v, c, t) \/ N!BeginOwn(o, v, c, t)
      PROVE  ArrInv'
  BY <1>9, DlpackInv, BeginOwnInv
<1>10. ASSUME NEW h \in Handle, NEW c \in Obj, N!ImportCapsule(h, c) PROVE ArrInv'
  BY <1>10, ImportCapsuleInv
<1>11. ASSUME N!Reject PROVE ArrInv'  BY <1>11, RejectInv
<1> QED
  BY <1>1, <1>2, <1>3, <1>4, <1>5, <1>6, <1>7, <1>8, <1>9, <1>10, <1>11 DEF N!Next

\* What a claim, or a use, says of the memory.
LEMMA UsedBacked ==
    ASSUME ArrLegal, ArrInv, NEW h \in Handle, NEW x \in Clients, Use(x) = h
    PROVE  /\ tensor[handle[h].t].data \in Obj
           /\ handle[h].lent \/ obj[tensor[handle[h].t].data].kind = "data"
<1>1. handle[h].t \in Tensor  BY Attended, ArrFacts
<1>2. Shaped(h) /\ Formed(handle[h].t)  BY <1>1 DEF ArrInv, HandlesRight, TensorsRight
<1>3. tensor[handle[h].t] # N!NoTensor  BY <1>1, <1>2 DEF Shaped, ArrLegal
<1>4. tensor[handle[h].t].data \in Obj /\ tensor[handle[h].t].data # None
  BY <1>1, <1>2, <1>3, ArrFacts DEF Formed
<1>5. handle[h].lent \/ handle[h].owner = tensor[handle[h].t].data
  BY DEF ArrInv, UsesRight, Founded
<1> QED  BY <1>2, <1>4, <1>5 DEF Shaped

LEMMA SameCardinality == \A S : N!Cardinality(S) = Cardinality(S)
BY DEF N!Cardinality, Cardinality

LEMMA ClaimsAre ==
    ASSUME ArrLegal, ArrInv, NEW t \in Tensor
    PROVE  N!Claims(t) = {x \in Clients : Claim(x) = t}
                         \cup (IF import.capsule = None /\ import.t = t THEN {import} ELSE {})
<1>1. \A x \in Clients : Claim(x) = t <=>
         \/ x \in Obj /\ obj[x].kind \in {"capsule", "view"} /\ obj[x].t = t
         \/ x \in Handle /\ handle[x].t = t /\ handle[x].call_deleter
  BY DEF Claim, Clients, ArrLegal
<1>2. {x \in Clients : Claim(x) = t} =
          {o \in Obj : obj[o].kind \in {"capsule", "view"} /\ obj[o].t = t}
          \cup {h \in Handle : handle[h].t = t /\ handle[h].call_deleter}
  BY <1>1 DEF Clients
<1> QED  BY <1>2 DEF N!Claims
LEMMA ImportAlone ==
    ASSUME ArrLegal, ArrInv, NEW t \in Tensor, import.capsule = None, import.t = t
    PROVE  /\ tensor[t].ctx \in Obj /\ tensor[t] # N!NoTensor
           /\ \A x \in Clients : Claim(x) # t
<1>1. import # N!NoImport  BY DEF N!NoImport, ArrLegal
<1>2. tensor[t].ctx \in Obj /\ \A x \in Clients : Claim(x) # t
  BY <1>1 DEF ArrInv, ImportRight, ArrTypes
<1> QED  BY <1>2 DEF N!NoTensor, ArrLegal

LEMMA ArrHandleCount == ASSUME ArrLegal, ArrInv PROVE N!HandleCount
<1> SUFFICES ASSUME NEW h \in Handle
             PROVE  handle[h].rc = handle[h].cpp
                        + Cardinality({o \in Obj : obj[o].kind = "array" /\ obj[o].h = h})
                        + Cardinality(UNION {N!Claims(t) : t \in {x \in Tensor : tensor[x].ctx = h}})
  BY SameCardinality DEF ArrInv, N!HandleCount
<1> DEFINE A == {o \in Obj : obj[o].kind = "array" /\ obj[o].h = h}
           B == {x \in Clients : Claim(x) \in Tensor /\ tensor[Claim(x)].ctx = h}
           U == UNION {N!Claims(t) : t \in {x \in Tensor : tensor[x].ctx = h}}
<1>1. U = B
  <2>1. \A t \in Tensor : tensor[t].ctx = h => N!Claims(t) = {x \in Clients : Claim(x) = t}
    BY ClaimsAre, ImportAlone DEF ArrLegal
  <2>2. U = UNION {{x \in Clients : Claim(x) = t} : t \in {x \in Tensor : tensor[x].ctx = h}}
    BY <2>1
  <2> QED  BY <2>2
<1>2. {x \in Clients : uses[x] = h} = A \cup B /\ A \cap B = {}
  <2>1. \A x \in A : x \in Clients /\ Use(x) = h /\ Claim(x) = None /\ None \notin Tensor
    BY DEF Clients, Use, Claim, ArrLegal
  <2>2. \A x \in B : Use(x) = h
    BY DEF Use, Claim, ArrLegal
  <2>3. \A x \in Clients : Use(x) = h => x \in A \/ x \in B
    BY DEF Use, ArrLegal
  <2> QED  BY <2>1, <2>2, <2>3 DEF uses
<1>3. IsFiniteSet(A) /\ IsFiniteSet(B)
  <2>1. A \subseteq Clients /\ B \subseteq Clients  BY DEF Clients
  <2> QED  BY <2>1, ClientsFinite, FS_Subset
<1> HIDE DEF A, B, U
<1>4. Cardinality(A \cup B) = Cardinality(A) + Cardinality(B)
  <2>1. Cardinality(A \cup B) = Cardinality(A) + Cardinality(B) - Cardinality(A \cap B)
    BY <1>3, FS_Union
  <2>2. Cardinality(A \cap B) = 0  BY <1>2, FS_EmptySet
  <2> QED  BY <1>3, <2>1, <2>2, FS_CardinalityType
<1>5. handle[h].rc = handle[h].cpp + Cardinality(A) + Cardinality(B)
  <2>1. handle[h].rc = handle[h].cpp + Times(uses, Clients, h)  BY DEF ArrInv, RcRight
  <2>2. Times(uses, Clients, h) = Cardinality(A) + Cardinality(B)  BY <1>2, <1>4 DEF Times
  <2>3. handle[h].cpp \in Nat /\ Cardinality(A) \in Nat /\ Cardinality(B) \in Nat
    BY <1>3, ArrFacts, FS_CardinalityType
  <2> QED  BY <2>1, <2>2, <2>3
<1> QED  BY <1>1, <1>5 DEF A, U

LEMMA ArrRefsExact == ASSUME ArrLegal, ArrInv PROVE N!ArrayRefsExact
<1> SUFFICES ASSUME NEW o \in Obj
             PROVE  counts[o] = N!Count(o \in held)
                        + Cardinality({h \in Handle : handle[h].owner = o})
                        + Cardinality({h \in Handle : handle[h].self = o})
                        + Cardinality({t \in Tensor : tensor[t].ctx = o})
                        + Cardinality({v \in Obj : obj[v].base = o})
                        + N!Count(import.capsule = o)
  BY SameCardinality DEF N!ArrayRefsExact
<1>1. /\ {h \in Handle : handle[h].owner = o} = {h \in Handle : owners[h] = o}
      /\ {h \in Handle : handle[h].self = o} = {h \in Handle : selves[h] = o}
      /\ {t \in Tensor : tensor[t].ctx = o} = {t \in Tensor : ctxs[t] = o}
      /\ {v \in Obj : obj[v].base = o} = {v \in Obj : bases[v] = o}
  BY DEF owners, selves, ctxs, bases
<1>2. N!Count(o \in held) = (IF o \in held THEN 1 ELSE 0)
      /\ N!Count(import.capsule = o) = One(import.capsule, o)
  BY DEF N!Count, One
<1>3. counts[o] = (IF o \in held THEN 1 ELSE 0) + Times(owners, Handle, o)
          + Times(selves, Handle, o) + Times(ctxs, Tensor, o) + Times(bases, Obj, o)
          + One(import.capsule, o)
  BY DEF ArrInv, RefsRight
<1> QED  BY <1>1, <1>2, <1>3 DEF Times

LEMMA ArrBacked == ASSUME ArrLegal, ArrInv PROVE N!Backed
<1> SUFFICES ASSUME NEW t \in Tensor, N!Claims(t) # {}
             PROVE  /\ tensor[t] # N!NoTensor
                    /\ Cardinality(N!Claims(t)) > 1 => OwnOf(t)
                    /\ \/ obj[tensor[t].data].kind = "data"
                       \/ tensor[t].ctx \in Handle /\ handle[tensor[t].ctx].lent
  BY SameCardinality DEF N!Backed, OwnOf
<1>1. Formed(t)  BY DEF ArrInv, TensorsRight
<1>2. CASE import.capsule = None /\ import.t = t
  <2>1. /\ tensor[t].ctx \in Obj /\ tensor[t] # N!NoTensor /\ \A x \in Clients : Claim(x) # t
    BY <1>2, ImportAlone
  <2>2. N!Claims(t) = {import}  BY <1>2, <2>1, ClaimsAre
  <2>3. Cardinality(N!Claims(t)) = 1  BY <2>2, FS_Singleton
  <2> QED  BY <1>1, <2>1, <2>3 DEF Formed
<1>3. CASE ~(import.capsule = None /\ import.t = t)
  <2>1. N!Claims(t) = {x \in Clients : Claim(x) = t}  BY <1>3, ClaimsAre
  <2>2. PICK x \in Clients : Claim(x) = t  BY <2>1
  <2>3. /\ tensor[t] # N!NoTensor
        /\ tensor[t].ctx \in Handle => tensor[t].data = tensor[handle[tensor[t].ctx].t].data
        /\ \A y \in Clients : Claim(y) = t => x = y \/ OwnOf(t)
    <3>1. t # None /\ (OwnOf(Claim(x)) <=> OwnOf(t))  BY <2>2 DEF ArrLegal
    <3> QED  BY <2>2, <3>1 DEF ArrInv, ClaimsRight
  <2>4. ASSUME ~OwnOf(t) PROVE Cardinality(N!Claims(t)) = 1
    <3>1. N!Claims(t) = {x}  BY <2>1, <2>2, <2>3, <2>4
    <3> QED  BY <3>1, FS_Singleton
  <2>5. tensor[t].ctx \in Handle \cup Obj
    BY <1>1, <2>3, ArrFacts DEF Formed
  <2>6. CASE tensor[t].ctx \in Obj  BY <1>1, <2>3, <2>4, <2>6 DEF Formed
  <2>7. CASE tensor[t].ctx \in Handle
    <3>1. Use(x) = tensor[t].ctx  BY <2>2 DEF Use, Claim, ArrLegal
    <3> QED  BY <2>2, <2>3, <2>4, <2>7, <3>1, UsedBacked
  <2> QED  BY <2>5, <2>6, <2>7
<1> QED  BY <1>2, <1>3

LEMMA ArrViewsBacked == ASSUME ArrLegal, ArrInv PROVE N!ViewsBacked
<1> SUFFICES ASSUME NEW o \in held, obj[o].kind = "array"
             PROVE  \/ obj[tensor[handle[obj[o].h].t].data].kind = "data"
                    \/ handle[obj[o].h].lent
  BY DEF N!ViewsBacked, N!Data
<1>1. o \in Obj /\ o \in Clients  BY DEF ArrInv, ArrTypes, Clients
<1>2. obj[o].h \in Handle /\ Use(o) = obj[o].h  BY <1>1 DEF ArrInv, ObjsRight, Alike, Use
<1> QED  BY <1>1, <1>2, UsedBacked

LEMMA ArrTypeOK == ASSUME ArrLegal, ArrInv PROVE N!TypeOK
<1>1. counts \in [Obj -> Nat]
  <2>1. counts \in [Obj -> Int]  BY DEF ArrInv, ArrTypes
  <2>2. ASSUME NEW o \in Obj PROVE counts[o] \in Nat
    <3>1. /\ Times(owners, Handle, o) \in Nat /\ Times(selves, Handle, o) \in Nat
          /\ Times(ctxs, Tensor, o) \in Nat /\ Times(bases, Obj, o) \in Nat
      BY TimesNat DEF ArrLegal
    <3>2. One(import.capsule, o) \in Nat /\ (IF o \in held THEN 1 ELSE 0) \in Nat  BY DEF One
    <3>3. counts[o] = (IF o \in held THEN 1 ELSE 0) + Times(owners, Handle, o)
              + Times(selves, Handle, o) + Times(ctxs, Tensor, o) + Times(bases, Obj, o)
              + One(import.capsule, o)
      BY DEF ArrInv, RefsRight
    <3> QED  BY <3>1, <3>2, <3>3
  <2> QED  BY <2>1, <2>2
<1>2. \A h \in Handle : handle[h].t \in Tensor \cup {None}
  <2> TAKE h \in Handle
  <2>1. handle[h] \in HandleRec  BY DEF ArrInv, ArrTypes
  <2> QED  BY <2>1 DEF HandleRec
<1>3. \A o \in Obj : obj[o].kind \in ObjKinds
  <2> TAKE o \in Obj
  <2>1. obj[o] \in ObjRec  BY DEF ArrInv, ArrTypes
  <2> QED  BY <2>1 DEF ObjRec
<1> QED  BY <1>1, <1>2, <1>3 DEF ArrInv, ArrTypes, ObjKinds, N!TypeOK

\* However handles, capsules, views and consumers of arrays come and go, imports among
\* them: reference counts are exact, memory lives while somebody can reach it, and each
\* tensor is deleted once (nb_ndarray.cpp:43-146, 999-1300).
THEOREM ArraysRight ==
    ArrLegal /\ N!Spec =>
        [](N!TypeOK /\ N!HandleCount /\ N!ArrayRefsExact /\ N!Backed /\ N!ViewsBacked)
<1> SUFFICES ASSUME ArrLegal
             PROVE  N!Spec => [](N!TypeOK /\ N!HandleCount /\ N!ArrayRefsExact /\ N!Backed
                                 /\ N!ViewsBacked)
    OBVIOUS
<1>1. N!Init => ArrInv  BY ArrInit
<1>2. ArrInv /\ [N!Next]_(N!ndarrayVars) => ArrInv'  BY ArrNext
<1>3. ArrInv => N!TypeOK /\ N!HandleCount /\ N!ArrayRefsExact /\ N!Backed /\ N!ViewsBacked
  BY ArrTypeOK, ArrHandleCount, ArrRefsExact, ArrBacked, ArrViewsBacked
<1> QED  BY <1>1, <1>2, <1>3, PTL DEF N!Spec

-----------------------------------------------------------------------------
(* Accessors.                                                                    *)

AccLegal == /\ IsFiniteSet(Acc) /\ Reused \subseteq Rereads /\ MaxVal \in Nat
            /\ None \notin 0 .. MaxVal

\* What an accessor owns.
keeps == [a \in Acc |-> IF a \in Rereads THEN None ELSE cache[a]]
Lives == {"none", "fresh", "used"}
AccTypes == /\ stored \in Q!Val /\ want \in Q!Val /\ cache \in [Acc -> Q!Val \cup {None}]
            /\ life \in [Acc -> Lives] /\ taken \in [Q!Val -> Nat] /\ totals \in [Q!Val -> Int]
AccRefs == \A v \in Q!Val : totals[v] = One(stored, v) + taken[v] + Times(keeps, Acc, v)
AccInv == /\ AccTypes /\ AccRefs /\ stored = want
          /\ \A a \in Acc : life[a] # "used" => cache[a] = None

\* What an accessor keeps may change.
LEMMA KeepMoves ==
    ASSUME AccLegal, AccTypes, NEW a \in Acc, NEW v, cache' = [cache EXCEPT ![a] = v]
    PROVE  /\ \A w : Times(keeps, Acc, w)' = Times(keeps, Acc, w)
                         + One(IF a \in Rereads THEN None ELSE v, w) - One(keeps[a], w)
           /\ \A w : Times(keeps, Acc, w) \in Nat
<1> DEFINE g == [b \in Acc |-> IF b \in Rereads THEN None ELSE cache'[b]]
<1>1. keeps' = g  BY DEF keeps
<1>2. g[a] = (IF a \in Rereads THEN None ELSE v)  BY DEF AccTypes
<1>3. Moved(keeps, g, Acc, a)  BY DEF Moved, keeps, AccTypes, AccLegal
<1> HIDE DEF g
<1>4. \A w : Times(g, Acc, w) = Times(keeps, Acc, w) + One(g[a], w) - One(keeps[a], w)
  BY <1>3, TimesMove
<1>5. \A w : Times(keeps, Acc, w)' = Times(g, Acc, w)  BY <1>1 DEF Times
<1>6. \A w : Times(keeps, Acc, w) \in Nat  BY TimesNat DEF AccLegal
<1> QED  BY <1>2, <1>4, <1>5, <1>6

LEMMA KeepSame ==
    ASSUME UNCHANGED cache
    PROVE  \A w : Times(keeps, Acc, w)' = Times(keeps, Acc, w)
BY DEF Times, keeps

\* What ptr() finds, and the references then.
LEMMA PtrFinds ==
    ASSUME AccLegal, AccInv, NEW a \in Acc, Q!Use(a)
    PROVE  /\ Q!Ptr(a) \in Q!Val /\ (Q!Hit(a) <=> keeps[a] # None)
           /\ ~Q!Hit(a) => Q!Ptr(a) = stored
           /\ Q!Hit(a) => Q!Ptr(a) = keeps[a] /\ Q!Ptr(a) = cache[a]
           /\ Q!Fetched(a) \in [Q!Val -> Int]
           /\ \A v \in Q!Val : Q!Fetched(a)[v] = totals[v] +
                  (IF a \notin Rereads /\ keeps[a] = None THEN One(stored, v) ELSE 0)
<1>1. /\ cache[a] \in Q!Val \cup {None} /\ stored \in Q!Val /\ None \notin Q!Val
      /\ totals \in [Q!Val -> Int]
  BY DEF AccInv, AccTypes, AccLegal, Q!Val
<1>2. keeps[a] = IF a \in Rereads THEN None ELSE cache[a]  BY DEF keeps
<1>3. Q!Hit(a) <=> keeps[a] # None  BY <1>2 DEF Q!Hit, Q!Caches
<1>4. ~Q!Hit(a) => Q!Ptr(a) = stored  BY DEF Q!Ptr
<1>5. Q!Hit(a) => Q!Ptr(a) = keeps[a] /\ Q!Ptr(a) = cache[a] /\ Q!Ptr(a) \in Q!Val
  BY <1>1, <1>2 DEF Q!Ptr, Q!Hit, Q!Caches
<1>6. CASE a \notin Rereads /\ keeps[a] = None
  <2>1. Q!Fetched(a) = [totals EXCEPT ![stored] = @ + 1]  BY <1>3, <1>6 DEF Q!Fetched, Q!Caches
  <2> QED  BY <1>1, <1>3, <1>4, <1>5, <1>6, <2>1 DEF One
<1>7. CASE ~(a \notin Rereads /\ keeps[a] = None)
  <2>1. Q!Fetched(a) = totals  BY <1>3, <1>7 DEF Q!Fetched, Q!Caches
  <2> QED  BY <1>1, <1>3, <1>4, <1>5, <1>7, <2>1
<1> QED  BY <1>6, <1>7

LEMMA ReadInv == ASSUME AccLegal, AccInv, NEW a \in Acc, Q!Read(a) PROVE AccInv'
<1> DEFINE v == Q!Ptr(a)
<1>1. /\ Q!Use(a) /\ cache' = [cache EXCEPT ![a] = v] /\ taken' = [taken EXCEPT ![v] = @ + 1]
      /\ totals' = [Q!Fetched(a) EXCEPT ![v] = @ + 1] /\ stored' = stored /\ want' = want
      /\ life' = [life EXCEPT ![a] = "used"]
  BY DEF Q!Read, Q!Use
<1>2. /\ v \in Q!Val /\ (Q!Hit(a) <=> keeps[a] # None) /\ (~Q!Hit(a) => v = stored)
      /\ (Q!Hit(a) => v = keeps[a]) /\ Q!Fetched(a) \in [Q!Val -> Int]
      /\ \A w \in Q!Val : Q!Fetched(a)[w] = totals[w] +
             (IF a \notin Rereads /\ keeps[a] = None THEN One(stored, w) ELSE 0)
  BY <1>1, PtrFinds
<1> HIDE DEF v
<1>3. AccTypes'  BY <1>1, <1>2 DEF AccInv, AccTypes, Lives, Q!Val
<1>4. /\ \A w : Times(keeps, Acc, w)' = Times(keeps, Acc, w)
                         + One(IF a \in Rereads THEN None ELSE v, w) - One(keeps[a], w)
      /\ \A w : Times(keeps, Acc, w) \in Nat
  BY <1>1, KeepMoves DEF AccInv
<1>5. AccRefs'
  <2> SUFFICES ASSUME NEW w \in Q!Val
               PROVE  totals'[w] = One(stored, w) + taken'[w] + Times(keeps, Acc, w)'
      BY <1>1 DEF AccRefs, Q!Val
  <2>1. totals'[w] = Q!Fetched(a)[w] + One(v, w)  BY <1>1, <1>2 DEF One
  <2>2. taken'[w] = taken[w] + One(v, w)  BY <1>1, <1>2 DEF One, AccInv, AccTypes
  <2>3. totals[w] = One(stored, w) + taken[w] + Times(keeps, Acc, w) /\ taken[w] \in Nat
    BY DEF AccInv, AccRefs, AccTypes
  <2>4. keeps[a] = None \/ a \notin Rereads  BY DEF keeps
  <2>5. One(None, w) = 0  BY DEF One, AccLegal, Q!Val
  <2>6. CASE a \in Rereads
    <3>1. keeps[a] = None  BY <2>4, <2>6
    <3>2. One(IF a \in Rereads THEN None ELSE v, w) = 0 /\ One(keeps[a], w) = 0
      BY <2>5, <2>6, <3>1
    <3> QED  BY <1>2, <1>4, <2>1, <2>2, <2>3, <2>6, <3>2 DEF One
  <2>7. CASE a \notin Rereads /\ keeps[a] = None
    <3>1. One(IF a \in Rereads THEN None ELSE v, w) = One(v, w) /\ One(keeps[a], w) = 0 /\ v = stored
      BY <1>2, <2>5, <2>7
    <3> QED  BY <1>2, <1>4, <2>1, <2>2, <2>3, <2>7, <3>1 DEF One
  <2>8. CASE a \notin Rereads /\ keeps[a] # None
    <3>1. One(IF a \in Rereads THEN None ELSE v, w) = One(keeps[a], w)
      BY <1>2, <2>8
    <3> QED  BY <1>2, <1>4, <2>1, <2>2, <2>3, <2>8, <3>1 DEF One
  <2> QED  BY <2>6, <2>7, <2>8
<1>6. stored' = want' /\ \A b \in Acc : life'[b] # "used" => cache'[b] = None
  BY <1>1 DEF AccInv, AccTypes
<1> QED  BY <1>3, <1>5, <1>6 DEF AccInv

LEMMA TakeInv == ASSUME AccLegal, AccInv, NEW a \in Acc, Q!Take(a) PROVE AccInv'
<1> DEFINE v == Q!Ptr(a)
<1>1. /\ Q!Use(a) /\ cache' = [cache EXCEPT ![a] = Q!HandedOver(a)]
      /\ taken' = [taken EXCEPT ![v] = @ + 1] /\ stored' = stored /\ want' = want
      /\ totals' = IF Q!Caches(a) THEN Q!Fetched(a) ELSE [totals EXCEPT ![v] = @ + 1]
      /\ life' = [life EXCEPT ![a] = "used"]
  BY DEF Q!Take, Q!Use
<1>2. /\ v \in Q!Val /\ (Q!Hit(a) <=> keeps[a] # None) /\ (~Q!Hit(a) => v = stored)
      /\ (Q!Hit(a) => v = keeps[a]) /\ Q!Fetched(a) \in [Q!Val -> Int]
      /\ \A w \in Q!Val : Q!Fetched(a)[w] = totals[w] +
             (IF a \notin Rereads /\ keeps[a] = None THEN One(stored, w) ELSE 0)
  BY <1>1, PtrFinds
<1> HIDE DEF v
<1>7. Q!HandedOver(a) = (IF a \notin Rereads THEN None ELSE v)  BY DEF v, Q!HandedOver, Q!Caches
<1>8. Q!Caches(a) <=> a \notin Rereads  BY DEF Q!Caches
<1>3. AccTypes'  BY <1>1, <1>2, <1>7 DEF AccInv, AccTypes, Lives, Q!Val
<1>4. /\ \A w : Times(keeps, Acc, w)' = Times(keeps, Acc, w)
                         + One(IF a \in Rereads THEN None ELSE Q!HandedOver(a), w) - One(keeps[a], w)
      /\ \A w : Times(keeps, Acc, w) \in Nat
  BY <1>1, KeepMoves DEF AccInv
<1>9. (IF a \in Rereads THEN None ELSE Q!HandedOver(a)) = None  BY <1>7
<1>5. AccRefs'
  <2> SUFFICES ASSUME NEW w \in Q!Val
               PROVE  totals'[w] = One(stored, w) + taken'[w] + Times(keeps, Acc, w)'
      BY <1>1 DEF AccRefs, Q!Val
  <2>2. taken'[w] = taken[w] + One(v, w)  BY <1>1, <1>2 DEF One, AccInv, AccTypes
  <2>3. totals[w] = One(stored, w) + taken[w] + Times(keeps, Acc, w) /\ taken[w] \in Nat
    BY DEF AccInv, AccRefs, AccTypes
  <2>4. keeps[a] = None \/ a \notin Rereads  BY DEF keeps
  <2>5. One(None, w) = 0  BY DEF One, AccLegal, Q!Val
  <2>0. Times(keeps, Acc, w)' = Times(keeps, Acc, w) - One(keeps[a], w) /\ Times(keeps, Acc, w) \in Nat
    <3>1. One(IF a \in Rereads THEN None ELSE Q!HandedOver(a), w) = 0  BY <1>9, <2>5
    <3>2. One(keeps[a], w) \in Int  BY DEF One
    <3> QED  BY <1>4, <3>1, <3>2
  <2>6. CASE a \in Rereads
    <3>1. One(keeps[a], w) = 0  BY <2>4, <2>5, <2>6
    <3>2. totals' = [totals EXCEPT ![v] = @ + 1]  BY <1>1, <1>8, <2>6
    <3>3. totals'[w] = totals[w] + One(v, w)  BY <1>2, <3>2 DEF One, AccInv, AccTypes
    <3> QED  BY <2>0, <2>2, <2>3, <3>1, <3>3 DEF One
  <2>7. CASE a \notin Rereads /\ keeps[a] = None
    <3>1. totals'[w] = totals[w] + One(v, w)  BY <1>1, <1>2, <1>8, <2>7
    <3> QED  BY <2>0, <2>2, <2>3, <2>5, <2>7, <3>1 DEF One
  <2>8. CASE a \notin Rereads /\ keeps[a] # None
    <3>1. totals'[w] = totals[w]  BY <1>1, <1>2, <1>8, <2>3, <2>8 DEF One, AccInv, AccTypes
    <3>2. keeps[a] = v  BY <1>2, <2>8
    <3> QED  BY <2>0, <2>2, <2>3, <3>1, <3>2 DEF One
  <2> QED  BY <2>6, <2>7, <2>8
<1>6. stored' = want' /\ \A b \in Acc : life'[b] # "used" => cache'[b] = None
  BY <1>1 DEF AccInv, AccTypes
<1> QED  BY <1>3, <1>5, <1>6 DEF AccInv

\* The place holds another value.
LEMMA PlacedRefs ==
    ASSUME AccTypes, NEW r \in [Q!Val -> Int], NEW v \in Q!Val
    PROVE  /\ Q!Placed(r, v) \in [Q!Val -> Int]
           /\ \A w \in Q!Val : Q!Placed(r, v)[w] = r[w] + One(v, w) - One(stored, w)
<1>1. stored \in Q!Val  BY DEF AccTypes
<1> QED  BY <1>1 DEF Q!Placed, One

LEMMA AssignInv == ASSUME AccLegal, AccInv, NEW a \in Acc, NEW v \in Q!Val, Q!Assign(a, v) PROVE AccInv'
<1>1. /\ stored' = v /\ want' = v /\ totals' = Q!Placed(totals, v) /\ cache' = cache /\ taken' = taken
      /\ life' = [life EXCEPT ![a] = "used"]
  BY DEF Q!Assign, Q!Use
<1>2. /\ totals' \in [Q!Val -> Int]
      /\ \A w \in Q!Val : totals'[w] = totals[w] + One(v, w) - One(stored, w)
  BY <1>1, PlacedRefs DEF AccInv, AccTypes
<1>3. AccTypes'  BY <1>1, <1>2 DEF AccInv, AccTypes, Lives, Q!Val
<1>4. AccRefs'
  <2> SUFFICES ASSUME NEW w \in Q!Val
               PROVE  totals'[w] = One(v, w) + taken[w] + Times(keeps, Acc, w)'
      BY <1>1 DEF AccRefs, Q!Val
  <2>1. totals[w] = One(stored, w) + taken[w] + Times(keeps, Acc, w) /\ taken[w] \in Nat
    BY DEF AccInv, AccRefs, AccTypes
  <2>2. Times(keeps, Acc, w)' = Times(keeps, Acc, w)  BY <1>1, KeepSame
  <2>3. Times(keeps, Acc, w) \in Nat  BY TimesNat DEF AccLegal
  <2> QED  BY <1>2, <2>1, <2>2, <2>3 DEF One
<1>5. stored' = want' /\ \A b \in Acc : life'[b] # "used" => cache'[b] = None
  BY <1>1 DEF AccInv, AccTypes
<1> QED  BY <1>3, <1>4, <1>5 DEF AccInv

LEMMA InPlaceInv == ASSUME AccLegal, AccInv, NEW a \in Acc, Q!InPlace(a) PROVE AccInv'
<1> DEFINE p == Q!Ptr(a)
           v == p + 1
<1>1. /\ Q!Use(a) /\ cache' = [cache EXCEPT ![a] = p] /\ taken' = taken /\ v \in Q!Val
      /\ totals' = Q!Placed(Q!Fetched(a), v) /\ stored' = v /\ want' = want + 1
      /\ life' = [life EXCEPT ![a] = "used"]
  BY DEF Q!InPlace, Q!Use
<1>2. /\ p \in Q!Val /\ (Q!Hit(a) <=> keeps[a] # None) /\ (~Q!Hit(a) => p = stored)
      /\ (Q!Hit(a) => p = cache[a]) /\ Q!Fetched(a) \in [Q!Val -> Int]
      /\ \A w \in Q!Val : Q!Fetched(a)[w] = totals[w] +
             (IF a \notin Rereads /\ keeps[a] = None THEN One(stored, w) ELSE 0)
  BY <1>1, PtrFinds
<1>3. keeps[a] = None /\ p = stored
  <2>1. life[a] = "fresh" \/ a \in Rereads  BY <1>1 DEF Q!Use, AccLegal
  <2>2. keeps[a] = None  BY <2>1 DEF keeps, AccInv
  <2> QED  BY <1>2, <2>2
<1>4. stored' = want' /\ want' \in Q!Val  BY <1>1, <1>3 DEF AccInv
<1> HIDE DEF v
<1>5. /\ totals' \in [Q!Val -> Int]
      /\ \A w \in Q!Val : totals'[w] = Q!Fetched(a)[w] + One(v, w) - One(stored, w)
  BY <1>1, <1>2, PlacedRefs DEF AccInv
<1> HIDE DEF p
<1>6. AccTypes'  BY <1>1, <1>2, <1>4, <1>5 DEF AccInv, AccTypes, Lives, Q!Val
<1>7. /\ \A w : Times(keeps, Acc, w)' = Times(keeps, Acc, w)
                         + One(IF a \in Rereads THEN None ELSE p, w) - One(keeps[a], w)
      /\ \A w : Times(keeps, Acc, w) \in Nat
  BY <1>1, KeepMoves DEF AccInv
<1>8. AccRefs'
  <2> SUFFICES ASSUME NEW w \in Q!Val
               PROVE  totals'[w] = One(v, w) + taken[w] + Times(keeps, Acc, w)'
      BY <1>1 DEF AccRefs, Q!Val
  <2>1. totals[w] = One(stored, w) + taken[w] + Times(keeps, Acc, w) /\ taken[w] \in Nat
    BY DEF AccInv, AccRefs, AccTypes
  <2>2. One(None, w) = 0  BY DEF One, AccLegal, Q!Val
  <2>3. CASE a \in Rereads
    <3>1. One(IF a \in Rereads THEN None ELSE p, w) = 0 /\ One(keeps[a], w) = 0  BY <1>3, <2>2, <2>3
    <3> QED  BY <1>2, <1>5, <1>7, <2>1, <2>3, <3>1 DEF One
  <2>4. CASE a \notin Rereads
    <3>1. One(IF a \in Rereads THEN None ELSE p, w) = One(stored, w) /\ One(keeps[a], w) = 0
      BY <1>3, <2>2, <2>4
    <3> QED  BY <1>2, <1>3, <1>5, <1>7, <2>1, <2>4, <3>1 DEF One
  <2> QED  BY <2>3, <2>4
<1>9. \A b \in Acc : life'[b] # "used" => cache'[b] = None
  BY <1>1 DEF AccInv, AccTypes
<1> QED  BY <1>4, <1>6, <1>8, <1>9 DEF AccInv

LEMMA DropInv == ASSUME AccLegal, AccInv, NEW a \in Acc, Q!Drop(a) PROVE AccInv'
<1>1. /\ life' = [life EXCEPT ![a] = "none"] /\ cache' = [cache EXCEPT ![a] = None]
      /\ totals' = IF Q!Hit(a) THEN [totals EXCEPT ![cache[a]] = @ - 1] ELSE totals
      /\ stored' = stored /\ want' = want /\ taken' = taken
  BY DEF Q!Drop
<1>2. /\ Q!Hit(a) <=> keeps[a] # None
      /\ Q!Hit(a) => cache[a] = keeps[a] /\ cache[a] \in Q!Val
  BY DEF Q!Hit, Q!Caches, keeps, AccInv, AccTypes
<1>3. AccTypes'  BY <1>1, <1>2 DEF AccInv, AccTypes, Lives, Q!Val
<1>4. /\ \A w : Times(keeps, Acc, w)' = Times(keeps, Acc, w)
                         + One(IF a \in Rereads THEN None ELSE None, w) - One(keeps[a], w)
      /\ \A w : Times(keeps, Acc, w) \in Nat
  BY <1>1, KeepMoves DEF AccInv
<1>5. AccRefs'
  <2> SUFFICES ASSUME NEW w \in Q!Val
               PROVE  totals'[w] = One(stored, w) + taken[w] + Times(keeps, Acc, w)'
      BY <1>1 DEF AccRefs, Q!Val
  <2>1. totals[w] = One(stored, w) + taken[w] + Times(keeps, Acc, w) /\ taken[w] \in Nat
    BY DEF AccInv, AccRefs, AccTypes
  <2>2. One(None, w) = 0 /\ One(IF a \in Rereads THEN None ELSE None, w) = 0
    BY DEF One, AccLegal, Q!Val
  <2>3. totals'[w] = totals[w] - One(keeps[a], w)
    BY <1>1, <1>2, <2>2 DEF One, AccInv, AccTypes
  <2> QED  BY <1>4, <2>1, <2>2, <2>3 DEF One
<1>6. stored' = want' /\ \A b \in Acc : life'[b] # "used" => cache'[b] = None
  BY <1>1 DEF AccInv, AccTypes
<1> QED  BY <1>3, <1>5, <1>6 DEF AccInv

LEMMA AccStep == ASSUME AccLegal, AccInv, [Q!Next]_(Q!accVars) PROVE AccInv'
<1>1. ASSUME NEW a \in Acc, Q!Make(a) PROVE AccInv'
  <2>1. /\ life' = [life EXCEPT ![a] = "fresh"] /\ life[a] = "none" /\ stored' = stored
        /\ want' = want /\ cache' = cache /\ taken' = taken /\ totals' = totals
    BY <1>1 DEF Q!Make
  <2>2. \A w : Times(keeps, Acc, w)' = Times(keeps, Acc, w)  BY <2>1, KeepSame
  <2>3. AccTypes'  BY <2>1 DEF AccInv, AccTypes, Lives, Q!Val
  <2>4. AccRefs'  BY <2>1, <2>2 DEF AccInv, AccRefs, Q!Val
  <2>5. stored' = want' /\ \A b \in Acc : life'[b] # "used" => cache'[b] = None
    BY <2>1 DEF AccInv, AccTypes
  <2> QED  BY <2>3, <2>4, <2>5 DEF AccInv
<1>2. ASSUME NEW v \in Q!Val, Q!Release(v) PROVE AccInv'
  <2>1. /\ taken[v] > 0 /\ taken' = [taken EXCEPT ![v] = @ - 1]
        /\ totals' = [totals EXCEPT ![v] = @ - 1] /\ stored' = stored
        /\ want' = want /\ cache' = cache /\ life' = life
    BY <1>2 DEF Q!Release
  <2>2. \A w : Times(keeps, Acc, w)' = Times(keeps, Acc, w)  BY <2>1, KeepSame
  <2>3. AccTypes'  BY <2>1 DEF AccInv, AccTypes, Q!Val
  <2>4. AccRefs'
    <3> SUFFICES ASSUME NEW w \in Q!Val
                 PROVE  totals'[w] = One(stored, w) + taken'[w] + Times(keeps, Acc, w)
        BY <2>1, <2>2 DEF AccRefs, Q!Val
    <3>1. totals[w] = One(stored, w) + taken[w] + Times(keeps, Acc, w) /\ taken[w] \in Nat
      BY DEF AccInv, AccRefs, AccTypes
    <3>2. totals'[w] = totals[w] - One(v, w) /\ taken'[w] = taken[w] - One(v, w)
      BY <2>1 DEF One, AccInv, AccTypes
    <3>3. Times(keeps, Acc, w) \in Nat  BY TimesNat DEF AccLegal
    <3> QED  BY <3>1, <3>2, <3>3 DEF One
  <2> QED  BY <2>1, <2>3, <2>4 DEF AccInv
<1>3. ASSUME UNCHANGED Q!accVars PROVE AccInv'
  <2>1. /\ stored' = stored /\ want' = want /\ cache' = cache /\ life' = life
        /\ taken' = taken /\ totals' = totals
    BY <1>3 DEF Q!accVars
  <2>2. \A w : Times(keeps, Acc, w)' = Times(keeps, Acc, w)  BY <2>1, KeepSame
  <2> QED  BY <2>1, <2>2 DEF AccInv, AccTypes, AccRefs, Q!Val
<1> QED
  BY <1>1, <1>2, <1>3, ReadInv, TakeInv, AssignInv, InPlaceInv, DropInv DEF Q!Next

LEMMA AccInit == ASSUME AccLegal, Q!Init PROVE AccInv
<1>1. /\ stored = 0 /\ want = 0 /\ cache = [a \in Acc |-> None] /\ life = [a \in Acc |-> "none"]
      /\ taken = [v \in Q!Val |-> 0] /\ totals = [v \in Q!Val |-> IF v = 0 THEN 1 ELSE 0]
      /\ 0 \in Q!Val
  BY DEF Q!Init, Q!Val, AccLegal
<1>2. AccTypes  BY <1>1 DEF AccTypes, Lives
<1>3. AccRefs
  <2> SUFFICES ASSUME NEW v \in Q!Val PROVE totals[v] = One(stored, v) + taken[v] + Times(keeps, Acc, v)
      BY DEF AccRefs
  <2>1. {a \in Acc : keeps[a] = v} = {}  BY <1>1 DEF keeps, AccLegal, Q!Val
  <2>2. Times(keeps, Acc, v) = 0  BY <2>1, FS_EmptySet DEF Times
  <2> QED  BY <1>1, <2>2 DEF One
<1> QED  BY <1>1, <1>2, <1>3 DEF AccInv

LEMMA AccAnswer == ASSUME AccLegal, AccInv PROVE Q!AccessorRefsExact /\ Q!UpdatesKept
<1>1. Q!AccessorRefsExact
  <2> SUFFICES ASSUME NEW v \in Q!Val
               PROVE  totals[v] = (IF stored = v THEN 1 ELSE 0) + taken[v]
                                   + Cardinality({a \in Acc : Q!Hit(a) /\ cache[a] = v})
      BY DEF Q!AccessorRefsExact, Q!Cardinality, Cardinality
  <2>1. {a \in Acc : Q!Hit(a) /\ cache[a] = v} = {a \in Acc : keeps[a] = v}
    BY DEF keeps, Q!Hit, Q!Caches, AccLegal, Q!Val
  <2> QED  BY <2>1 DEF AccInv, AccRefs, Times, One
<1> QED  BY <1>1 DEF Q!UpdatesKept, AccInv

\* Whatever accessors read, assign and add, in any order, and whatever the program keeps of
\* it: the references of every value are exact; and no += is lost, as long as accessors
\* that cache are used once (nb_accessor.h:17-66).
THEOREM AccessorsRight == AccLegal /\ Q!Spec => [](Q!AccessorRefsExact /\ Q!UpdatesKept)
<1> SUFFICES ASSUME AccLegal PROVE Q!Spec => [](Q!AccessorRefsExact /\ Q!UpdatesKept)
    OBVIOUS
<1>1. Q!Init => AccInv  BY AccInit
<1>2. AccInv /\ [Q!Next]_(Q!accVars) => AccInv'  BY AccStep
<1>3. AccInv => Q!AccessorRefsExact /\ Q!UpdatesKept  BY AccAnswer
<1> QED  BY <1>1, <1>2, <1>3, PTL DEF Q!Spec

-----------------------------------------------------------------------------
(* Calls into Python.                                                            *)

\* How often a function, or a sequence, has a value; the families of sequences are finite.
Often(v, g) == Times(g, DOMAIN g, v)
Slots(ss) == DOMAIN P!Flat(ss)
Sized(ss) == /\ IsFiniteSet(DOMAIN ss)
             /\ \A i \in DOMAIN ss : IsFiniteSet(DOMAIN ss[i])

LEMMA OftenIs == \A v, g : P!Count(v, g) = Often(v, g)
BY DEF P!Count, P!Cardinality, Cardinality, Often, Times

LEMMA SlotsAre ==
    ASSUME NEW ss
    PROVE  /\ \A x : x \in Slots(ss) <=> \E i \in DOMAIN ss : \E j \in DOMAIN ss[i] : x = <<i, j>>
           /\ \A i, j : <<i, j>> \in Slots(ss) <=> i \in DOMAIN ss /\ j \in DOMAIN ss[i]
           /\ \A i \in DOMAIN ss : \A j \in DOMAIN ss[i] : P!Flat(ss)[<<i, j>>] = ss[i][j]
<1>1. Slots(ss) = UNION {{i} \X DOMAIN ss[i] : i \in DOMAIN ss}  BY DEF Slots, P!Flat
<1>2. \A x : x \in Slots(ss) <=> \E i \in DOMAIN ss : \E j \in DOMAIN ss[i] : x = <<i, j>>
  BY <1>1
<1>3. \A i, j : <<i, j>> \in Slots(ss) <=> i \in DOMAIN ss /\ j \in DOMAIN ss[i]
  BY <1>2
<1>4. \A x \in Slots(ss) : P!Flat(ss)[x] = ss[x[1]][x[2]]  BY DEF Slots, P!Flat
<1>5. \A i \in DOMAIN ss : \A j \in DOMAIN ss[i] : P!Flat(ss)[<<i, j>>] = ss[i][j]
  BY <1>3, <1>4
<1> QED  BY <1>2, <1>3, <1>5

\* One sequence more.
Extends(ss, tt, i) == /\ i \notin DOMAIN ss /\ DOMAIN tt = DOMAIN ss \cup {i}
                      /\ \A j \in DOMAIN ss : tt[j] = ss[j]

LEMMA SlotsMore ==
    ASSUME NEW ss, NEW tt, NEW i, Extends(ss, tt, i), IsFiniteSet(Slots(ss)),
           IsFiniteSet(DOMAIN tt[i])
    PROVE  /\ IsFiniteSet(Slots(tt))
           /\ Cardinality(Slots(tt)) = Cardinality(Slots(ss)) + Cardinality(DOMAIN tt[i])
           /\ \A v : Often(v, P!Flat(tt)) = Often(v, P!Flat(ss)) + Often(v, tt[i])
<1>1. ASSUME NEW D, D \subseteq DOMAIN tt[i]
      PROVE  IsFiniteSet({i} \X D) /\ Cardinality({i} \X D) = Cardinality(D) /\ Cardinality(D) \in Nat
  <2>1. IsFiniteSet(D) /\ Cardinality(D) \in Nat  BY <1>1, FS_Subset, FS_CardinalityType
  <2>2. IsFiniteSet({i}) /\ Cardinality({i}) = 1  BY FS_Singleton
  <2>3. IsFiniteSet({i} \X D) /\ Cardinality({i} \X D) = 1 * Cardinality(D)
    BY <2>1, <2>2, FS_Product
  <2> QED  BY <2>1, <2>3
<1>2. ASSUME NEW A, A \subseteq Slots(ss), NEW D, D \subseteq DOMAIN tt[i]
      PROVE  /\ IsFiniteSet(A \cup ({i} \X D))
             /\ Cardinality(A \cup ({i} \X D)) = Cardinality(A) + Cardinality(D)
  <2>1. IsFiniteSet(A) /\ Cardinality(A) \in Nat  BY <1>2, FS_Subset, FS_CardinalityType
  <2>2. IsFiniteSet({i} \X D) /\ Cardinality({i} \X D) = Cardinality(D) /\ Cardinality(D) \in Nat
    BY <1>1, <1>2
  <2>3. A \cap ({i} \X D) = {}  BY <1>2, SlotsAre DEF Extends
  <2> DEFINE E == {i} \X D
  <2>4. Cardinality(A \cap E) = 0  BY <2>3, FS_EmptySet
  <2>5. IsFiniteSet(E) /\ Cardinality(E) = Cardinality(D)  BY <2>2
  <2> HIDE DEF E
  <2>6. /\ IsFiniteSet(A \cup E)
        /\ Cardinality(A \cup E) = Cardinality(A) + Cardinality(E) - Cardinality(A \cap E)
    BY <2>1, <2>5, FS_Union
  <2>7. Cardinality(A) + Cardinality(E) - Cardinality(A \cap E) = Cardinality(A) + Cardinality(D)
    BY <2>1, <2>2, <2>4, <2>5
  <2> QED  BY <2>6, <2>7 DEF E
<1>3. Slots(tt) = Slots(ss) \cup ({i} \X DOMAIN tt[i])
  <2>1. \A x : x \in Slots(tt) <=> x \in Slots(ss) \cup ({i} \X DOMAIN tt[i])
    <3> SUFFICES ASSUME NEW x PROVE x \in Slots(tt) <=> x \in Slots(ss) \/ x \in {i} \X DOMAIN tt[i]
        OBVIOUS
    <3>1. x \in Slots(tt) <=> \E k \in DOMAIN tt : \E j \in DOMAIN tt[k] : x = <<k, j>>
      BY SlotsAre
    <3>2. x \in Slots(ss) <=> \E k \in DOMAIN ss : \E j \in DOMAIN ss[k] : x = <<k, j>>
      BY SlotsAre
    <3> QED  BY <3>1, <3>2 DEF Extends
  <2> QED  BY <2>1
<1>4. /\ IsFiniteSet(Slots(tt))
      /\ Cardinality(Slots(tt)) = Cardinality(Slots(ss)) + Cardinality(DOMAIN tt[i])
  BY <1>2, <1>3
<1>5. ASSUME NEW v PROVE Often(v, P!Flat(tt)) = Often(v, P!Flat(ss)) + Often(v, tt[i])
  <2> DEFINE A == {x \in Slots(ss) : P!Flat(ss)[x] = v}
             D == {j \in DOMAIN tt[i] : tt[i][j] = v}
  <2>1. \A x \in Slots(ss) : P!Flat(tt)[x] = P!Flat(ss)[x]
    <3> SUFFICES ASSUME NEW k \in DOMAIN ss, NEW j \in DOMAIN ss[k]
                 PROVE  P!Flat(tt)[<<k, j>>] = P!Flat(ss)[<<k, j>>]
        BY SlotsAre
    <3> QED  BY SlotsAre DEF Extends
  <2>2. \A x \in {i} \X DOMAIN tt[i] : x = <<i, x[2]>> /\ P!Flat(tt)[x] = tt[i][x[2]]
    BY SlotsAre DEF Extends
  <2>3. {x \in Slots(tt) : P!Flat(tt)[x] = v} = A \cup ({i} \X D)
    BY <1>3, <2>1, <2>2
  <2>4. Cardinality(A \cup ({i} \X D)) = Cardinality(A) + Cardinality(D)  BY <1>2
  <2> QED  BY <2>3, <2>4 DEF Often, Times, Slots
<1> QED  BY <1>4, <1>5

LEMMA SlotsFinite == ASSUME NEW ss, Sized(ss) PROVE IsFiniteSet(Slots(ss))
<1> DEFINE T == {{i} \X DOMAIN ss[i] : i \in DOMAIN ss}
           img == [i \in DOMAIN ss |-> {i} \X DOMAIN ss[i]]
<1>1. img \in Surjection(DOMAIN ss, T)  BY DEF Surjection
<1>2. IsFiniteSet(T)
  <2> HIDE DEF img, T
  <2> QED  BY <1>1, FS_Surjection DEF Sized
<1>3. ASSUME NEW i \in DOMAIN ss PROVE IsFiniteSet({i} \X DOMAIN ss[i])
  <2>1. IsFiniteSet({i}) /\ IsFiniteSet(DOMAIN ss[i])  BY FS_Singleton DEF Sized
  <2> QED  BY <2>1, FS_Product
<1>5. \A U \in T : IsFiniteSet(U)  BY <1>3
<1>4. Slots(ss) = UNION T  BY DEF Slots, P!Flat
<1> HIDE DEF T
<1> QED  BY <1>2, <1>4, <1>5, FS_UNION

\* One sequence that changes.
LEMMA SlotsMove ==
    ASSUME NEW ss, NEW tt, NEW i \in DOMAIN ss, Sized(ss), IsFiniteSet(DOMAIN tt[i]),
           DOMAIN tt = DOMAIN ss, \A j \in DOMAIN ss : j # i => tt[j] = ss[j]
    PROVE  /\ Sized(tt)
           /\ \A v : Often(v, P!Flat(tt)) = Often(v, P!Flat(ss)) + Often(v, tt[i]) - Often(v, ss[i])
<1> DEFINE rr == [j \in DOMAIN ss \ {i} |-> ss[j]]
<1>1. Extends(rr, ss, i) /\ Extends(rr, tt, i)  BY DEF Extends
<1>2. Sized(rr)  BY FS_Subset DEF Sized
<1> HIDE DEF rr
<1>3. IsFiniteSet(Slots(rr))  BY <1>2, SlotsFinite
<1>4. \A v : Often(v, P!Flat(tt)) = Often(v, P!Flat(rr)) + Often(v, tt[i])  BY <1>1, <1>3, SlotsMore
<1>5. \A v : Often(v, P!Flat(ss)) = Often(v, P!Flat(rr)) + Often(v, ss[i])
  BY <1>1, <1>3, SlotsMore DEF Sized
<1>6. \A v : /\ Often(v, P!Flat(rr)) \in Nat /\ Often(v, ss[i]) \in Nat /\ Often(v, tt[i]) \in Nat
  BY <1>3, TimesNat DEF Often, Slots, Sized
<1> QED  BY <1>4, <1>5, <1>6 DEF Sized

LEMMA OftenNat ==
    ASSUME NEW ss, Sized(ss)
    PROVE  /\ \A v : Often(v, P!Flat(ss)) \in Nat
           /\ \A v, i, j : i \in DOMAIN ss /\ j \in DOMAIN ss[i] /\ ss[i][j] = v
                             => Often(v, P!Flat(ss)) > 0
<1>1. IsFiniteSet(Slots(ss))  BY SlotsFinite
<1>2. \A v : /\ Often(v, P!Flat(ss)) \in Nat
             /\ Often(v, P!Flat(ss)) = 0 => \A x \in Slots(ss) : P!Flat(ss)[x] # v
  BY <1>1, TimesNat DEF Often, Slots
<1>3. ASSUME NEW v, NEW i \in DOMAIN ss, NEW j \in DOMAIN ss[i], ss[i][j] = v
      PROVE  Often(v, P!Flat(ss)) > 0
  <2>1. <<i, j>> \in Slots(ss) /\ P!Flat(ss)[<<i, j>>] = v  BY <1>3, SlotsAre
  <2>2. Often(v, P!Flat(ss)) # 0 /\ Often(v, P!Flat(ss)) \in Nat  BY <1>2, <2>1
  <2> QED  BY <2>2
<1> QED  BY <1>2, <1>3

LEMMA OftenNone ==
    /\ \A v : Often(v, <<>>) = 0
    /\ \A ss : (\A i \in DOMAIN ss : ss[i] = <<>>) => \A v : Often(v, P!Flat(ss)) = 0
<1>1. DOMAIN <<>> = {}  OBVIOUS
<1>2. \A v : {x \in DOMAIN <<>> : <<>>[x] = v} = {}  BY <1>1
<1>3. \A v : Often(v, <<>>) = 0  BY <1>2, FS_EmptySet DEF Often, Times
<1>4. ASSUME NEW ss, \A i \in DOMAIN ss : ss[i] = <<>>, NEW v PROVE Often(v, P!Flat(ss)) = 0
  <2>1. Slots(ss) = {}  BY <1>1, <1>4, SlotsAre
  <2>2. {x \in DOMAIN P!Flat(ss) : P!Flat(ss)[x] = v} = {}  BY <2>1 DEF Slots
  <2> QED  BY <2>2, FS_EmptySet DEF Often, Times
<1> QED  BY <1>3, <1>4
-----------------------------------------------------------------------------
\* What the entries of a call have in them, and what the first n bring to the stack.
KeyFam(es) == [i \in DOMAIN es |-> es[i].keys]
ValFam(es) == [i \in DOMAIN es |-> es[i].vals]
PosOf(es, n) == [i \in 1 .. n |-> P!Pos(es[i])]
KwOf(es, n) == [i \in 1 .. n |-> P!Kw(es[i])]
KeysOf(es, n) == [i \in 1 .. n |-> P!Keys(es[i])]
NewOf(es, n) == [i \in 1 .. n |-> P!NewKeys(es[i])]
OwnFam(es, S) == [i \in DOMAIN es |-> IF i \in S THEN es[i] ELSE <<>>]

\* Entries before and after the first pass has been there.
CallEntry == [kind : {"pos", "kw", "star", "dstar"}, keys : Seq(Kwd \cup {Odd}), vals : Seq(Passed)]
Fresh(e) == /\ e.kind \in {"star", "dstar"} => e.keys = <<>> /\ e.vals = <<>>
            /\ Len(e.keys) <= 1 /\ Len(e.vals) <= 1
Ready(e) == e.kind \in {"kw", "dstar"} => Len(e.keys) = Len(e.vals)

\* What the first pass has counted.
Counted(es, i, na, nk) ==
    /\ i \in 1 .. Len(es) + 1
    /\ na = Cardinality(Slots(PosOf(es, i - 1)))
    /\ nk = Cardinality(Slots(KwOf(es, i - 1))) /\ nk = Cardinality(Slots(KeysOf(es, i - 1)))
    /\ \A j \in 1 .. Len(es) : IF j < i THEN Ready(es[j]) ELSE Fresh(es[j])

\* The slots of the stack borrow from the entries.
Stands(g, es) == \A x \in DOMAIN g : \E i \in DOMAIN es : \E j \in DOMAIN es[i].vals : g[x] = es[i].vals[j]

\* A call with all kinds of entries, and one with positional arguments only.
IsCall(c) ==
    /\ c = [pc |-> c.pc, args |-> c.args, i |-> c.i, nargs |-> c.nargs, nkwargs |-> c.nkwargs,
            pos |-> c.pos, kw |-> c.kw, kwnames |-> c.kwnames]
    /\ c.args \in Seq(CallEntry) /\ IsFiniteSet(DOMAIN c.kwnames)
    /\ c.pc = "pass1" => /\ Counted(c.args, c.i, c.nargs, c.nkwargs)
                         /\ c.pos = <<>> /\ c.kw = <<>> /\ c.kwnames = <<>>
    /\ c.pc = "calling" =>
         /\ Cardinality(DOMAIN c.pos) = c.nargs /\ Cardinality(DOMAIN c.kw) = c.nkwargs
         /\ Cardinality(DOMAIN c.kwnames) = c.nkwargs
         /\ Stands(c.pos, c.args) /\ Stands(c.kw, c.args)
         /\ \A x \in DOMAIN c.kwnames : c.kwnames[x] \in Kwd
IsSimple(c) ==
    /\ c = [pc |-> c.pc, args |-> c.args, owned |-> c.owned]
    /\ c.args \in Seq(Seq(Passed))
    /\ c.pc = "simple" =>
         \A i \in DOMAIN c.args :
            /\ 1 \in DOMAIN c.args[i]
            /\ i \in c.owned \/ \E j \in DOMAIN operands.list : c.args[i][1] = operands.list[j]

CallTypes ==
    /\ operands \in [list : Seq(Passed), dict : [keys : Seq(Kwd \cup {Odd}), vals : Seq(Passed)]]
    /\ Len(operands.dict.keys) = Len(operands.dict.vals)
    /\ tally \in [P!Obj -> Int]
    /\ ongoing.pc \in {"idle", "pass1", "calling", "cleanup", "simple", "released"}
    /\ ongoing.pc \in {"pass1", "calling", "cleanup"} => IsCall(ongoing)
    /\ ongoing.pc \in {"simple", "released"} => IsSimple(ongoing)

\* The references that a call has to give back, and those of the operands.
HeldBy(o, es) == Often(o, P!Flat(KeyFam(es))) + Often(o, P!Flat(ValFam(es)))
Owing(o) == CASE ongoing.pc = "idle" -> 0
              [] ongoing.pc \in {"simple", "released"} ->
                     Often(o, P!Flat(OwnFam(ongoing.args, ongoing.owned)))
              [] ongoing.pc \in {"pass1", "calling", "cleanup"} ->
                     Often(o, ongoing.kwnames) + HeldBy(o, ongoing.args)
InOperands(o, u) == Often(o, u.list) + Often(o, u.dict.keys) + Often(o, u.dict.vals)
CallRefs == \A o \in P!Obj : tally[o] = InOperands(o, operands) + Owing(o)

CallInv == CallTypes /\ CallRefs

LEMMA SeqSized ==
    /\ \A S, s : s \in Seq(S) => IsFiniteSet(DOMAIN s) /\ Cardinality(DOMAIN s) = Len(s)
    /\ \A S, n : P!BoundedSeq(S, n) \subseteq Seq(S)
    /\ \A S, n, s : s \in P!BoundedSeq(S, n) => Len(s) <= n
    /\ \A S, s : s \in Seq(S) /\ s # <<>> /\ Len(s) <= 1 => Len(s) = 1
<1>1. ASSUME NEW S, NEW s \in Seq(S) PROVE IsFiniteSet(DOMAIN s) /\ Cardinality(DOMAIN s) = Len(s)
  <2>1. DOMAIN s = 1 .. Len(s) /\ Len(s) \in Nat  OBVIOUS
  <2> QED  BY <2>1, FS_Interval
<1>2. ASSUME NEW S, NEW n, NEW s \in P!BoundedSeq(S, n) PROVE s \in Seq(S) /\ Len(s) <= n
  <2>1. PICK m \in 0 .. n : s \in [1 .. m -> S]  BY DEF P!BoundedSeq, P!SeqOf
  <2>2. m \in Nat  BY <2>1
  <2> QED  BY <2>1, <2>2
<1>3. ASSUME NEW S, NEW s \in Seq(S), s # <<>>, Len(s) <= 1 PROVE Len(s) = 1
  <2> DEFINE n == Len(s)
  <2>1. n > 0 /\ n \in Nat /\ n <= 1  BY <1>3
  <2> HIDE DEF n
  <2>2. n = 1  BY <2>1
  <2> QED  BY <2>2 DEF n
<1> QED  BY <1>1, <1>2, <1>3

LEMMA FamSized ==
    /\ \A es \in Seq(CallEntry) : Sized(KeyFam(es)) /\ Sized(ValFam(es))
    /\ \A es \in Seq(CallEntry) : \A n \in 0 .. Len(es) :
           /\ Sized(PosOf(es, n)) /\ Sized(KwOf(es, n)) /\ Sized(KeysOf(es, n)) /\ Sized(NewOf(es, n))
    /\ \A es \in Seq(Seq(Passed)) : \A S : Sized(OwnFam(es, S))
<1>1. ASSUME NEW es \in Seq(CallEntry)
      PROVE  IsFiniteSet(DOMAIN es) /\ \A i \in DOMAIN es : /\ es[i].keys \in Seq(Kwd \cup {Odd})
                                                            /\ es[i].vals \in Seq(Passed)
                                                            /\ es[i] \in CallEntry
  <2>1. \A i \in DOMAIN es : es[i] \in CallEntry  OBVIOUS
  <2> QED  BY <2>1, SeqSized DEF CallEntry
<1>2. ASSUME NEW es \in Seq(CallEntry) PROVE Sized(KeyFam(es)) /\ Sized(ValFam(es))
  BY <1>1, <1>2, SeqSized DEF Sized, KeyFam, ValFam
<1>3. IsFiniteSet(DOMAIN <<>>)  BY FS_EmptySet
<1>4. ASSUME NEW es \in Seq(CallEntry), NEW n \in 0 .. Len(es)
      PROVE  /\ Sized(PosOf(es, n)) /\ Sized(KwOf(es, n)) /\ Sized(KeysOf(es, n)) /\ Sized(NewOf(es, n))
  <2>1. IsFiniteSet(1 .. n)  BY FS_Interval
  <2>2. \A i \in 1 .. n : i \in DOMAIN es  OBVIOUS
  <2>3. \A i \in 1 .. n : IsFiniteSet(DOMAIN es[i].keys) /\ IsFiniteSet(DOMAIN es[i].vals)
    BY <1>1, <2>2, SeqSized
  <2> QED
    BY <1>3, <2>1, <2>3
    DEF Sized, PosOf, KwOf, KeysOf, NewOf, P!Pos, P!Kw, P!Keys, P!NewKeys, P!Contents
<1>5. ASSUME NEW es \in Seq(Seq(Passed)), NEW S PROVE Sized(OwnFam(es, S))
  <2>1. IsFiniteSet(DOMAIN es)  BY SeqSized
  <2>2. \A i \in DOMAIN es : IsFiniteSet(DOMAIN es[i])
    <3>1. \A i \in DOMAIN es : es[i] \in Seq(Passed)  OBVIOUS
    <3> QED  BY <3>1, SeqSized
  <2> QED  BY <1>3, <2>1, <2>2 DEF Sized, OwnFam
<1> QED  BY <1>2, <1>4, <1>5

LEMMA HeldIs == \A o, es : P!Held(o, es) = HeldBy(o, es)
BY OftenIs DEF P!Held, HeldBy, KeyFam, ValFam

\* The first pass goes on: the entry is looked at, and may be what it expands to.
LEMMA Advance ==
    ASSUME NEW es \in Seq(CallEntry), NEW et \in Seq(CallEntry), NEW i, NEW na, NEW nk,
           Counted(es, i, na, nk), i <= Len(es), Len(et) = Len(es), Ready(et[i]),
           \A j \in 1 .. Len(es) : j # i => et[j] = es[j]
    PROVE  Counted(et, i + 1, na + Cardinality(DOMAIN P!Pos(et[i])), nk + Cardinality(DOMAIN P!Kw(et[i])))
<1>1. i \in 1 .. Len(es) /\ i \in Nat /\ Len(es) \in Nat  BY DEF Counted
<1>2. et[i] \in CallEntry  BY <1>1
<1>3. /\ IsFiniteSet(DOMAIN P!Pos(et[i])) /\ IsFiniteSet(DOMAIN P!Kw(et[i]))
      /\ IsFiniteSet(DOMAIN P!Keys(et[i]))
      /\ Cardinality(DOMAIN P!Kw(et[i])) = Cardinality(DOMAIN P!Keys(et[i]))
  <2>1. et[i].keys \in Seq(Kwd \cup {Odd}) /\ et[i].vals \in Seq(Passed)  BY <1>2 DEF CallEntry
  <2>2. IsFiniteSet(DOMAIN <<>>)  BY FS_EmptySet
  <2> QED  BY <2>1, <2>2, SeqSized DEF P!Pos, P!Kw, P!Keys, P!Contents, Ready
<1>4. i - 1 \in 0 .. Len(es)  BY <1>1
<1>5. /\ IsFiniteSet(Slots(PosOf(es, i - 1))) /\ IsFiniteSet(Slots(KwOf(es, i - 1)))
      /\ IsFiniteSet(Slots(KeysOf(es, i - 1)))
  BY <1>4, FamSized, SlotsFinite
<1>6. \A j \in 1 .. i - 1 : j \in 1 .. Len(es) /\ j # i /\ et[j] = es[j]  BY <1>1
<1>7. i \notin 1 .. i - 1 /\ 1 .. i = (1 .. i - 1) \cup {i} /\ i + 1 - 1 = i  BY <1>1
<1>8. /\ Extends(PosOf(es, i - 1), PosOf(et, i), i) /\ Extends(KwOf(es, i - 1), KwOf(et, i), i)
      /\ Extends(KeysOf(es, i - 1), KeysOf(et, i), i)
  BY <1>6, <1>7 DEF Extends, PosOf, KwOf, KeysOf
<1>9. /\ PosOf(et, i)[i] = P!Pos(et[i]) /\ KwOf(et, i)[i] = P!Kw(et[i])
      /\ KeysOf(et, i)[i] = P!Keys(et[i])
  BY <1>7 DEF PosOf, KwOf, KeysOf
<1>10. /\ Cardinality(Slots(PosOf(et, i))) = na + Cardinality(DOMAIN P!Pos(et[i]))
       /\ Cardinality(Slots(KwOf(et, i))) = nk + Cardinality(DOMAIN P!Kw(et[i]))
       /\ Cardinality(Slots(KeysOf(et, i))) = nk + Cardinality(DOMAIN P!Kw(et[i]))
  BY <1>3, <1>5, <1>8, <1>9, SlotsMore DEF Counted
<1>11. \A j \in 1 .. Len(et) : IF j < i + 1 THEN Ready(et[j]) ELSE Fresh(et[j])
  <2> SUFFICES ASSUME NEW j \in 1 .. Len(et) PROVE IF j < i + 1 THEN Ready(et[j]) ELSE Fresh(et[j])
      OBVIOUS
  <2>1. CASE j = i  BY <2>1, <1>1
  <2>2. CASE j # i
    <3>1. et[j] = es[j] /\ (IF j < i THEN Ready(es[j]) ELSE Fresh(es[j]))  BY <2>2 DEF Counted
    <3>2. (j < i + 1) <=> (j < i)  BY <2>2, <1>1
    <3> QED  BY <3>1, <3>2
  <2> QED  BY <2>1, <2>2
<1> QED  BY <1>1, <1>7, <1>10, <1>11 DEF Counted

LEMMA CallInit == ASSUME P!Init PROVE CallInv
<1>1. /\ operands = [list |-> <<>>, dict |-> [keys |-> <<>>, vals |-> <<>>]]
      /\ tally = [o \in P!Obj |-> 0] /\ ongoing = [pc |-> "idle"]
  BY DEF P!Init, P!NoItems, P!Idle
<1>2. ongoing.pc = "idle"  BY <1>1
<1>3. CallTypes  BY <1>1, <1>2 DEF CallTypes
<1>4. CallRefs
  <2>1. \A o : InOperands(o, operands) = 0  BY <1>1, OftenNone DEF InOperands
  <2>2. \A o : Owing(o) = 0  BY <1>2 DEF Owing
  <2> QED  BY <1>1, <2>1, <2>2 DEF CallRefs
<1> QED  BY <1>3, <1>4 DEF CallInv

LEMMA OperandsNat ==
    ASSUME NEW u, u \in [list : Seq(Passed), dict : [keys : Seq(Kwd \cup {Odd}), vals : Seq(Passed)]]
    PROVE  \A o : /\ Often(o, u.list) \in Nat /\ Often(o, u.dict.keys) \in Nat
                  /\ Often(o, u.dict.vals) \in Nat /\ InOperands(o, u) \in Nat
<1>1. \A o : /\ Often(o, u.list) \in Nat /\ Often(o, u.dict.keys) \in Nat
             /\ Often(o, u.dict.vals) \in Nat
  BY SeqSized, TimesNat DEF Often
<1> QED  BY <1>1 DEF InOperands

LEMMA OwingNat == ASSUME CallTypes PROVE \A o : Owing(o) \in Nat
<1> SUFFICES ASSUME NEW o PROVE Owing(o) \in Nat
    OBVIOUS
<1>1. CASE ongoing.pc = "idle"  BY <1>1 DEF Owing
<1>2. CASE ongoing.pc \in {"simple", "released"}
  <2>1. Sized(OwnFam(ongoing.args, ongoing.owned))  BY <1>2, FamSized DEF CallTypes, IsSimple
  <2>2. Often(o, P!Flat(OwnFam(ongoing.args, ongoing.owned))) \in Nat  BY <2>1, OftenNat
  <2>3. Owing(o) = Often(o, P!Flat(OwnFam(ongoing.args, ongoing.owned)))  BY <1>2 DEF Owing
  <2> QED  BY <2>2, <2>3
<1>3. CASE ongoing.pc \in {"pass1", "calling", "cleanup"}
  <2>1. ongoing.args \in Seq(CallEntry) /\ IsFiniteSet(DOMAIN ongoing.kwnames)
    BY <1>3 DEF CallTypes, IsCall
  <2>2. Often(o, ongoing.kwnames) \in Nat  BY <2>1, TimesNat DEF Often
  <2>3. HeldBy(o, ongoing.args) \in Nat  BY <2>1, FamSized, OftenNat DEF HeldBy
  <2>4. Owing(o) = Often(o, ongoing.kwnames) + HeldBy(o, ongoing.args)  BY <1>3 DEF Owing
  <2> QED  BY <2>2, <2>3, <2>4
<1> QED  BY <1>1, <1>2, <1>3 DEF CallTypes

\* The program changes what its containers hold.
LEMMA MutateInv == ASSUME CallInv, P!Mutate PROVE CallInv'
<1>1. ongoing' = ongoing /\ ongoing.pc \in {"idle", "pass1"}  BY DEF P!Mutate
<1>2. \A o : Owing(o)' = Owing(o)  BY <1>1 DEF Owing
<1>3. CallTypes /\ CallRefs /\ \A o : Owing(o) \in Nat  BY OwingNat DEF CallInv
<1>4. \A o : /\ Often(o, operands.list) \in Nat /\ Often(o, operands.dict.keys) \in Nat
             /\ Often(o, operands.dict.vals) \in Nat
  BY <1>3, OperandsNat DEF CallTypes
<1>5. ASSUME NEW s \in P!Lists, operands' = [operands EXCEPT !.list = s],
             tally' = [o \in P!Obj |-> tally[o] + P!Count(o, s) - P!Count(o, operands.list)]
      PROVE  CallInv'
  <2>1. s \in Seq(Passed)  BY SeqSized DEF P!Lists
  <2>2. operands'.list = s /\ operands'.dict = operands.dict
        /\ operands' \in [list : Seq(Passed), dict : [keys : Seq(Kwd \cup {Odd}), vals : Seq(Passed)]]
    BY <1>3, <1>5, <2>1 DEF CallTypes
  <2>3. \A o : Often(o, s) \in Nat  BY <2>1, SeqSized, TimesNat DEF Often
  <2>4. \A o \in P!Obj : tally'[o] = tally[o] + Often(o, s) - Often(o, operands.list)
    BY <1>5, OftenIs
  <2>5. \A o \in P!Obj : tally[o] \in Int  BY <1>3 DEF CallTypes
  <2>6. tally' \in [P!Obj -> Int]  BY <1>4, <1>5, <2>3, <2>5, OftenIs
  <2>7. CallTypes'
    BY <1>1, <1>3, <2>2, <2>6 DEF CallTypes, IsCall
  <2>8. CallRefs'
    BY <1>2, <1>3, <1>4, <2>2, <2>3, <2>4 DEF CallRefs, InOperands
  <2> QED  BY <2>7, <2>8 DEF CallInv
<1>6. ASSUME NEW d \in P!Dicts, operands' = [operands EXCEPT !.dict = d],
             tally' = [o \in P!Obj |-> tally[o] + P!Items(o, d) - P!Items(o, operands.dict)]
      PROVE  CallInv'
  <2>1. d \in [keys : Seq(Kwd \cup {Odd}), vals : Seq(Passed)] /\ Len(d.keys) = Len(d.vals)
    <3>1. CASE d = P!NoItems
      <4>1. d.keys = <<>> /\ d.vals = <<>> /\ d = [keys |-> <<>>, vals |-> <<>>]
        BY <3>1 DEF P!NoItems
      <4> QED  BY <4>1
    <3>2. CASE d # P!NoItems
      <4>1. PICK k \in Kwd \cup {Odd}, v \in Passed : d = [keys |-> <<k>>, vals |-> <<v>>]
        BY <3>2 DEF P!Dicts
      <4>2. <<k>> \in Seq(Kwd \cup {Odd}) /\ <<v>> \in Seq(Passed) /\ Len(<<k>>) = 1 /\ Len(<<v>>) = 1
        OBVIOUS
      <4> QED  BY <4>1, <4>2
    <3> QED  BY <3>1, <3>2
  <2>2. operands'.list = operands.list /\ operands'.dict = d
        /\ operands' \in [list : Seq(Passed), dict : [keys : Seq(Kwd \cup {Odd}), vals : Seq(Passed)]]
    BY <1>3, <1>6, <2>1 DEF CallTypes
  <2>3. \A o : Often(o, d.keys) \in Nat /\ Often(o, d.vals) \in Nat
    BY <2>1, SeqSized, TimesNat DEF Often
  <2>4. \A o : /\ P!Items(o, d) = Often(o, d.keys) + Often(o, d.vals)
               /\ P!Items(o, operands.dict) = Often(o, operands.dict.keys) + Often(o, operands.dict.vals)
    BY OftenIs DEF P!Items
  <2>5. \A o \in P!Obj : tally'[o] = tally[o] + P!Items(o, d) - P!Items(o, operands.dict)
    BY <1>6
  <2>6. \A o \in P!Obj : tally[o] \in Int  BY <1>3 DEF CallTypes
  <2>9. \A o \in P!Obj : tally[o] + P!Items(o, d) - P!Items(o, operands.dict) \in Int
    BY <1>4, <2>3, <2>4, <2>6
  <2>10. tally' \in [P!Obj -> Int]  BY <1>6, <2>9
  <2>7. CallTypes'
    BY <1>1, <1>3, <2>1, <2>2, <2>10 DEF CallTypes, IsCall
  <2>8. CallRefs'
    BY <1>2, <1>3, <1>4, <2>2, <2>3, <2>4, <2>5 DEF CallRefs, InOperands
  <2> QED  BY <2>7, <2>8 DEF CallInv
<1> QED  BY <1>5, <1>6 DEF P!Mutate

LEMMA BeginInv ==
    ASSUME CallInv, NEW es \in P!BoundedSeq(P!Entry, MaxEntries), P!Begin(es) PROVE CallInv'
<1>1. /\ ongoing.pc = "idle" /\ operands' = operands
      /\ ongoing' = [pc |-> "pass1", args |-> es, i |-> 1, nargs |-> 0, nkwargs |-> 0,
                     pos |-> <<>>, kw |-> <<>>, kwnames |-> <<>>]
      /\ tally' = [o \in P!Obj |-> tally[o] + P!Held(o, es)]
  BY DEF P!Begin
<1>2. CallTypes /\ CallRefs  BY DEF CallInv
<1>3. es \in Seq(P!Entry)  BY SeqSized
<1>4. \A e \in P!Entry : e \in CallEntry /\ Fresh(e)
  <2>1. \A s \in P!BoundedSeq(Passed, 1) : s \in Seq(Passed) /\ Len(s) <= 1  BY SeqSized
  <2>2. \A s \in P!BoundedSeq(Kwd, 1) : s \in Seq(Kwd \cup {Odd}) /\ Len(s) <= 1
    <3> SUFFICES ASSUME NEW s \in P!BoundedSeq(Kwd, 1)
                 PROVE  s \in Seq(Kwd \cup {Odd}) /\ Len(s) <= 1
        OBVIOUS
    <3>1. s \in Seq(Kwd) /\ Len(s) <= 1  BY SeqSized
    <3> QED  BY <3>1
  <2>3. <<>> \in Seq(Passed) /\ <<>> \in Seq(Kwd \cup {Odd}) /\ Len(<<>>) <= 1  OBVIOUS
  <2>4. ASSUME NEW e \in P!Entry
        PROVE  /\ e.kind \in {"pos", "kw", "star", "dstar"}
               /\ e.keys \in P!BoundedSeq(Kwd, 1) \cup {<<>>}
               /\ e.vals \in P!BoundedSeq(Passed, 1) \cup {<<>>}
               /\ e.kind \in {"star", "dstar"} => e.keys = <<>> /\ e.vals = <<>>
               /\ e = [kind |-> e.kind, keys |-> e.keys, vals |-> e.vals]
    BY DEF P!Entry
  <2> SUFFICES ASSUME NEW e \in P!Entry PROVE e \in CallEntry /\ Fresh(e)
      OBVIOUS
  <2>5. /\ e.keys \in Seq(Kwd \cup {Odd}) /\ Len(e.keys) <= 1
        /\ e.vals \in Seq(Passed) /\ Len(e.vals) <= 1
    BY <2>1, <2>2, <2>3, <2>4
  <2>6. e \in CallEntry  BY <2>4, <2>5 DEF CallEntry
  <2> QED  BY <2>4, <2>5, <2>6 DEF Fresh
<1>5. es \in Seq(CallEntry) /\ \A j \in 1 .. Len(es) : Fresh(es[j])
  <2>1. \A j \in 1 .. Len(es) : es[j] \in P!Entry  BY <1>3
  <2>2. \A j \in 1 .. Len(es) : es[j] \in CallEntry /\ Fresh(es[j])  BY <1>4, <2>1
  <2> QED  BY <1>3, <2>2
<1>6. \A o : /\ HeldBy(o, es) \in Nat /\ P!Held(o, es) = HeldBy(o, es)
  BY <1>5, FamSized, OftenNat, HeldIs DEF HeldBy
<1>7. ongoing'.pc = "pass1" /\ ongoing'.args = es /\ ongoing'.kwnames = <<>>  BY <1>1
<1>8. \A o : Owing(o)' = HeldBy(o, es) /\ Owing(o) = 0
  <2> SUFFICES ASSUME NEW o PROVE Owing(o)' = HeldBy(o, es) /\ Owing(o) = 0
      OBVIOUS
  <2>1. Owing(o)' = Often(o, <<>>) + HeldBy(o, es)  BY <1>7 DEF Owing
  <2>2. Owing(o) = 0  BY <1>1 DEF Owing
  <2> QED  BY <2>1, <2>2, <1>6, OftenNone
<1>9. IsCall(ongoing')
  <2>1. Slots(PosOf(es, 0)) = {} /\ Slots(KwOf(es, 0)) = {} /\ Slots(KeysOf(es, 0)) = {}
    <3>1. 1 .. 0 = {}  OBVIOUS
    <3> QED  BY <3>1, SlotsAre DEF PosOf, KwOf, KeysOf
  <2>2. 1 - 1 = 0 /\ 1 \in 1 .. Len(es) + 1 /\ \A j \in 1 .. Len(es) : ~(j < 1)  BY <1>5
  <2>3. Counted(es, 1, 0, 0)  BY <1>5, <2>1, <2>2, FS_EmptySet DEF Counted
  <2>4. IsFiniteSet(DOMAIN <<>>)  BY FS_EmptySet
  <2> QED  BY <1>1, <1>5, <2>3, <2>4 DEF IsCall
<1>10. tally' \in [P!Obj -> Int] /\ \A o \in P!Obj : tally'[o] = tally[o] + HeldBy(o, es)
  BY <1>1, <1>2, <1>6 DEF CallTypes
<1>11. CallTypes'  BY <1>1, <1>2, <1>7, <1>9, <1>10 DEF CallTypes
<1>12. CallRefs'
  <2> SUFFICES ASSUME NEW o \in P!Obj PROVE tally'[o] = InOperands(o, operands) + Owing(o)'
      BY <1>1 DEF CallRefs
  <2>1. tally[o] = InOperands(o, operands) + Owing(o)  BY <1>2 DEF CallRefs
  <2>2. InOperands(o, operands) \in Nat  BY <1>2, OperandsNat DEF CallTypes
  <2> QED  BY <1>6, <1>8, <1>10, <2>1, <2>2
<1> QED  BY <1>11, <1>12 DEF CallInv

\* An error: what the call has is given back later.
LEMMA ToCleanupInv ==
    ASSUME CallInv, ongoing.pc \in {"pass1", "calling"}, ongoing' = P!ToCleanup,
           UNCHANGED <<operands, tally>>
    PROVE  CallInv'
<1>1. IsCall(ongoing) /\ CallTypes /\ CallRefs  BY DEF CallInv, CallTypes
<1>2. ongoing' = [pc |-> "cleanup", args |-> ongoing.args, i |-> ongoing.i, nargs |-> ongoing.nargs,
                  nkwargs |-> ongoing.nkwargs, pos |-> ongoing.pos, kw |-> ongoing.kw,
                  kwnames |-> ongoing.kwnames]
  <2>1. ongoing' = [ongoing EXCEPT !.pc = "cleanup"]  BY DEF P!ToCleanup
  <2> QED  BY <1>1, <2>1 DEF IsCall
<1>3. ongoing'.pc = "cleanup" /\ ongoing'.args = ongoing.args /\ ongoing'.kwnames = ongoing.kwnames
  BY <1>2
<1>4. IsCall(ongoing')  BY <1>1, <1>2 DEF IsCall
<1>5. CallTypes'  BY <1>1, <1>3, <1>4 DEF CallTypes
<1>6. \A o : Owing(o)' = Owing(o)  BY <1>3 DEF Owing
<1> QED  BY <1>1, <1>5, <1>6 DEF CallInv, CallRefs

LEMMA Totals ==
    ASSUME NEW es \in Seq(CallEntry), NEW i, NEW na, NEW nk, Counted(es, i, na, nk)
    PROVE  na \in Nat /\ nk \in Nat
<1>1. i - 1 \in 0 .. Len(es)  BY DEF Counted
<1>2. IsFiniteSet(Slots(PosOf(es, i - 1))) /\ IsFiniteSet(Slots(KwOf(es, i - 1)))
  BY <1>1, FamSized, SlotsFinite
<1> QED  BY <1>2, FS_CardinalityType DEF Counted

LEMMA PassOneInv == ASSUME CallInv, P!PassOne PROVE CallInv'
<1> DEFINE es == ongoing.args
           i == ongoing.i
           e == es[i]
<1>1. /\ ongoing.pc = "pass1" /\ i <= Len(es) /\ operands' = operands
  BY DEF P!PassOne
<1>2. /\ IsCall(ongoing) /\ CallTypes /\ CallRefs /\ es \in Seq(CallEntry)
      /\ Counted(es, i, ongoing.nargs, ongoing.nkwargs)
      /\ ongoing = [pc |-> "pass1", args |-> es, i |-> i, nargs |-> ongoing.nargs,
                    nkwargs |-> ongoing.nkwargs, pos |-> <<>>, kw |-> <<>>, kwnames |-> <<>>]
  BY <1>1 DEF CallInv, CallTypes, IsCall
<1>3. i \in 1 .. Len(es) /\ e \in CallEntry /\ Fresh(e)
  BY <1>1, <1>2 DEF Counted
<1>4. \A o : Owing(o) = Often(o, <<>>) + HeldBy(o, es)  BY <1>1, <1>2 DEF Owing
<1>5. \A o : HeldBy(o, es) \in Nat /\ Often(o, <<>>) = 0
  BY <1>2, FamSized, OftenNat, OftenNone DEF HeldBy
\* Each step but an error leaves such a call.
<1>6. ASSUME NEW et \in Seq(CallEntry), NEW na, NEW nk, Len(et) = Len(es), Ready(et[i]),
             \A j \in 1 .. Len(es) : j # i => et[j] = es[j],
             na = ongoing.nargs + Cardinality(DOMAIN P!Pos(et[i])),
             nk = ongoing.nkwargs + Cardinality(DOMAIN P!Kw(et[i])),
             ongoing' = [pc |-> "pass1", args |-> et, i |-> i + 1, nargs |-> na,
                         nkwargs |-> nk, pos |-> <<>>, kw |-> <<>>, kwnames |-> <<>>],
             tally' \in [P!Obj -> Int],
             \A o \in P!Obj : tally'[o] = tally[o] + HeldBy(o, et) - HeldBy(o, es)
      PROVE  CallInv'
  <2>1. Counted(et, i + 1, na, nk)  BY <1>2, <1>3, <1>6, Advance
  <2>2. IsFiniteSet(DOMAIN <<>>)  BY FS_EmptySet
  <2>3. IsCall(ongoing')
    <3> HIDE DEF es, i, e
    <3> QED  BY <1>6, <2>1, <2>2 DEF IsCall
  <2>4. ongoing'.pc = "pass1" /\ ongoing'.args = et /\ ongoing'.kwnames = <<>>  BY <1>6
  <2>5. CallTypes'  BY <1>1, <1>2, <1>6, <2>3, <2>4 DEF CallTypes
  <2>6. \A o : Owing(o)' = Often(o, <<>>) + HeldBy(o, et)  BY <2>4 DEF Owing
  <2>7. \A o : HeldBy(o, et) \in Nat  BY FamSized, OftenNat DEF HeldBy
  <2>8. CallRefs'
    <3> SUFFICES ASSUME NEW o \in P!Obj PROVE tally'[o] = InOperands(o, operands) + Owing(o)'
        BY <1>1 DEF CallRefs
    <3>1. tally[o] = InOperands(o, operands) + Owing(o)  BY <1>2 DEF CallRefs
    <3>2. InOperands(o, operands) \in Nat  BY <1>2, OperandsNat DEF CallTypes
    <3>3. tally'[o] = tally[o] + HeldBy(o, et) - HeldBy(o, es)  BY <1>6
    <3> QED  BY <1>4, <1>5, <2>6, <2>7, <3>1, <3>2, <3>3
  <2> QED  BY <2>5, <2>8 DEF CallInv
<1>7. CASE ongoing' = P!ToCleanup /\ tally' = tally  BY <1>1, <1>7, ToCleanupInv
<1>8. CASE /\ e.kind = "pos" /\ ~P!Missing(e) /\ tally' = tally
           /\ ongoing' = [[ongoing EXCEPT !.i = @ + 1] EXCEPT !.nargs = @ + 1]
  <2>2. ongoing' = [pc |-> "pass1", args |-> es, i |-> i + 1, nargs |-> ongoing.nargs + 1,
                    nkwargs |-> ongoing.nkwargs, pos |-> <<>>, kw |-> <<>>, kwnames |-> <<>>]
    <3> DEFINE na == ongoing.nargs
               nk == ongoing.nkwargs
    <3>1. ongoing' = [[ongoing EXCEPT !.i = @ + 1] EXCEPT !.nargs = @ + 1]  BY <1>8
    <3>2. ongoing = [pc |-> "pass1", args |-> es, i |-> i, nargs |-> na, nkwargs |-> nk,
                     pos |-> <<>>, kw |-> <<>>, kwnames |-> <<>>]
      BY <1>2
    <3> HIDE DEF es, i, e, na, nk
    <3>3. ASSUME NEW k, NEW m, NEW d, d = [[ongoing EXCEPT !.i = k] EXCEPT !.nargs = m]
          PROVE  d = [pc |-> "pass1", args |-> es, i |-> k, nargs |-> m, nkwargs |-> nk,
                      pos |-> <<>>, kw |-> <<>>, kwnames |-> <<>>]
      BY <3>2, <3>3
    <3>4. ongoing.i = i /\ ongoing.nargs = na  BY DEF na, nk, i
    <3>5. ongoing' = [[ongoing EXCEPT !.i = i + 1] EXCEPT !.nargs = na + 1]
      BY <3>1, <3>4, Zenon
    <3> QED  BY <3>3, <3>5 DEF na, nk
  <2>3. /\ Cardinality(DOMAIN P!Pos(e)) = 1 /\ Cardinality(DOMAIN P!Kw(e)) = 0 /\ Ready(e)
    <3>1. /\ e.keys \in Seq(Kwd \cup {Odd}) /\ e.vals \in Seq(Passed)
          /\ Len(e.keys) <= 1 /\ Len(e.vals) <= 1
      BY <1>3 DEF CallEntry, Fresh
    <3>2. Cardinality(DOMAIN e.vals) = Len(e.vals) /\ Cardinality(DOMAIN <<>>) = 0
      BY <3>1, SeqSized, FS_EmptySet
    <3>3. Len(e.vals) = 1
      <4> HIDE DEF e
      <4>1. e.vals # <<>>  BY <1>8 DEF P!Missing
      <4> QED  BY <3>1, <4>1, SeqSized
    <3> QED  BY <1>8, <3>2, <3>3 DEF P!Pos, P!Kw, P!Contents, Ready
  <2>4. /\ ongoing.nargs + Cardinality(DOMAIN P!Pos(e)) = ongoing.nargs + 1
        /\ ongoing.nkwargs + Cardinality(DOMAIN P!Kw(e)) = ongoing.nkwargs
    BY <1>2, <2>3, Totals
  <2>5. tally' \in [P!Obj -> Int] /\ \A o \in P!Obj : tally'[o] = tally[o] + HeldBy(o, es) - HeldBy(o, es)
    BY <1>2, <1>5, <1>8 DEF CallTypes
  <2> QED  BY <1>2, <1>6, <2>2, <2>3, <2>4, <2>5
<1>9. CASE /\ e.kind = "kw" /\ ~P!Missing(e) /\ tally' = tally
           /\ ongoing' = [[ongoing EXCEPT !.i = @ + 1] EXCEPT !.nkwargs = @ + 1]
  <2>2. ongoing' = [pc |-> "pass1", args |-> es, i |-> i + 1, nargs |-> ongoing.nargs,
                    nkwargs |-> ongoing.nkwargs + 1, pos |-> <<>>, kw |-> <<>>, kwnames |-> <<>>]
    <3> DEFINE na == ongoing.nargs
               nk == ongoing.nkwargs
    <3>1. ongoing' = [[ongoing EXCEPT !.i = @ + 1] EXCEPT !.nkwargs = @ + 1]  BY <1>9
    <3>2. ongoing = [pc |-> "pass1", args |-> es, i |-> i, nargs |-> na, nkwargs |-> nk,
                     pos |-> <<>>, kw |-> <<>>, kwnames |-> <<>>]
      BY <1>2
    <3> HIDE DEF es, i, e, na, nk
    <3>3. ASSUME NEW k, NEW m, NEW d, d = [[ongoing EXCEPT !.i = k] EXCEPT !.nkwargs = m]
          PROVE  d = [pc |-> "pass1", args |-> es, i |-> k, nargs |-> na, nkwargs |-> m,
                      pos |-> <<>>, kw |-> <<>>, kwnames |-> <<>>]
      BY <3>2, <3>3
    <3>4. ongoing.i = i /\ ongoing.nkwargs = nk  BY DEF na, nk, i
    <3>5. ongoing' = [[ongoing EXCEPT !.i = i + 1] EXCEPT !.nkwargs = nk + 1]
      BY <3>1, <3>4, Zenon
    <3> QED  BY <3>3, <3>5 DEF na, nk
  <2>3. /\ Cardinality(DOMAIN P!Pos(e)) = 0 /\ Cardinality(DOMAIN P!Kw(e)) = 1 /\ Ready(e)
    <3>1. /\ e.keys \in Seq(Kwd \cup {Odd}) /\ e.vals \in Seq(Passed)
          /\ Len(e.keys) <= 1 /\ Len(e.vals) <= 1
      BY <1>3 DEF CallEntry, Fresh
    <3>2. Cardinality(DOMAIN e.vals) = Len(e.vals) /\ Cardinality(DOMAIN <<>>) = 0
      BY <3>1, SeqSized, FS_EmptySet
    <3>3. Len(e.vals) = 1 /\ Len(e.keys) = 1
      <4> HIDE DEF e
      <4>1. e.vals # <<>> /\ e.keys # <<>>  BY <1>9 DEF P!Missing
      <4> QED  BY <3>1, <4>1, SeqSized
    <3> QED  BY <1>9, <3>2, <3>3 DEF P!Pos, P!Kw, P!Contents, Ready
  <2>4. /\ ongoing.nargs + Cardinality(DOMAIN P!Pos(e)) = ongoing.nargs
        /\ ongoing.nkwargs + Cardinality(DOMAIN P!Kw(e)) = ongoing.nkwargs + 1
    BY <1>2, <2>3, Totals
  <2>5. tally' \in [P!Obj -> Int] /\ \A o \in P!Obj : tally'[o] = tally[o] + HeldBy(o, es) - HeldBy(o, es)
    BY <1>2, <1>5, <1>9 DEF CallTypes
  <2> QED  BY <1>2, <1>6, <2>2, <2>3, <2>4, <2>5
<1>10. CASE /\ e.kind \in {"star", "dstar"}
            /\ LET x == P!Expanded(e)
               IN  ongoing' = [[ongoing EXCEPT !.i = @ + 1] EXCEPT
                        !.args[i] = [e EXCEPT !.keys = x.keys, !.vals = x.vals],
                        !.nargs = IF e.kind = "star" THEN @ + Len(x.vals) ELSE @,
                        !.nkwargs = IF e.kind = "dstar" THEN @ + Len(x.keys) ELSE @]
            /\ tally' = [o \in P!Obj |-> tally[o] + P!Items(o, P!Taken(e))]
  <2> DEFINE x == P!Expanded(e)
             e2 == [kind |-> e.kind, keys |-> x.keys, vals |-> x.vals]
             et == [es EXCEPT ![i] = e2]
             na == ongoing.nargs
             nk == ongoing.nkwargs
             na2 == IF e.kind = "star" THEN na + Len(x.vals) ELSE na
             nk2 == IF e.kind = "dstar" THEN nk + Len(x.keys) ELSE nk
  <2>1. /\ x.keys \in Seq(Kwd \cup {Odd}) /\ x.vals \in Seq(Passed)
        /\ e.kind = "dstar" => Len(x.keys) = Len(x.vals)
        /\ e.kind = "star" => x.keys = <<>>
    <3>1. CASE e.kind = "star"
      <4>1. x.keys = <<>> /\ x.vals = operands.list  BY <3>1 DEF P!Expanded
      <4> QED  BY <1>2, <3>1, <4>1 DEF CallTypes
    <3>2. CASE e.kind # "star"
      <4>1. x = operands.dict  BY <3>2 DEF P!Expanded
      <4> HIDE DEF x
      <4> QED  BY <1>2, <3>2, <4>1 DEF CallTypes
    <3> QED  BY <3>1, <3>2
  <2>2. [e EXCEPT !.keys = x.keys, !.vals = x.vals] = e2
    <3>1. e = [kind |-> e.kind, keys |-> e.keys, vals |-> e.vals]  BY <1>3 DEF CallEntry
    <3> DEFINE k == e.kind
               p == e.keys
               q == e.vals
    <3>2. e = [kind |-> k, keys |-> p, vals |-> q]  BY <3>1
    <3> HIDE DEF e, x, k, p, q
    <3>3. ASSUME NEW u, NEW w, NEW d, d = [e EXCEPT !.keys = u, !.vals = w]
          PROVE  d = [kind |-> k, keys |-> u, vals |-> w]
      BY <3>2, <3>3
    <3> QED  BY <3>3, Zenon DEF k
  <2>3. ongoing' = [pc |-> "pass1", args |-> et, i |-> i + 1, nargs |-> na2, nkwargs |-> nk2,
                    pos |-> <<>>, kw |-> <<>>, kwnames |-> <<>>]
    <3>1. ongoing' = [[ongoing EXCEPT !.i = @ + 1] EXCEPT !.args[i] = e2,
                          !.nargs = IF e.kind = "star" THEN @ + Len(x.vals) ELSE @,
                          !.nkwargs = IF e.kind = "dstar" THEN @ + Len(x.keys) ELSE @]
      <4>1. ongoing' = [[ongoing EXCEPT !.i = @ + 1] EXCEPT
                          !.args[i] = [e EXCEPT !.keys = x.keys, !.vals = x.vals],
                          !.nargs = IF e.kind = "star" THEN @ + Len(x.vals) ELSE @,
                          !.nkwargs = IF e.kind = "dstar" THEN @ + Len(x.keys) ELSE @]
        BY <1>10
      <4> QED  BY <4>1, <2>2, Zenon
    <3>2. ongoing = [pc |-> "pass1", args |-> es, i |-> i, nargs |-> na, nkwargs |-> nk,
                     pos |-> <<>>, kw |-> <<>>, kwnames |-> <<>>]
      BY <1>2
    <3>4. ongoing.i = i /\ ongoing.nargs = na /\ ongoing.nkwargs = nk /\ ongoing.args = es
      BY DEF na, nk, i, es
    <3> HIDE DEF es, i, e, na, nk, x, e2
    <3>5. ASSUME NEW k, NEW m, NEW n, NEW b, NEW d,
                 d = [[[[ongoing EXCEPT !.i = k] EXCEPT !.args = b] EXCEPT !.nargs = m] EXCEPT !.nkwargs = n]
          PROVE  d = [pc |-> "pass1", args |-> b, i |-> k, nargs |-> m, nkwargs |-> n,
                      pos |-> <<>>, kw |-> <<>>, kwnames |-> <<>>]
      BY <3>2, <3>5
    <3>6. ongoing' = [[[[ongoing EXCEPT !.i = i + 1] EXCEPT !.args = et] EXCEPT !.nargs = na2]
                         EXCEPT !.nkwargs = nk2]
      <4> DEFINE d0 == [ongoing EXCEPT !.i = i + 1]
                 d1 == [d0 EXCEPT !.args = et]
                 d2 == [d1 EXCEPT !.nargs = na2]
      <4>1. d0 = [ongoing EXCEPT !.i = @ + 1]  BY <3>4, Zenon
      <4>2. d0.args = es /\ d0.nargs = na /\ d0.nkwargs = nk  BY <3>2
      <4>3. d1 = [d0 EXCEPT !.args[i] = e2]  BY <4>2, Zenon
      <4>4. d1.nargs = na /\ d1.nkwargs = nk  BY <3>2
      <4>5. d2 = [d1 EXCEPT !.nargs = IF e.kind = "star" THEN @ + Len(x.vals) ELSE @]
        BY <4>4, Zenon
      <4>6. d2.nkwargs = nk  BY <3>2
      <4>7. [d2 EXCEPT !.nkwargs = nk2] = [d2 EXCEPT !.nkwargs = IF e.kind = "dstar" THEN @ + Len(x.keys) ELSE @]
        BY <4>6, Zenon
      <4> QED  BY <3>1, <4>1, <4>3, <4>5, <4>7, Zenon
    <3> QED  BY <3>5, <3>6
  <2>4. e2 \in CallEntry /\ e2.kind = e.kind /\ e2.keys = x.keys /\ e2.vals = x.vals
    BY <1>3, <2>1 DEF CallEntry
  <2>5. /\ et \in Seq(CallEntry) /\ Len(et) = Len(es) /\ et[i] = e2
        /\ \A j \in 1 .. Len(es) : j # i => et[j] = es[j]
        /\ DOMAIN et = DOMAIN es /\ DOMAIN es = 1 .. Len(es)
    <3> HIDE DEF es, i, e2
    <3> QED  BY <1>2, <1>3, <2>4
  <2>6. /\ na2 = na + Cardinality(DOMAIN P!Pos(e2)) /\ nk2 = nk + Cardinality(DOMAIN P!Kw(e2))
        /\ Ready(e2)
    <3>1. /\ Cardinality(DOMAIN x.vals) = Len(x.vals) /\ Cardinality(DOMAIN <<>>) = 0
      BY <2>1, SeqSized, FS_EmptySet
    <3>2. na \in Nat /\ nk \in Nat  BY <1>2, Totals
    <3> HIDE DEF x, e, e2, na, nk
    <3> QED  BY <1>10, <2>1, <2>4, <3>1, <3>2 DEF P!Pos, P!Kw, P!Contents, Ready
  <2>7. \A o : HeldBy(o, et) = HeldBy(o, es) + Often(o, x.keys) + Often(o, x.vals)
    <3>1. Sized(KeyFam(es)) /\ Sized(ValFam(es))  BY <1>2, FamSized
    <3>2. IsFiniteSet(DOMAIN x.keys) /\ IsFiniteSet(DOMAIN x.vals)  BY <2>1, SeqSized
    <3>3. /\ DOMAIN KeyFam(et) = DOMAIN KeyFam(es) /\ DOMAIN ValFam(et) = DOMAIN ValFam(es)
          /\ i \in DOMAIN KeyFam(es) /\ i \in DOMAIN ValFam(es)
          /\ KeyFam(et)[i] = x.keys /\ ValFam(et)[i] = x.vals
          /\ \A j \in DOMAIN KeyFam(es) : j # i => KeyFam(et)[j] = KeyFam(es)[j]
          /\ \A j \in DOMAIN ValFam(es) : j # i => ValFam(et)[j] = ValFam(es)[j]
          /\ KeyFam(es)[i] = e.keys /\ ValFam(es)[i] = e.vals
      <4> HIDE DEF es, i, et, e2, x
      <4> QED  BY <1>3, <2>4, <2>5 DEF KeyFam, ValFam, e
    <3>4. e.keys = <<>> /\ e.vals = <<>>  BY <1>3, <1>10 DEF Fresh
    <3> HIDE DEF es, i, et, e2, x, e
    <3>5. \A o : Often(o, P!Flat(KeyFam(et))) = Often(o, P!Flat(KeyFam(es))) + Often(o, x.keys) - Often(o, <<>>)
      BY <3>1, <3>2, <3>3, <3>4, SlotsMove
    <3>6. \A o : Often(o, P!Flat(ValFam(et))) = Often(o, P!Flat(ValFam(es))) + Often(o, x.vals) - Often(o, <<>>)
      BY <3>1, <3>2, <3>3, <3>4, SlotsMove
    <3>7. \A o : /\ Often(o, P!Flat(KeyFam(es))) \in Nat /\ Often(o, P!Flat(ValFam(es))) \in Nat
                 /\ Often(o, x.keys) \in Nat /\ Often(o, x.vals) \in Nat
      <4>1. \A o : Often(o, x.keys) \in Nat /\ Often(o, x.vals) \in Nat
        BY <3>2, TimesNat DEF Often
      <4> QED  BY <3>1, <4>1, OftenNat
    <3> QED  BY <1>5, <3>5, <3>6, <3>7 DEF HeldBy
  <2>8. /\ tally' \in [P!Obj -> Int]
        /\ \A o \in P!Obj : tally'[o] = tally[o] + HeldBy(o, et) - HeldBy(o, es)
    <3>1. \A o : P!Items(o, P!Taken(e)) = Often(o, x.keys) + Often(o, x.vals)
      BY OftenIs DEF P!Items, P!Taken
    <3>2. \A o : Often(o, x.keys) \in Nat /\ Often(o, x.vals) \in Nat
      <4>1. IsFiniteSet(DOMAIN x.keys) /\ IsFiniteSet(DOMAIN x.vals)  BY <2>1, SeqSized
      <4> HIDE DEF x
      <4> QED  BY <4>1, TimesNat DEF Often
    <3>3. tally' = [o \in P!Obj |-> tally[o] + P!Items(o, P!Taken(e))] /\ tally \in [P!Obj -> Int]
      BY <1>2, <1>10 DEF CallTypes
    <3> HIDE DEF x, es, et, e
    <3> QED  BY <1>5, <2>7, <3>1, <3>2, <3>3
  <2> HIDE DEF x, es, et, e, e2, na2, nk2, i
  <2> QED  BY <1>6, <2>3, <2>5, <2>6, <2>8 DEF na, nk
<1> QED  BY <1>1, <1>7, <1>8, <1>9, <1>10 DEF P!PassOne

\* The names of the entries up to n: those of keywords change hands, those of dictionaries
\* are new references.
LEMMA NamesPass ==
    ASSUME NEW es \in Seq(CallEntry), NEW n \in 0 .. Len(es), NEW et,
           et = [i \in DOMAIN es |-> IF i <= n THEN P!NameMoved(es[i]) ELSE es[i]]
    PROVE  /\ et \in Seq(CallEntry) /\ Len(et) = Len(es) /\ ValFam(et) = ValFam(es)
           /\ \A o : Often(o, P!Flat(KeysOf(es, n))) + Often(o, P!Flat(KeyFam(et)))
                     = Often(o, P!Flat(KeyFam(es))) + Often(o, P!Flat(NewOf(es, n)))
<1>0. DOMAIN es = 1 .. Len(es) /\ Len(es) \in Nat /\ n \in Nat /\ 1 .. n \subseteq DOMAIN es
  OBVIOUS
<1>1. \A i \in DOMAIN es : es[i] \in CallEntry  OBVIOUS
<1>2. ASSUME NEW e \in CallEntry
      PROVE  /\ P!NameMoved(e) \in CallEntry /\ P!NameMoved(e).vals = e.vals
             /\ P!NameMoved(e).kind = e.kind
             /\ P!NameMoved(e).keys = IF e.kind = "kw" THEN <<>> ELSE e.keys
  <2>1. CASE e.kind # "kw"  BY <2>1 DEF P!NameMoved
  <2>2. CASE e.kind = "kw"
    <3>1. P!NameMoved(e) = [e EXCEPT !.keys = <<>>]  BY <2>2 DEF P!NameMoved
    <3>2. <<>> \in Seq(Kwd \cup {Odd})  OBVIOUS
    <3>3. ASSUME NEW u \in Seq(Kwd \cup {Odd}), NEW d, d = [e EXCEPT !.keys = u]
          PROVE  d \in CallEntry /\ d.vals = e.vals /\ d.kind = e.kind /\ d.keys = u
      BY <3>3 DEF CallEntry
    <3> QED  BY <2>2, <3>1, <3>2, <3>3
  <2> QED  BY <2>1, <2>2
<1>3. \A i \in DOMAIN es : et[i] \in CallEntry /\ et[i].vals = es[i].vals  BY <1>1, <1>2
<1>4. et \in Seq(CallEntry) /\ Len(et) = Len(es) /\ DOMAIN et = DOMAIN es  BY <1>0, <1>3
<1>5. ValFam(et) = ValFam(es)  BY <1>3, <1>4 DEF ValFam
<1>6. ASSUME NEW o
      PROVE  Often(o, P!Flat(KeysOf(es, n))) + Often(o, P!Flat(KeyFam(et)))
             = Often(o, P!Flat(KeyFam(es))) + Often(o, P!Flat(NewOf(es, n)))
  <2> DEFINE Has(ss) == {x \in Slots(ss) : P!Flat(ss)[x] = o}
             Old == {x \in Has(KeyFam(es)) : x[1] <= n /\ es[x[1]].kind = "kw"}
  <2>1. ASSUME NEW ss, Sized(ss)
        PROVE  /\ \A x : x \in Has(ss) <=> \E i \in DOMAIN ss : \E j \in DOMAIN ss[i] :
                                               x = <<i, j>> /\ ss[i][j] = o
               /\ IsFiniteSet(Has(ss)) /\ Often(o, P!Flat(ss)) = Cardinality(Has(ss))
    <3>1. IsFiniteSet(Slots(ss))  BY <2>1, SlotsFinite
    <3>2. IsFiniteSet(Has(ss))  BY <3>1, FS_Subset
    <3>3. \A x : x \in Has(ss) <=> \E i \in DOMAIN ss : \E j \in DOMAIN ss[i] :
                                       x = <<i, j>> /\ ss[i][j] = o
      BY SlotsAre
    <3> QED  BY <3>2, <3>3 DEF Often, Times, Slots
  <2> HIDE DEF Has
  <2>2. /\ Sized(KeysOf(es, n)) /\ Sized(KeyFam(et)) /\ Sized(KeyFam(es)) /\ Sized(NewOf(es, n))
    BY <1>4, FamSized
  <2>3. \A i \in 1 .. n : KeysOf(es, n)[i] = P!Keys(es[i]) /\ NewOf(es, n)[i] = P!NewKeys(es[i])
    BY DEF KeysOf, NewOf
  <2>4. \A i \in DOMAIN es : /\ KeyFam(es)[i] = es[i].keys
                            /\ KeyFam(et)[i] = IF i <= n /\ es[i].kind = "kw" THEN <<>> ELSE es[i].keys
    BY <1>1, <1>2, <1>4 DEF KeyFam
  <2>5. /\ DOMAIN KeysOf(es, n) = 1 .. n /\ DOMAIN NewOf(es, n) = 1 .. n
        /\ DOMAIN KeyFam(es) = DOMAIN es /\ DOMAIN KeyFam(et) = DOMAIN es
    BY <1>4 DEF KeysOf, NewOf, KeyFam
  <2>6. DOMAIN <<>> = {}  OBVIOUS
  <2>7. \A x : x \in Has(KeysOf(es, n)) <=>
            \E i \in 1 .. n : \E j \in DOMAIN P!Keys(es[i]) : x = <<i, j>> /\ P!Keys(es[i])[j] = o
    BY <2>1, <2>2, <2>3, <2>5
  <2>8. \A x : x \in Has(NewOf(es, n)) <=>
            \E i \in 1 .. n : \E j \in DOMAIN P!NewKeys(es[i]) : x = <<i, j>> /\ P!NewKeys(es[i])[j] = o
    BY <2>1, <2>2, <2>3, <2>5
  <2>9. \A x : x \in Has(KeyFam(es)) <=>
            \E i \in DOMAIN es : \E j \in DOMAIN es[i].keys : x = <<i, j>> /\ es[i].keys[j] = o
    BY <2>1, <2>2, <2>4, <2>5
  <2>10. \A x : x \in Has(KeyFam(et)) <=>
            \E i \in DOMAIN es : \E j \in DOMAIN es[i].keys :
                x = <<i, j>> /\ es[i].keys[j] = o /\ ~(i <= n /\ es[i].kind = "kw")
    BY <2>1, <2>2, <2>4, <2>5, <2>6
  <2>11. /\ IsFiniteSet(Has(KeysOf(es, n))) /\ IsFiniteSet(Has(NewOf(es, n)))
         /\ IsFiniteSet(Has(KeyFam(es))) /\ IsFiniteSet(Has(KeyFam(et)))
         /\ Often(o, P!Flat(KeysOf(es, n))) = Cardinality(Has(KeysOf(es, n)))
         /\ Often(o, P!Flat(NewOf(es, n))) = Cardinality(Has(NewOf(es, n)))
         /\ Often(o, P!Flat(KeyFam(es))) = Cardinality(Has(KeyFam(es)))
         /\ Often(o, P!Flat(KeyFam(et))) = Cardinality(Has(KeyFam(et)))
    BY <2>1, <2>2
  <2>12. \A x : x \in Old <=>
            \E i \in 1 .. n : \E j \in DOMAIN es[i].keys :
                x = <<i, j>> /\ es[i].keys[j] = o /\ es[i].kind = "kw"
    <3>1. \A x : x \in Old => \E i \in 1 .. n : \E j \in DOMAIN es[i].keys :
                x = <<i, j>> /\ es[i].keys[j] = o /\ es[i].kind = "kw"
      <4> SUFFICES ASSUME NEW x \in Old
                   PROVE  \E i \in 1 .. n : \E j \in DOMAIN es[i].keys :
                             x = <<i, j>> /\ es[i].keys[j] = o /\ es[i].kind = "kw"
          OBVIOUS
      <4>0. PICK i \in DOMAIN es : \E j \in DOMAIN es[i].keys : x = <<i, j>> /\ es[i].keys[j] = o
        BY <2>9
      <4>1. PICK j \in DOMAIN es[i].keys : x = <<i, j>> /\ es[i].keys[j] = o
        BY <4>0
      <4>2. x[1] = i  BY <4>1
      <4>3. i <= n /\ es[i].kind = "kw"  BY <4>2
      <4>4. i \in 1 .. n  BY <1>0, <4>3
      <4> QED  BY <4>1, <4>3, <4>4
    <3>2. ASSUME NEW i \in 1 .. n, NEW j \in DOMAIN es[i].keys, es[i].keys[j] = o, es[i].kind = "kw"
          PROVE  <<i, j>> \in Old
      <4>1. i \in DOMAIN es /\ i <= n  BY <1>0
      <4>2. <<i, j>> \in Has(KeyFam(es))  BY <2>9, <3>2, <4>1
      <4>3. <<i, j>>[1] = i  OBVIOUS
      <4> QED  BY <3>2, <4>1, <4>2, <4>3
    <3> QED  BY <3>1, <3>2
  <2>13. IsFiniteSet(Old)  BY <2>11, FS_Subset
  <2> HIDE DEF Old
  <2>14. /\ Has(KeyFam(es)) = Old \cup Has(KeyFam(et)) /\ Old \cap Has(KeyFam(et)) = {}
    <3>1. \A x : x \in Has(KeyFam(es)) <=> x \in Old \/ x \in Has(KeyFam(et))
      <4> SUFFICES ASSUME NEW x PROVE x \in Has(KeyFam(es)) <=> x \in Old \/ x \in Has(KeyFam(et))
          OBVIOUS
      <4>1. \A i \in DOMAIN es : i <= n => i \in 1 .. n  BY <1>0
      <4>2. x \in Has(KeyFam(es)) => x \in Old \/ x \in Has(KeyFam(et))
        BY <2>9, <2>10, <2>12, <4>1
      <4>3. x \in Old => x \in Has(KeyFam(es))  BY <1>0, <2>9, <2>12
      <4>4. x \in Has(KeyFam(et)) => x \in Has(KeyFam(es))  BY <2>9, <2>10
      <4> QED  BY <4>2, <4>3, <4>4
    <3>2. \A x : ~(x \in Old /\ x \in Has(KeyFam(et)))
      <4>1. \A i \in 1 .. n : i <= n  BY <1>0
      <4> QED  BY <2>10, <2>12, <4>1
    <3> QED  BY <3>1, <3>2
  <2>15. /\ Has(KeysOf(es, n)) = Old \cup Has(NewOf(es, n)) /\ Old \cap Has(NewOf(es, n)) = {}
    <3>1. \A i : /\ es[i].kind = "kw" => P!Keys(es[i]) = es[i].keys /\ P!NewKeys(es[i]) = <<>>
                 /\ es[i].kind # "kw" => P!NewKeys(es[i]) = P!Keys(es[i])
      BY DEF P!Keys, P!NewKeys, P!Contents
    <3>2. \A x : x \in Has(KeysOf(es, n)) => x \in Old \/ x \in Has(NewOf(es, n))
      BY <2>7, <2>8, <2>12, <3>1
    <3>3. \A x : x \in Old => x \in Has(KeysOf(es, n))  BY <2>7, <2>12, <3>1
    <3>4. \A x : x \in Has(NewOf(es, n)) => x \in Has(KeysOf(es, n)) /\ x \notin Old
      BY <2>6, <2>7, <2>8, <2>12, <3>1
    <3> QED  BY <3>2, <3>3, <3>4
  <2>16. ASSUME NEW A, NEW B, IsFiniteSet(A), IsFiniteSet(B), A \cap B = {}
         PROVE  /\ Cardinality(A \cup B) = Cardinality(A) + Cardinality(B)
                /\ Cardinality(A) \in Nat /\ Cardinality(B) \in Nat
    <3>1. Cardinality(A) \in Nat /\ Cardinality(B) \in Nat  BY <2>16, FS_CardinalityType
    <3>2. Cardinality(A \cap B) = 0  BY <2>16, FS_EmptySet
    <3>3. Cardinality(A \cup B) = Cardinality(A) + Cardinality(B) - Cardinality(A \cap B)
      BY <2>16, FS_Union
    <3> QED  BY <3>1, <3>2, <3>3
  <2>17. /\ Cardinality(Has(KeyFam(es))) = Cardinality(Old) + Cardinality(Has(KeyFam(et)))
         /\ Cardinality(Has(KeysOf(es, n))) = Cardinality(Old) + Cardinality(Has(NewOf(es, n)))
         /\ Cardinality(Old) \in Nat /\ Cardinality(Has(KeyFam(et))) \in Nat
         /\ Cardinality(Has(NewOf(es, n))) \in Nat
    BY <2>11, <2>13, <2>14, <2>15, <2>16
  <2> QED  BY <2>11, <2>17
<1> QED  BY <1>4, <1>5, <1>6

LEMMA PassTwoInv == ASSUME CallInv, P!PassTwo PROVE CallInv'
<1> DEFINE es == ongoing.args
           at == ongoing.i
           na == ongoing.nargs
           nk == ongoing.nkwargs
<1>1. ongoing.pc = "pass1" /\ at > Len(es) /\ operands' = operands  BY DEF P!PassTwo
<1>2. /\ IsCall(ongoing) /\ CallTypes /\ CallRefs /\ es \in Seq(CallEntry)
      /\ Counted(es, at, na, nk)
      /\ ongoing = [pc |-> "pass1", args |-> es, i |-> at, nargs |-> na, nkwargs |-> nk,
                    pos |-> <<>>, kw |-> <<>>, kwnames |-> <<>>]
  BY <1>1 DEF CallInv, CallTypes, IsCall
<1>3. CASE ongoing' = P!ToCleanup /\ tally' = tally  BY <1>1, <1>3, ToCleanupInv
<1>4. ASSUME NEW n \in 0 .. Len(es), P!Fills(n),
             ongoing' = [ongoing EXCEPT
                 !.args = [i \in DOMAIN es |-> IF i <= n THEN P!NameMoved(es[i]) ELSE es[i]],
                 !.pos = P!Flat(PosOf(es, n)), !.kw = P!Flat(KwOf(es, n)),
                 !.kwnames = P!Flat(KeysOf(es, n)),
                 !.pc = IF n = Len(es) THEN "calling" ELSE "cleanup"],
             tally' = [o \in P!Obj |-> tally[o] + P!Count(o, P!Flat(NewOf(es, n)))]
      PROVE  CallInv'
  <2> DEFINE et == [i \in DOMAIN es |-> IF i <= n THEN P!NameMoved(es[i]) ELSE es[i]]
             to == IF n = Len(es) THEN "calling" ELSE "cleanup"
             pos == P!Flat(PosOf(es, n))
             kw == P!Flat(KwOf(es, n))
             names == P!Flat(KeysOf(es, n))
  <2>1. ongoing' = [pc |-> to, args |-> et, i |-> at, nargs |-> na, nkwargs |-> nk,
                    pos |-> pos, kw |-> kw, kwnames |-> names]
    <3>1. ongoing' = [ongoing EXCEPT !.args = et, !.pos = pos, !.kw = kw, !.kwnames = names, !.pc = to]
      BY <1>4
    <3> HIDE DEF es, at, na, nk, et, to, pos, kw, names
    <3>2. ongoing = [pc |-> "pass1", args |-> es, i |-> at, nargs |-> na, nkwargs |-> nk,
                     pos |-> <<>>, kw |-> <<>>, kwnames |-> <<>>]
      BY <1>2
    <3>3. ASSUME NEW a, NEW b, NEW z, z = [[ongoing EXCEPT !.args = a] EXCEPT !.pos = b]
          PROVE  z = [pc |-> "pass1", args |-> a, i |-> at, nargs |-> na, nkwargs |-> nk,
                      pos |-> b, kw |-> <<>>, kwnames |-> <<>>]
      BY <3>2, <3>3
    <3>4. ASSUME NEW a, NEW b, NEW c, NEW d, NEW t, NEW y, NEW z,
                 y = [pc |-> "pass1", args |-> a, i |-> at, nargs |-> na, nkwargs |-> nk,
                      pos |-> b, kw |-> <<>>, kwnames |-> <<>>],
                 z = [[[y EXCEPT !.kw = c] EXCEPT !.kwnames = d] EXCEPT !.pc = t]
          PROVE  z = [pc |-> t, args |-> a, i |-> at, nargs |-> na, nkwargs |-> nk,
                      pos |-> b, kw |-> c, kwnames |-> d]
      BY <3>4
    <3>5. [[ongoing EXCEPT !.args = et] EXCEPT !.pos = pos]
          = [pc |-> "pass1", args |-> et, i |-> at, nargs |-> na, nkwargs |-> nk,
             pos |-> pos, kw |-> <<>>, kwnames |-> <<>>]
      BY <3>3
    <3>6. ongoing' = [[[[[ongoing EXCEPT !.args = et] EXCEPT !.pos = pos] EXCEPT !.kw = kw]
                         EXCEPT !.kwnames = names] EXCEPT !.pc = to]
      BY <3>1
    <3> QED  BY <3>4, <3>5, <3>6
  <2>2. /\ et \in Seq(CallEntry) /\ Len(et) = Len(es) /\ ValFam(et) = ValFam(es)
        /\ \A o : Often(o, names) + Often(o, P!Flat(KeyFam(et)))
                  = Often(o, P!Flat(KeyFam(es))) + Often(o, P!Flat(NewOf(es, n)))
    BY <1>2, NamesPass
  <2>3. /\ DOMAIN es = 1 .. Len(es) /\ DOMAIN et = DOMAIN es /\ 1 .. n \subseteq DOMAIN es
        /\ \A k \in DOMAIN es : et[k].vals = es[k].vals
    <3>1. DOMAIN es = 1 .. Len(es) /\ DOMAIN et = DOMAIN es /\ 1 .. n \subseteq DOMAIN es
      BY <1>2
    <3>2. \A k \in DOMAIN es : ValFam(et)[k] = et[k].vals /\ ValFam(es)[k] = es[k].vals
      BY <3>1 DEF ValFam
    <3> HIDE DEF et
    <3> QED  BY <2>2, <3>1, <3>2
  <2>4. /\ Sized(PosOf(es, n)) /\ Sized(KwOf(es, n)) /\ Sized(KeysOf(es, n)) /\ Sized(NewOf(es, n))
        /\ Sized(KeyFam(es)) /\ Sized(ValFam(es)) /\ Sized(KeyFam(et))
    <3> HIDE DEF et
    <3> QED  BY <1>2, <2>2, FamSized
  <2>5. IsFiniteSet(DOMAIN names)  BY <2>4, SlotsFinite DEF Slots
  <2>6. Stands(pos, et) /\ Stands(kw, et)
    <3>1. DOMAIN <<>> = {}  OBVIOUS
    <3>2. ASSUME NEW k \in 1 .. n, NEW j \in DOMAIN P!Pos(es[k])
          PROVE  j \in DOMAIN es[k].vals /\ P!Pos(es[k])[j] = es[k].vals[j]
      BY <3>1 DEF P!Pos, P!Contents
    <3>3. ASSUME NEW k \in 1 .. n, NEW j \in DOMAIN P!Kw(es[k])
          PROVE  j \in DOMAIN es[k].vals /\ P!Kw(es[k])[j] = es[k].vals[j]
      BY <3>1 DEF P!Kw, P!Contents
    <3>4. ASSUME NEW x \in DOMAIN pos
          PROVE  \E i \in DOMAIN et : \E j \in DOMAIN et[i].vals : pos[x] = et[i].vals[j]
      <4>1. x \in Slots(PosOf(es, n))  BY DEF Slots
      <4>2. PICK k \in DOMAIN PosOf(es, n) : \E j \in DOMAIN PosOf(es, n)[k] : x = <<k, j>>
        BY <4>1, SlotsAre
      <4>3. PICK j \in DOMAIN PosOf(es, n)[k] : x = <<k, j>>  BY <4>2
      <4>4. pos[x] = PosOf(es, n)[k][j]  BY <4>2, <4>3, SlotsAre
      <4>5. k \in 1 .. n /\ PosOf(es, n)[k] = P!Pos(es[k])  BY DEF PosOf
      <4>6. j \in DOMAIN es[k].vals /\ P!Pos(es[k])[j] = es[k].vals[j]  BY <3>2, <4>3, <4>5
      <4> HIDE DEF pos, et
      <4> QED  BY <2>3, <4>4, <4>5, <4>6
    <3>5. ASSUME NEW x \in DOMAIN kw
          PROVE  \E i \in DOMAIN et : \E j \in DOMAIN et[i].vals : kw[x] = et[i].vals[j]
      <4>1. x \in Slots(KwOf(es, n))  BY DEF Slots
      <4>2. PICK k \in DOMAIN KwOf(es, n) : \E j \in DOMAIN KwOf(es, n)[k] : x = <<k, j>>
        BY <4>1, SlotsAre
      <4>3. PICK j \in DOMAIN KwOf(es, n)[k] : x = <<k, j>>  BY <4>2
      <4>4. kw[x] = KwOf(es, n)[k][j]  BY <4>2, <4>3, SlotsAre
      <4>5. k \in 1 .. n /\ KwOf(es, n)[k] = P!Kw(es[k])  BY DEF KwOf
      <4>6. j \in DOMAIN es[k].vals /\ P!Kw(es[k])[j] = es[k].vals[j]  BY <3>3, <4>3, <4>5
      <4> HIDE DEF kw, et
      <4> QED  BY <2>3, <4>4, <4>5, <4>6
    <3> HIDE DEF pos, kw, et
    <3> QED  BY <3>4, <3>5 DEF Stands
  <2>7. \A x \in DOMAIN names : names[x] \in Kwd
    <3> SUFFICES ASSUME NEW x \in DOMAIN names PROVE names[x] \in Kwd
        OBVIOUS
    <3>1. x \in Slots(KeysOf(es, n))  BY DEF Slots
    <3>2. PICK k \in DOMAIN KeysOf(es, n) : \E j \in DOMAIN KeysOf(es, n)[k] : x = <<k, j>>
      BY <3>1, SlotsAre
    <3>3. PICK j \in DOMAIN KeysOf(es, n)[k] : x = <<k, j>>  BY <3>2
    <3>4. names[x] = KeysOf(es, n)[k][j]  BY <3>2, <3>3, SlotsAre
    <3>5. k \in 1 .. n /\ KeysOf(es, n)[k] = P!Keys(es[k])  BY DEF KeysOf
    <3>6. P!Keys(es[k])[j] # Odd  BY <1>4, <3>3, <3>5 DEF P!Fills, P!Range
    <3>7. es[k] \in CallEntry  BY <1>2, <2>3, <3>5
    <3>8. P!Keys(es[k]) \in Seq(Kwd \cup {Odd})
      <4>1. <<>> \in Seq(Kwd \cup {Odd})  OBVIOUS
      <4> QED  BY <3>7, <4>1 DEF P!Keys, P!Contents, CallEntry
    <3>9. P!Keys(es[k])[j] \in Kwd \cup {Odd}  BY <3>3, <3>5, <3>8
    <3> QED  BY <3>4, <3>5, <3>6, <3>9
  <2>8. to = "calling" => /\ Cardinality(DOMAIN pos) = na /\ Cardinality(DOMAIN kw) = nk
                          /\ Cardinality(DOMAIN names) = nk
    <3> SUFFICES ASSUME n = Len(es)
                 PROVE  /\ Cardinality(DOMAIN pos) = na /\ Cardinality(DOMAIN kw) = nk
                        /\ Cardinality(DOMAIN names) = nk
        OBVIOUS
    <3>1. at - 1 = n  BY <1>1, <1>2 DEF Counted
    <3> QED  BY <1>2, <3>1 DEF Counted, Slots
  <2>9. to \in {"calling", "cleanup"} /\ to # "pass1"  OBVIOUS
  <2>10. ongoing'.pc = to /\ ongoing'.args = et /\ ongoing'.kwnames = names
    <3> HIDE DEF es, at, na, nk, et, to, pos, kw, names
    <3> QED  BY <2>1
  <2>11. IsCall(ongoing')
    <3> HIDE DEF es, at, na, nk, et, to, pos, kw, names
    <3> QED  BY <2>1, <2>2, <2>5, <2>6, <2>7, <2>8, <2>9 DEF IsCall
  <2>12. \A o : /\ Owing(o) = HeldBy(o, es) /\ Owing(o) \in Nat
                /\ Owing(o)' = Often(o, names) + HeldBy(o, et)
                /\ Owing(o)' = Owing(o) + Often(o, P!Flat(NewOf(es, n)))
                /\ Often(o, P!Flat(NewOf(es, n))) \in Nat
    <3> SUFFICES ASSUME NEW o
                 PROVE  /\ Owing(o) = HeldBy(o, es) /\ Owing(o) \in Nat
                        /\ Owing(o)' = Often(o, names) + HeldBy(o, et)
                        /\ Owing(o)' = Owing(o) + Often(o, P!Flat(NewOf(es, n)))
                        /\ Often(o, P!Flat(NewOf(es, n))) \in Nat
        OBVIOUS
    <3>1. Owing(o) \in Nat  BY <1>2, OwingNat
    <3>2. Owing(o) = Often(o, <<>>) + HeldBy(o, es)  BY <1>2 DEF Owing
    <3>3. /\ Often(o, P!Flat(KeyFam(es))) \in Nat /\ Often(o, P!Flat(ValFam(es))) \in Nat
          /\ Often(o, P!Flat(NewOf(es, n))) \in Nat /\ Often(o, names) \in Nat
          /\ Often(o, P!Flat(KeyFam(et))) \in Nat /\ Often(o, <<>>) = 0
      BY <2>4, OftenNat, OftenNone
    <3>4. Owing(o)' = Often(o, names) + HeldBy(o, et)
      <4> HIDE DEF et, to, names
      <4> QED  BY <2>9, <2>10 DEF Owing
    <3> HIDE DEF es, et, names
    <3> QED  BY <2>2, <3>1, <3>2, <3>3, <3>4 DEF HeldBy
  <2>13. /\ tally' \in [P!Obj -> Int]
         /\ \A o \in P!Obj : tally'[o] = tally[o] + Often(o, P!Flat(NewOf(es, n)))
    BY <1>2, <1>4, <2>12, OftenIs DEF CallTypes
  <2>14. CallTypes'
    <3> HIDE DEF es, et, to, names
    <3> QED  BY <1>1, <1>2, <2>9, <2>10, <2>11, <2>13 DEF CallTypes
  <2>15. CallRefs'
    <3> SUFFICES ASSUME NEW o \in P!Obj PROVE tally'[o] = InOperands(o, operands) + Owing(o)'
        BY <1>1 DEF CallRefs
    <3>1. tally[o] = InOperands(o, operands) + Owing(o)  BY <1>2 DEF CallRefs
    <3>2. InOperands(o, operands) \in Nat  BY <1>2, OperandsNat DEF CallTypes
    <3> HIDE DEF es
    <3> QED  BY <2>12, <2>13, <3>1, <3>2
  <2> QED  BY <2>14, <2>15 DEF CallInv
<1> QED  BY <1>1, <1>3, <1>4 DEF P!PassTwo, PosOf, KwOf, KeysOf, NewOf

LEMMA CleanupInv == ASSUME CallInv, P!Cleanup PROVE CallInv'
<1>1. /\ ongoing.pc = "cleanup" /\ operands' = operands /\ ongoing' = [pc |-> "idle"]
      /\ tally' = [o \in P!Obj |-> tally[o] - P!Owned(o, ongoing)]
  BY DEF P!Cleanup, P!Idle
<1>2. CallTypes /\ CallRefs  BY DEF CallInv
<1>3. \A o : P!Owned(o, ongoing) = Owing(o) /\ Owing(o) \in Nat
  BY <1>1, <1>2, OftenIs, HeldIs, OwingNat DEF P!Owned, Owing
<1>4. \A o \in P!Obj : tally'[o] = tally[o] - Owing(o) /\ tally[o] \in Int
  BY <1>1, <1>2, <1>3 DEF CallTypes
<1>5. tally' \in [P!Obj -> Int]  BY <1>1, <1>3, <1>4
<1>6. ongoing'.pc = "idle"  BY <1>1
<1>7. CallTypes'  BY <1>1, <1>2, <1>5, <1>6 DEF CallTypes
<1>8. \A o : Owing(o)' = 0  BY <1>6 DEF Owing
<1>9. CallRefs'
  <2> SUFFICES ASSUME NEW o \in P!Obj PROVE tally'[o] = InOperands(o, operands) + Owing(o)'
      BY <1>1 DEF CallRefs
  <2>1. tally[o] = InOperands(o, operands) + Owing(o)  BY <1>2 DEF CallRefs
  <2>2. InOperands(o, operands) \in Nat  BY <1>2, OperandsNat DEF CallTypes
  <2> QED  BY <1>3, <1>4, <1>8, <2>1, <2>2
<1> QED  BY <1>7, <1>9 DEF CallInv

-----------------------------------------------------------------------------
LEMMA BeginSimpleInv ==
    ASSUME CallInv, NEW es \in P!BoundedSeq(P!BoundedSeq(Passed, 1), 2), NEW mask,
           P!BeginSimple(es, mask)
    PROVE  CallInv'
<1> DEFINE to == IF <<>> \in P!ToSet(es) THEN "released" ELSE "simple"
<1>1. /\ ongoing.pc = "idle" /\ operands' = operands
      /\ ongoing' = [pc |-> to, args |-> es, owned |-> mask]
      /\ tally' = [o \in P!Obj |-> tally[o] + P!Count(o, P!Flat(OwnFam(es, mask)))]
      /\ \A i \in DOMAIN es : i \in mask \/ es[i] \in {<<v>> : v \in P!ToSet(operands.list)}
  BY DEF P!BeginSimple, P!OwnedOf, OwnFam
<1>2. CallTypes /\ CallRefs  BY DEF CallInv
<1>3. \A s \in P!BoundedSeq(Passed, 1) : s \in Seq(Passed)  BY SeqSized
<1>4. es \in Seq(Seq(Passed))
  <2>1. es \in Seq(P!BoundedSeq(Passed, 1))  BY SeqSized
  <2>2. \A i \in DOMAIN es : es[i] \in Seq(Passed)  BY <1>3, <2>1
  <2> QED  BY <2>1, <2>2
<1>5. \A o : Often(o, P!Flat(OwnFam(es, mask))) \in Nat  BY <1>4, FamSized, OftenNat
<1>6. ongoing'.pc = to /\ ongoing'.args = es /\ ongoing'.owned = mask
      /\ to \in {"simple", "released"}
  BY <1>1
<1>7. ASSUME to = "simple", NEW i \in DOMAIN es
      PROVE  /\ 1 \in DOMAIN es[i]
             /\ i \in mask \/ \E j \in DOMAIN operands.list : es[i][1] = operands.list[j]
  <2>1. es[i] # <<>>  BY <1>7 DEF P!ToSet
  <2>2. es[i] \in Seq(Passed)  BY <1>4
  <2>3. 1 \in DOMAIN es[i]
    <3> DEFINE s == es[i]
    <3>1. s \in Seq(Passed) /\ s # <<>>  BY <2>1, <2>2
    <3> HIDE DEF s
    <3>2. 1 \in DOMAIN s  BY <3>1
    <3> QED  BY <3>2 DEF s
  <2>4. ASSUME i \notin mask PROVE \E j \in DOMAIN operands.list : es[i][1] = operands.list[j]
    <3>1. PICK v \in P!ToSet(operands.list) : es[i] = <<v>>  BY <1>1, <2>4
    <3>2. es[i][1] = v  BY <3>1
    <3> QED  BY <3>2 DEF P!ToSet
  <2> QED  BY <2>3, <2>4
<1> HIDE DEF to
<1>8. IsSimple(ongoing)'
  BY <1>1, <1>4, <1>6, <1>7 DEF IsSimple
<1>9. \A o : Owing(o)' = Often(o, P!Flat(OwnFam(es, mask))) /\ Owing(o) = 0
  BY <1>1, <1>6 DEF Owing
<1>10. /\ tally' \in [P!Obj -> Int]
       /\ \A o \in P!Obj : tally'[o] = tally[o] + Often(o, P!Flat(OwnFam(es, mask)))
  BY <1>1, <1>2, <1>5, OftenIs DEF CallTypes
<1>11. CallTypes'
  BY <1>1, <1>2, <1>6, <1>8, <1>10 DEF CallTypes, IsSimple
<1>12. CallRefs'
  <2> SUFFICES ASSUME NEW o \in P!Obj PROVE tally'[o] = InOperands(o, operands) + Owing(o)'
      BY <1>1 DEF CallRefs
  <2>1. tally[o] = InOperands(o, operands) + Owing(o)  BY <1>2 DEF CallRefs
  <2>2. InOperands(o, operands) \in Nat  BY <1>2, OperandsNat DEF CallTypes
  <2> QED  BY <1>5, <1>9, <1>10, <2>1, <2>2
<1> QED  BY <1>11, <1>12 DEF CallInv

LEMMA ReturnSimpleInv == ASSUME CallInv, P!ReturnSimple PROVE CallInv'
<1>1. /\ ongoing.pc = "simple" /\ operands' = operands /\ tally' = tally
      /\ ongoing' = [ongoing EXCEPT !.pc = "released"]
  BY DEF P!ReturnSimple
<1>2. CallTypes /\ CallRefs /\ IsSimple(ongoing)  BY <1>1 DEF CallInv, CallTypes
<1>3. ongoing' = [pc |-> "released", args |-> ongoing.args, owned |-> ongoing.owned]
  BY <1>1, <1>2 DEF IsSimple
<1>4. ongoing'.pc = "released" /\ ongoing'.args = ongoing.args /\ ongoing'.owned = ongoing.owned
  BY <1>3
<1>5. CallTypes'  BY <1>1, <1>2, <1>3, <1>4 DEF CallTypes, IsSimple
<1>6. \A o : Owing(o)' = Owing(o)  BY <1>1, <1>4 DEF Owing
<1> QED  BY <1>1, <1>2, <1>5, <1>6 DEF CallInv, CallRefs

LEMMA ReleaseSimpleInv == ASSUME CallInv, P!ReleaseSimple PROVE CallInv'
<1>1. /\ ongoing.pc = "released" /\ operands' = operands /\ ongoing' = [pc |-> "idle"]
      /\ tally' = [o \in P!Obj |-> tally[o] - P!Count(o, P!Flat(OwnFam(ongoing.args, ongoing.owned)))]
  BY DEF P!ReleaseSimple, P!Idle, P!OwnedOf, OwnFam
<1>2. CallTypes /\ CallRefs  BY DEF CallInv
<1>3. \A o : /\ P!Count(o, P!Flat(OwnFam(ongoing.args, ongoing.owned))) = Owing(o)
             /\ Owing(o) \in Nat
  BY <1>1, <1>2, OftenIs, OwingNat DEF Owing
<1>4. \A o \in P!Obj : tally'[o] = tally[o] - Owing(o) /\ tally[o] \in Int
  BY <1>1, <1>2, <1>3 DEF CallTypes
<1>5. tally' \in [P!Obj -> Int]  BY <1>1, <1>3, <1>4
<1>6. ongoing'.pc = "idle"  BY <1>1
<1>7. CallTypes'  BY <1>1, <1>2, <1>5, <1>6 DEF CallTypes
<1>8. \A o : Owing(o)' = 0  BY <1>6 DEF Owing
<1>9. CallRefs'
  <2> SUFFICES ASSUME NEW o \in P!Obj PROVE tally'[o] = InOperands(o, operands) + Owing(o)'
      BY <1>1 DEF CallRefs
  <2>1. tally[o] = InOperands(o, operands) + Owing(o)  BY <1>2 DEF CallRefs
  <2>2. InOperands(o, operands) \in Nat  BY <1>2, OperandsNat DEF CallTypes
  <2> QED  BY <1>3, <1>4, <1>8, <2>1, <2>2
<1> QED  BY <1>7, <1>9 DEF CallInv

LEMMA CallStep == ASSUME CallInv, [P!Next]_(P!pcVars) PROVE CallInv'
<1>1. CASE P!Return
  <2>1. /\ ongoing.pc = "calling" /\ ongoing' = P!ToCleanup /\ UNCHANGED <<operands, tally>>
    BY <1>1 DEF P!Return
  <2> QED  BY <2>1, ToCleanupInv
<1>2. CASE UNCHANGED P!pcVars
  <2>1. operands' = operands /\ tally' = tally /\ ongoing' = ongoing  BY <1>2 DEF P!pcVars
  <2>2. \A o : Owing(o)' = Owing(o)  BY <2>1 DEF Owing
  <2> QED  BY <2>1, <2>2 DEF CallInv, CallTypes, CallRefs, IsCall, IsSimple
<1>3. ASSUME NEW es \in P!BoundedSeq(P!Entry, MaxEntries), P!Begin(es) PROVE CallInv'
  BY <1>3, BeginInv
<1>4. ASSUME NEW es \in P!BoundedSeq(P!BoundedSeq(Passed, 1), 2), NEW mask, P!BeginSimple(es, mask)
      PROVE  CallInv'
  BY <1>4, BeginSimpleInv
<1> QED
  BY <1>1, <1>2, <1>3, <1>4, MutateInv, PassOneInv, PassTwoInv, CleanupInv, ReturnSimpleInv,
     ReleaseSimpleInv DEF P!Next

LEMMA CallAnswer == ASSUME CallInv PROVE P!CallRefsExact /\ P!StackExact /\ P!StackAlive
<1>1. CallTypes /\ CallRefs  BY DEF CallInv
<1>2. P!CallRefsExact
  <2> SUFFICES ASSUME NEW o \in P!Obj
               PROVE  tally[o] = P!Count(o, operands.list) + P!Items(o, operands.dict) +
                          CASE ongoing.pc = "idle" -> 0
                            [] ongoing.pc \in {"simple", "released"} ->
                                   P!Count(o, P!OwnedOf(ongoing.args, ongoing.owned))
                            [] ongoing.pc \in {"pass1", "calling", "cleanup"} -> P!Owned(o, ongoing)
      BY DEF P!CallRefsExact
  <2>1. /\ tally[o] = InOperands(o, operands) + Owing(o)
        /\ Often(o, operands.list) \in Nat /\ Often(o, operands.dict.keys) \in Nat
        /\ Often(o, operands.dict.vals) \in Nat /\ Owing(o) \in Nat
    BY <1>1, OperandsNat, OwingNat DEF CallTypes, CallRefs
  <2>2. InOperands(o, operands) = P!Count(o, operands.list) + P!Items(o, operands.dict)
    BY <2>1, OftenIs DEF InOperands, P!Items
  <2>3. CASE ongoing.pc = "idle"
    <3>1. Owing(o) = 0  BY <2>3 DEF Owing
    <3> QED  BY <2>1, <2>2, <2>3, <3>1
  <2>4. CASE ongoing.pc \in {"simple", "released"}
    <3>1. Owing(o) = P!Count(o, P!OwnedOf(ongoing.args, ongoing.owned))
      BY <2>4, OftenIs DEF Owing, P!OwnedOf, OwnFam
    <3> QED  BY <2>1, <2>2, <2>4, <3>1
  <2>5. CASE ongoing.pc \in {"pass1", "calling", "cleanup"}
    <3>1. Owing(o) = P!Owned(o, ongoing)  BY <2>5, OftenIs, HeldIs DEF Owing, P!Owned
    <3> QED  BY <2>1, <2>2, <2>5, <3>1
  <2> QED  BY <1>1, <2>3, <2>4, <2>5 DEF CallTypes
<1>3. P!StackExact
  <2> SUFFICES ASSUME ongoing.pc = "calling"
               PROVE  /\ Cardinality(DOMAIN ongoing.pos) = ongoing.nargs
                      /\ Cardinality(DOMAIN ongoing.kw) = ongoing.nkwargs
                      /\ Cardinality(DOMAIN ongoing.kwnames) = ongoing.nkwargs
      BY DEF P!StackExact, P!Cardinality, Cardinality
  <2> QED  BY <1>1 DEF CallTypes, IsCall
<1>4. ASSUME NEW o \in P!Obj, Owing(o) > 0 \/ Often(o, operands.list) > 0 PROVE tally[o] > 0
  <2>1. /\ tally[o] = InOperands(o, operands) + Owing(o)
        /\ Often(o, operands.list) \in Nat /\ Often(o, operands.dict.keys) \in Nat
        /\ Often(o, operands.dict.vals) \in Nat /\ Owing(o) \in Nat
    BY <1>1, OperandsNat, OwingNat DEF CallTypes, CallRefs
  <2> QED  BY <1>4, <2>1 DEF InOperands
<1>5. ASSUME ongoing.pc = "calling",
             NEW o \in P!Range(ongoing.pos) \cup P!Range(ongoing.kw) \cup P!Range(ongoing.kwnames)
      PROVE  tally[o] > 0
  <2>1. /\ IsCall(ongoing) /\ ongoing.args \in Seq(CallEntry)
        /\ Owing(o) = Often(o, ongoing.kwnames) + HeldBy(o, ongoing.args)
    BY <1>1, <1>5 DEF CallTypes, IsCall, Owing
  <2>2. /\ Sized(KeyFam(ongoing.args)) /\ Sized(ValFam(ongoing.args))
        /\ IsFiniteSet(DOMAIN ongoing.kwnames)
    BY <2>1, FamSized DEF IsCall
  <2>3. /\ Often(o, P!Flat(KeyFam(ongoing.args))) \in Nat
        /\ Often(o, P!Flat(ValFam(ongoing.args))) \in Nat
        /\ Often(o, ongoing.kwnames) \in Nat
        /\ Often(o, ongoing.kwnames) = 0 => \A x \in DOMAIN ongoing.kwnames : ongoing.kwnames[x] # o
    BY <2>2, OftenNat, TimesNat DEF Often
  <2>4. CASE o \in P!Range(ongoing.kwnames)
    <3>1. PICK x \in DOMAIN ongoing.kwnames : ongoing.kwnames[x] = o  BY <2>4 DEF P!Range
    <3>2. o \in P!Obj  BY <1>5, <2>1, <3>1 DEF IsCall, P!Obj
    <3>3. Owing(o) > 0  BY <2>1, <2>3, <3>1 DEF HeldBy
    <3> QED  BY <1>4, <3>2, <3>3
  <2>5. CASE o \notin P!Range(ongoing.kwnames)
    <3>0. PICK g \in {ongoing.pos, ongoing.kw} : o \in P!Range(g)  BY <1>5, <2>5
    <3>1. PICK x \in DOMAIN g : g[x] = o  BY <3>0 DEF P!Range
    <3>2. Stands(g, ongoing.args)  BY <1>5, <2>1, <3>0 DEF IsCall
    <3>3. PICK i \in DOMAIN ongoing.args : \E j \in DOMAIN ongoing.args[i].vals : o = ongoing.args[i].vals[j]
      BY <3>1, <3>2 DEF Stands
    <3>4. PICK j \in DOMAIN ongoing.args[i].vals : o = ongoing.args[i].vals[j]  BY <3>3
    <3>5. o \in P!Obj
      <4>1. ongoing.args[i] \in CallEntry  BY <2>1
      <4>2. ongoing.args[i].vals \in Seq(Passed)  BY <4>1 DEF CallEntry
      <4> QED  BY <3>4, <4>2 DEF P!Obj
    <3>6. Often(o, P!Flat(ValFam(ongoing.args))) > 0
      <4>1. i \in DOMAIN ValFam(ongoing.args) /\ ValFam(ongoing.args)[i] = ongoing.args[i].vals
        BY DEF ValFam
      <4> QED  BY <2>2, <3>4, <4>1, OftenNat
    <3>7. Owing(o) > 0  BY <2>1, <2>3, <3>6 DEF HeldBy
    <3> QED  BY <1>4, <3>5, <3>7
  <2> QED  BY <2>4, <2>5
<1>6. ASSUME ongoing.pc = "simple", NEW i \in DOMAIN ongoing.args PROVE tally[ongoing.args[i][1]] > 0
  <2>1. IsSimple(ongoing) /\ ongoing.args \in Seq(Seq(Passed))
    BY <1>1, <1>6 DEF CallTypes, IsSimple
  <2>2. /\ 1 \in DOMAIN ongoing.args[i]
        /\ \/ i \in ongoing.owned
           \/ \E j \in DOMAIN operands.list : ongoing.args[i][1] = operands.list[j]
    BY <1>6, <2>1 DEF IsSimple
  <2> DEFINE o == ongoing.args[i][1]
  <2>3. o \in P!Obj
    <3>1. ongoing.args[i] \in Seq(Passed)  BY <2>1
    <3> QED  BY <2>2, <3>1 DEF P!Obj
  <2>4. CASE i \in ongoing.owned
    <3> DEFINE ss == OwnFam(ongoing.args, ongoing.owned)
    <3>1. i \in DOMAIN ss /\ ss[i] = ongoing.args[i]  BY <2>4 DEF OwnFam
    <3>2. Sized(ss)  BY <2>1, FamSized
    <3>3. Owing(o) = Often(o, P!Flat(ss))  BY <1>6 DEF Owing
    <3> HIDE DEF ss
    <3>4. Often(o, P!Flat(ss)) > 0  BY <2>2, <3>1, <3>2, OftenNat
    <3> QED  BY <1>4, <2>3, <3>3, <3>4
  <2>5. CASE \E j \in DOMAIN operands.list : o = operands.list[j]
    <3>1. IsFiniteSet(DOMAIN operands.list)  BY <1>1, SeqSized DEF CallTypes
    <3>2. /\ Often(o, operands.list) \in Nat
          /\ Often(o, operands.list) = 0 => \A j \in DOMAIN operands.list : operands.list[j] # o
      BY <3>1, TimesNat DEF Often
    <3>3. Often(o, operands.list) > 0  BY <2>5, <3>2
    <3> QED  BY <1>4, <2>3, <3>3
  <2> QED  BY <2>2, <2>4, <2>5
<1> QED  BY <1>2, <1>3, <1>5, <1>6 DEF P!StackAlive

\* Calls into Python, with any arguments, any * and ** operands and any Python code that runs
\* while they are expanded: every reference taken for a call is given back however it ends, the
\* stack has exactly the room its entries need, and each of them is alive during the call
\* (common.cpp:160-311).
THEOREM CallsRight == P!Spec => [](P!CallRefsExact /\ P!StackExact /\ P!StackAlive)
<1>1. P!Init => CallInv  BY CallInit
<1>2. CallInv /\ [P!Next]_(P!pcVars) => CallInv'  BY CallStep
<1>3. CallInv => P!CallRefsExact /\ P!StackExact /\ P!StackAlive  BY CallAnswer
<1> QED  BY <1>1, <1>2, <1>3, PTL DEF P!Spec

-----------------------------------------------------------------------------
(* Conversions of containers.                                                    *)

CONSTANTS Item, Capacity, Borrowing             \* those of ContainerCasters
VARIABLES source, shares, casting

Cas == INSTANCE ContainerCasters WITH Obj <- Item, Size <- Capacity,
           src <- source, refs <- shares, call <- casting

\* Only the array of a tuple is read where it is: it does not change.
CasLegal == Capacity \in Nat /\ Borrowing \subseteq {"tuple"}

LEMMA SeqFinite ==
    ASSUME NEW S, NEW s \in Seq(S) PROVE IsFiniteSet(DOMAIN s) /\ Cardinality(DOMAIN s) = Len(s)
BY SeqSized

LEMMA OftenEmpty == \A v : Often(v, <<>>) = 0
BY OftenNone

\* How often a sequence has a value, when sequences are joined, cut or changed.
LEMMA OftenSeq ==
    ASSUME NEW S, NEW s \in Seq(S)
    PROVE  /\ \A v : Often(v, s) \in Nat
           /\ \A i \in DOMAIN s : Often(s[i], s) > 0
<1>1. IsFiniteSet(DOMAIN s)  BY SeqFinite
<1>2. \A v : Often(v, s) \in Nat /\ (Often(v, s) = 0 => \A x \in DOMAIN s : s[x] # v)
  BY <1>1, TimesNat DEF Often
<1> QED  BY <1>2

LEMMA OftenJoined ==
    ASSUME NEW S, NEW s \in Seq(S), NEW t \in Seq(S)
    PROVE  \A v : Often(v, s \o t) = Often(v, s) + Often(v, t)
<1> SUFFICES ASSUME NEW v PROVE Often(v, s \o t) = Often(v, s) + Often(v, t)
    OBVIOUS
<1> DEFINE m == Len(s)
           A == {i \in DOMAIN s : s[i] = v}
           B == {j \in DOMAIN t : t[j] = v}
           shift == [j \in B |-> m + j]
           D == {m + j : j \in B}
<1>1. m \in Nat /\ DOMAIN s = 1 .. m /\ DOMAIN t = 1 .. Len(t) /\ Len(t) \in Nat
      /\ DOMAIN (s \o t) = 1 .. m + Len(t)
      /\ \A i \in 1 .. m + Len(t) : (s \o t)[i] = IF i <= m THEN s[i] ELSE t[i - m]
  OBVIOUS
<1>2. IsFiniteSet(A) /\ IsFiniteSet(B)  BY SeqFinite, FS_Subset
<1>3. IsFiniteSet(D) /\ Cardinality(D) = Cardinality(B)
  <2>1. B \subseteq Int  BY <1>1
  <2> HIDE DEF B, m
  <2>2. shift \in [B -> D] /\ \A d \in D : \E j \in B : shift[j] = d  OBVIOUS
  <2>3. \A j, k \in B : shift[j] = shift[k] => j = k
    <3>1. \A j, k \in B : j \in Int /\ k \in Int /\ m \in Int  BY <1>1, <2>1
    <3> QED  BY <3>1
  <2> HIDE DEF shift, D
  <2>4. shift \in Injection(B, D) /\ shift \in Surjection(B, D)
    BY Zenon, <2>2, <2>3 DEF Injection, Surjection, IsInjective
  <2>5. shift \in Bijection(B, D)  BY <2>4 DEF Bijection
  <2> QED  BY <1>2, <2>5, FS_Bijection DEF ExistsBijection
<1>4. A \cap D = {}  BY <1>1
<1>5. {i \in DOMAIN (s \o t) : (s \o t)[i] = v} = A \cup D
  <2>1. ASSUME NEW i \in DOMAIN (s \o t), (s \o t)[i] = v PROVE i \in A \cup D
    <3>1. CASE i <= m  BY <1>1, <2>1, <3>1
    <3>2. CASE i > m
      <4>1. i - m \in B /\ i = m + (i - m)  BY <1>1, <2>1, <3>2
      <4> QED  BY <4>1
    <3> QED  BY <1>1, <3>1, <3>2
  <2>2. ASSUME NEW i \in A PROVE i \in DOMAIN (s \o t) /\ (s \o t)[i] = v  BY <1>1
  <2>3. ASSUME NEW j \in B PROVE m + j \in DOMAIN (s \o t) /\ (s \o t)[m + j] = v  BY <1>1
  <2> HIDE DEF A, B
  <2> QED  BY <2>1, <2>2, <2>3
<1> HIDE DEF A, B, D
<1>6. /\ Cardinality(A \cup D) = Cardinality(A) + Cardinality(D) - Cardinality(A \cap D)
      /\ Cardinality(A \cap D) = 0 /\ Cardinality(A) \in Nat /\ Cardinality(D) \in Nat
  BY <1>2, <1>3, <1>4, FS_Union, FS_EmptySet, FS_CardinalityType
<1>7. Cardinality(A \cup D) = Cardinality(A) + Cardinality(B)  BY <1>3, <1>6
<1> QED  BY <1>5, <1>7 DEF Often, Times, A, B

\* What is cut off a sequence is what it has less.
LEMMA OftenCut ==
    ASSUME NEW S, NEW s \in Seq(S), NEW m \in 0 .. Len(s)
    PROVE  LET keep == SubSeq(s, 1, m)
               cut == SubSeq(s, m + 1, Len(s))
           IN  /\ keep \in Seq(S) /\ cut \in Seq(S) /\ Len(keep) = m
               /\ \A v : Often(v, s) = Often(v, keep) + Often(v, cut)
<1> DEFINE keep == SubSeq(s, 1, m)
           cut == SubSeq(s, m + 1, Len(s))
<1>1. keep \in Seq(S) /\ cut \in Seq(S) /\ Len(keep) = m  OBVIOUS
<1>2. s = keep \o cut
  <2>1. s = SubSeq(s, 1, Len(s))  BY SubSeqFull
  <2>2. 1 \in 1 .. Len(s) + 1 /\ m \in 1 - 1 .. Len(s) /\ Len(s) \in m .. Len(s)  OBVIOUS
  <2>3. SubSeq(s, 1, m) \o SubSeq(s, m + 1, Len(s)) = SubSeq(s, 1, Len(s))
    BY <2>2, ConcatAdjacentSubSeq
  <2> QED  BY <2>1, <2>3
<1> HIDE DEF keep, cut
<1>3. \A v : Often(v, s) = Often(v, keep) + Often(v, cut)  BY <1>1, <1>2, OftenJoined
<1> QED  BY <1>1, <1>3 DEF keep, cut

LEMMA OftenSingle == \A v, x : Often(v, <<x>>) = One(x, v)
<1> SUFFICES ASSUME NEW v, NEW x PROVE Often(v, <<x>>) = One(x, v)
    OBVIOUS
<1>1. DOMAIN <<x>> = {1} /\ <<x>>[1] = x  OBVIOUS
<1>2. {i \in DOMAIN <<x>> : <<x>>[i] = v} = IF x = v THEN {1} ELSE {}  BY <1>1
<1> QED  BY <1>2, FS_Singleton, FS_EmptySet DEF Often, Times, One

LEMMA OftenPut ==
    ASSUME NEW S, NEW s \in Seq(S), NEW p \in DOMAIN s, NEW e \in S
    PROVE  LET t == [s EXCEPT ![p] = e]
           IN  /\ t \in Seq(S) /\ Len(t) = Len(s)
               /\ \A v : Often(v, t) = Often(v, s) + Often(v, <<e>>) - Often(v, <<s[p]>>)
<1> DEFINE t == [s EXCEPT ![p] = e]
<1>1. t \in Seq(S) /\ Len(t) = Len(s) /\ DOMAIN t = DOMAIN s  OBVIOUS
<1>2. t[p] = e /\ \A q \in DOMAIN s : q # p => t[q] = s[q]  OBVIOUS
<1> HIDE DEF t
<1>3. Moved(s, t, DOMAIN s, p)  BY <1>2, SeqFinite DEF Moved
<1>4. \A v : Often(v, t) = Often(v, s) + One(e, v) - One(s[p], v)
  BY <1>1, <1>2, <1>3, TimesMove DEF Often
<1>5. \A v, x : Often(v, <<x>>) = One(x, v)  BY OftenSingle
<1> QED  BY <1>1, <1>4, <1>5 DEF t

\* What a conversion holds references to.
Hand(c) == IF c.dir = "load" THEN IF c.owned THEN c.items ELSE <<>>
           ELSE IF c.dir = "store" THEN c.slots ELSE <<>>

\* A conversion from Python, with the items of its source s, and one to Python.
Loads(c, s) ==
    /\ c = [dir |-> "load", caster |-> c.caster, items |-> c.items, owned |-> c.owned,
            i |-> c.i, got |-> c.got, pc |-> c.pc]
    /\ c.items \in Seq(Item) /\ c.got \in Seq(Item) /\ c.owned \in BOOLEAN /\ c.i \in Nat \ {0}
    /\ ~c.owned /\ (c.pc = "loop" \/ (c.caster = "pair" /\ c.pc = "done")) =>
         s.kind = "tuple" /\ c.items = s.items
    /\ c.pc = "one" => c.owned /\ Len(c.items) = 1
    /\ c.pc = "iter" => ~c.owned
    /\ c.pc \in {"iter", "one"} => c.caster = "set"
    /\ c.caster = "dict" => Len(c.items) % 2 = 0 /\ c.i % 2 = 1
    /\ c.caster = "pair" /\ c.pc \in {"loop", "done"} =>
         \A k \in DOMAIN c.got : \E j \in DOMAIN c.items : c.got[k] = c.items[j]
Stores(c) ==
    /\ c = [dir |-> "store", kind |-> c.kind, n |-> c.n, slots |-> c.slots, pc |-> c.pc]
    /\ c.n \in Nat /\ c.slots \in Seq(Item)
    /\ c.kind = "dict" => Len(c.slots) % 2 = 0 /\ Len(c.slots) <= 2 * c.n
    /\ c.kind # "dict" => Len(c.slots) <= c.n
    /\ c.pc = "done" => Len(c.slots) = IF c.kind = "dict" THEN 2 * c.n ELSE c.n

CasSource == /\ source = [kind |-> source.kind, items |-> source.items]
             /\ source.items \in Seq(Item)
             /\ source.kind = "dict" => Len(source.items) % 2 = 0
CasCall == \/ casting = [dir |-> "none"]
           \/ casting.dir = "load" /\ Loads(casting, source)
           \/ casting.dir = "store" /\ Stores(casting)
CasRefs == \A o \in Item : shares[o] = Often(o, source.items) + Often(o, Hand(casting))
CasInv == CasSource /\ CasCall /\ shares \in [Item -> Int] /\ CasRefs

LEMMA CasCount == \A o, s : Cas!Count(o, s) = Often(o, s)
BY DEF Cas!Count, Cas!Cardinality, Cardinality, Often, Times

LEMMA HandSeq ==
    ASSUME NEW c, NEW s,
           \/ c = [dir |-> "none"]
           \/ c.dir = "load" /\ Loads(c, s)
           \/ c.dir = "store" /\ Stores(c)
    PROVE  Hand(c) \in Seq(Item)
<1>1. <<>> \in Seq(Item)  OBVIOUS
<1>2. CASE c = [dir |-> "none"]
  <2>1. c.dir = "none"  BY <1>2
  <2> QED  BY <1>1, <2>1 DEF Hand
<1>3. CASE c.dir = "load" /\ Loads(c, s)
  <2>1. c.items \in Seq(Item)  BY <1>3 DEF Loads
  <2> QED  BY <1>1, <1>3, <2>1 DEF Hand
<1>4. CASE c.dir = "store" /\ Stores(c)
  <2>1. c.slots \in Seq(Item)  BY <1>4 DEF Stores
  <2> QED  BY <1>4, <2>1 DEF Hand
<1> QED  BY <1>2, <1>3, <1>4

\* An exchange of references is right if it balances what is held.
LEMMA Exchanged ==
    ASSUME CasInv, NEW got \in Seq(Item), NEW lost \in Seq(Item), Cas!Exchange(got, lost),
           CasSource', CasCall',
           \A o \in Item : Often(o, source'.items) + Often(o, Hand(casting')) + Often(o, lost)
                           = Often(o, source.items) + Often(o, Hand(casting)) + Often(o, got)
    PROVE  CasInv'
<1>1. shares' = [o \in Item |-> shares[o] + Often(o, got) - Often(o, lost)]
  BY CasCount DEF Cas!Exchange
<1>2. /\ source.items \in Seq(Item) /\ source'.items \in Seq(Item)
      /\ Hand(casting) \in Seq(Item) /\ Hand(casting') \in Seq(Item)
  <2>1. Hand(casting) \in Seq(Item) /\ Hand(casting') \in Seq(Item)
    BY HandSeq DEF CasInv, CasCall
  <2> QED  BY <2>1 DEF CasInv, CasSource
<1>3. \A o \in Item :
        /\ Often(o, source.items) \in Nat /\ Often(o, source'.items) \in Nat
        /\ Often(o, Hand(casting)) \in Nat /\ Often(o, Hand(casting')) \in Nat
        /\ Often(o, got) \in Nat /\ Often(o, lost) \in Nat
  BY <1>2, OftenSeq
<1>4. \A o \in Item : /\ shares'[o] = Often(o, source'.items) + Often(o, Hand(casting'))
                      /\ shares'[o] \in Int
  <2> SUFFICES ASSUME NEW o \in Item
               PROVE  /\ shares'[o] = Often(o, source'.items) + Often(o, Hand(casting'))
                      /\ shares'[o] \in Int
      OBVIOUS
  <2>1. shares[o] = Often(o, source.items) + Often(o, Hand(casting)) /\ shares[o] \in Int
    BY DEF CasInv, CasRefs
  <2>2. shares'[o] = shares[o] + Often(o, got) - Often(o, lost)  BY <1>1
  <2>3. /\ Often(o, source.items) \in Nat /\ Often(o, source'.items) \in Nat
        /\ Often(o, Hand(casting)) \in Nat /\ Often(o, Hand(casting')) \in Nat
        /\ Often(o, got) \in Nat /\ Often(o, lost) \in Nat
    BY <1>3
  <2> QED  BY <2>1, <2>2, <2>3
<1>5. shares' \in [Item -> Int]  BY <1>1, <1>4
<1> QED  BY <1>4, <1>5 DEF CasInv, CasRefs

\* A step that keeps the references and what is held.
LEMMA Kept ==
    ASSUME CasInv, shares' = shares, source' = source, CasCall',
           Hand(casting') = Hand(casting)
    PROVE  CasInv'
BY DEF CasInv, CasSource, CasRefs

LEMMA MutateCas == ASSUME CasLegal, CasInv, Cas!Mutate PROVE CasInv'
<1> DEFINE s == source.items
           m == Len(s) - (IF source.kind = "dict" THEN 2 ELSE 1)
           keep == SubSeq(s, 1, m)
           cut == SubSeq(s, m + 1, Len(s))
<1>1. /\ s \in Seq(Item) /\ s # <<>> /\ source.kind # "tuple" /\ casting' = casting
      /\ source' = [source EXCEPT !.items = keep]
      /\ Cas!Exchange(<<>>, SubSeq(s, Len(keep) + 1, Len(s)))
  BY DEF Cas!Mutate, Cas!Stride, CasInv, CasSource
<1>2. m \in 0 .. Len(s)
  <2>1. Len(s) \in Nat /\ Len(s) > 0  BY <1>1
  <2>2. source.kind = "dict" => Len(s) % 2 = 0  BY DEF CasInv, CasSource
  <2> HIDE DEF s
  <2>3. source.kind = "dict" => Len(s) >= 2  BY <2>1, <2>2
  <2> QED  BY <2>1, <2>3
<1>3. /\ keep \in Seq(Item) /\ cut \in Seq(Item) /\ Len(keep) = m
      /\ \A v : Often(v, s) = Often(v, keep) + Often(v, cut)
  BY <1>1, <1>2, OftenCut
<1>4. source'.items = keep /\ source'.kind = source.kind
      /\ source' = [kind |-> source'.kind, items |-> source'.items]
  BY <1>1 DEF CasInv, CasSource
<1>5. source.kind = "dict" => Len(keep) % 2 = 0
  <2>1. source.kind = "dict" => Len(s) % 2 = 0 /\ Len(keep) = Len(s) - 2 /\ Len(s) \in Nat
    BY <1>1, <1>3 DEF CasInv, CasSource
  <2> DEFINE k == Len(s)
  <2> HIDE DEF s, keep
  <2>2. k \in Nat /\ k % 2 = 0 => (k - 2) % 2 = 0
    <3> HIDE DEF k
    <3> QED  OBVIOUS
  <2> QED  BY <2>1, <2>2
<1>6. CasSource'  BY <1>3, <1>4, <1>5 DEF CasSource
<1>7. CasCall'  BY <1>1, <1>4 DEF CasInv, CasCall, Loads
<1>8. Cas!Exchange(<<>>, cut)  BY <1>1, <1>3
<1>9. <<>> \in Seq(Item)  OBVIOUS
<1> HIDE DEF s, m, keep, cut
<1>10. \A o \in Item : Often(o, source'.items) + Often(o, Hand(casting')) + Often(o, cut)
                       = Often(o, source.items) + Often(o, Hand(casting)) + Often(o, <<>>)
  <2>1. Hand(casting) \in Seq(Item)  BY HandSeq DEF CasInv, CasCall
  <2>2. \A o \in Item : Often(o, Hand(casting)) \in Nat /\ Often(o, keep) \in Nat /\ Often(o, cut) \in Nat
    BY <2>1, <1>3, OftenSeq
  <2> QED  BY <2>2, <1>1, <1>3, <1>4, OftenEmpty DEF s
<1> QED  BY <1>3, <1>6, <1>7, <1>8, <1>9, <1>10, Exchanged

\* A conversion from Python starts, with items that are held or those of a tuple.
LEMMA LoadStarts ==
    ASSUME CasInv, casting = [dir |-> "none"], source' = source,
           NEW caster, NEW items \in Seq(Item), NEW owned, NEW pc,
           caster = "dict" => Len(items) % 2 = 0,
           casting' = Cas!Load(caster, items, owned, pc),
           \/ /\ owned = TRUE /\ Cas!Exchange(items, <<>>) /\ pc = "loop"
           \/ /\ owned = FALSE /\ shares' = shares
              /\ \/ pc = "loop" /\ source.kind = "tuple" /\ items = source.items
                 \/ pc = "over"
                 \/ pc = "iter" /\ caster = "set"
    PROVE  CasInv'
<1>1. <<>> \in Seq(Item)  OBVIOUS
<1>2. casting' = [dir |-> "load", caster |-> caster, items |-> items, owned |-> owned,
                  i |-> 1, got |-> <<>>, pc |-> pc]
  BY DEF Cas!Load
<1>3. casting'.dir = "load" /\ casting'.caster = caster /\ casting'.items = items
      /\ casting'.owned = owned /\ casting'.i = 1 /\ casting'.got = <<>> /\ casting'.pc = pc
  BY <1>2
<1>4. Loads(casting', source')
  <2>1. 1 % 2 = 1 /\ DOMAIN <<>> = {} /\ 1 \in Nat \ {0}  OBVIOUS
  <2>2. casting' = [dir |-> "load", caster |-> casting'.caster, items |-> casting'.items,
                    owned |-> casting'.owned, i |-> casting'.i, got |-> casting'.got,
                    pc |-> casting'.pc]
    BY <1>2, <1>3
  <2>3. \A k \in DOMAIN casting'.got : \E j \in DOMAIN items : casting'.got[k] = items[j]
    BY <1>3, <2>1
  <2>4. owned \in BOOLEAN  OBVIOUS
  <2>5. ~owned /\ pc = "loop" => source'.kind = "tuple" /\ items = source'.items
    OBVIOUS
  <2>6. pc # "one" /\ pc # "done" /\ (pc = "iter" => ~owned /\ caster = "set")
    OBVIOUS
  <2> QED  BY <1>1, <1>3, <2>1, <2>2, <2>3, <2>4, <2>5, <2>6 DEF Loads
<1>5. CasCall' /\ CasSource'  BY <1>3, <1>4 DEF CasCall, CasInv, CasSource
<1>6. Hand(casting) = <<>>  BY DEF Hand
<1>7. CASE owned = TRUE /\ Cas!Exchange(items, <<>>)
  <2>1. Hand(casting') = items  BY <1>3, <1>7 DEF Hand
  <2>2. \A o \in Item : Often(o, items) \in Nat /\ Often(o, source.items) \in Nat
                        /\ Often(o, <<>>) = 0
    BY OftenSeq, OftenEmpty DEF CasInv, CasSource
  <2>3. \A o \in Item : Often(o, source'.items) + Often(o, Hand(casting')) + Often(o, <<>>)
                        = Often(o, source.items) + Often(o, Hand(casting)) + Often(o, items)
    BY <2>1, <2>2, <1>6
  <2> QED  BY <1>1, <1>5, <1>7, <2>3, Exchanged
<1>8. CASE owned = FALSE /\ shares' = shares
  <2>1. Hand(casting') = <<>>  BY <1>3, <1>8 DEF Hand
  <2> QED  BY <1>5, <1>6, <1>8, <2>1, Kept
<1> QED  BY <1>7, <1>8

LEMMA RefuseCas ==
    ASSUME CasInv, casting = [dir |-> "none"], NEW caster, Cas!Refuse(caster) PROVE CasInv'
<1> DEFINE nothing == <<>>
<1>1. nothing \in Seq(Item) /\ Len(nothing) % 2 = 0  OBVIOUS
<1>2. casting' = Cas!Load(caster, nothing, FALSE, "over") /\ source' = source /\ shares' = shares
  BY DEF Cas!Refuse
<1> HIDE DEF nothing
<1> QED  BY <1>1, <1>2, LoadStarts

LEMMA TakeApartCas ==
    ASSUME CasLegal, CasInv, casting = [dir |-> "none"], NEW caster, caster # "dict",
           Cas!TakeApart(caster)
    PROVE  CasInv'
<1>1. source.items \in Seq(Item)  BY DEF CasInv, CasSource
<1>2. CASE source.kind \in {"tuple", "list"} /\ source.kind \in Borrowing /\ source' = source
           /\ casting' = Cas!Load(caster, source.items, FALSE, "loop") /\ shares' = shares
  <2>1. source.kind = "tuple"  BY <1>2 DEF CasLegal
  <2> QED  BY <1>1, <1>2, <2>1, LoadStarts
<1>3. ASSUME NEW s \in Seq(Item), Cas!Snapshot(caster, s), source' = source PROVE CasInv'
  <2>1. casting' = Cas!Load(caster, s, TRUE, "loop") /\ Cas!Exchange(s, <<>>)
    BY <1>3 DEF Cas!Snapshot
  <2> QED  BY <1>3, <2>1, LoadStarts
<1>4. CASE Cas!Refuse(caster)  BY <1>4, RefuseCas
<1>5. \A s \in [1 .. Capacity -> Item] : s \in Seq(Item)  BY DEF CasLegal
<1> QED  BY <1>1, <1>2, <1>3, <1>4, <1>5 DEF Cas!TakeApart

LEMMA BeginsCas ==
    ASSUME CasLegal, CasInv,
           \/ Cas!SeqGet
           \/ \E caster \in {"array", "pair"} : Cas!SeqGetWithSize(caster)
           \/ Cas!MappingGet
           \/ Cas!IterGet
    PROVE  CasInv'
<1>1. casting = [dir |-> "none"]
  BY DEF Cas!SeqGet, Cas!SeqGetWithSize, Cas!MappingGet, Cas!IterGet, Cas!NoCall
<1>2. CASE Cas!SeqGet  BY <1>1, <1>2, RefuseCas, TakeApartCas DEF Cas!SeqGet
<1>3. ASSUME NEW caster \in {"array", "pair"}, Cas!SeqGetWithSize(caster) PROVE CasInv'
  <2>1. caster # "dict"  BY <1>3
  <2> QED  BY <1>1, <1>3, <2>1, RefuseCas, TakeApartCas DEF Cas!SeqGetWithSize
<1>4. CASE Cas!MappingGet
  <2>1. CASE Cas!Refuse("dict")  BY <1>1, <2>1, RefuseCas
  <2>2. CASE source.kind = "dict" /\ Cas!Snapshot("dict", source.items) /\ UNCHANGED source
    <3>1. casting' = Cas!Load("dict", source.items, TRUE, "loop") /\ source' = source
          /\ Cas!Exchange(source.items, <<>>)
      BY <2>2 DEF Cas!Snapshot
    <3>2. source.items \in Seq(Item) /\ Len(source.items) % 2 = 0
      BY <2>2 DEF CasInv, CasSource
    <3> QED  BY <1>1, <3>1, <3>2, LoadStarts
  <2> QED  BY <1>4, <2>1, <2>2 DEF Cas!MappingGet
<1>5. CASE Cas!IterGet
  <2>1. CASE Cas!Refuse("set")  BY <1>1, <2>1, RefuseCas
  <2>2. CASE casting' = Cas!Load("set", <<>>, FALSE, "iter") /\ source' = source /\ shares' = shares
    <3>1. <<>> \in Seq(Item)  OBVIOUS
    <3> QED  BY <1>1, <2>2, <3>1, LoadStarts
  <2> QED  BY <1>5, <2>1, <2>2 DEF Cas!IterGet
<1> QED  BY <1>2, <1>3, <1>4, <1>5

\* The fields of a conversion from Python.
LEMMA LoadFacts ==
    ASSUME CasInv, casting.dir = "load"
    PROVE  /\ Loads(casting, source) /\ CasSource
           /\ Hand(casting) = IF casting.owned THEN casting.items ELSE <<>>
           /\ Hand(casting) = Cas!Temp
<1>1. casting # [dir |-> "none"]
  <2>1. [dir |-> "none"].dir = "none"  OBVIOUS
  <2> QED  BY <2>1
<1> QED  BY <1>1 DEF CasInv, CasCall, Hand, Cas!Temp

LEMMA ConvertsCas == ASSUME CasInv, Cas!Convert \/ Cas!ConvertEntry PROVE CasInv'
<1>1. /\ casting.dir = "load" /\ casting.pc = "loop" /\ casting.i <= Len(casting.items)
      /\ source' = source /\ shares' = shares
      /\ \/ casting.caster # "dict" /\ casting' = Cas!Converts(1)
         \/ casting.caster = "dict" /\ casting' = Cas!Converts(2)
         \/ casting' = Cas!Fails
  BY DEF Cas!Convert, Cas!ConvertEntry, Cas!Loading
<1>2. Loads(casting, source)  BY <1>1, LoadFacts
<1>3. ASSUME NEW n \in {1, 2}, casting' = Cas!Converts(n), n = 2 <=> casting.caster = "dict"
      PROVE  CasInv'
  <2> DEFINE more == SubSeq(casting.items, casting.i, casting.i + n - 1)
  <2>1. casting.items \in Seq(Item) /\ casting.got \in Seq(Item) /\ casting.i \in Nat \ {0}
    BY <1>2 DEF Loads
  <2>2. casting.i + n - 1 <= Len(casting.items)
    <3> DEFINE m == Len(casting.items)
    <3>1. casting.caster = "dict" => m % 2 = 0 /\ casting.i % 2 = 1  BY <1>2 DEF Loads
    <3>2. m \in Nat /\ casting.i <= m /\ casting.i \in Nat  BY <1>1, <2>1
    <3> HIDE DEF m
    <3>3. n = 2 => m # casting.i  BY <1>3, <3>1
    <3>4. casting.i + n - 1 <= m  BY <1>3, <3>2, <3>3
    <3> QED  BY <3>4 DEF m
  <2>3. /\ more \in Seq(Item)
        /\ \A k \in DOMAIN more : \E j \in DOMAIN casting.items : more[k] = casting.items[j]
    <3>1. casting.i \in 1 .. Len(casting.items) + 1 /\ casting.i + n - 1 \in casting.i - 1 .. Len(casting.items)
      BY <1>3, <2>1, <2>2
    <3>2. /\ more \in Seq(Item) /\ Len(more) = (casting.i + n - 1) - casting.i + 1
          /\ \A k \in 1 .. (casting.i + n - 1) - casting.i + 1 : more[k] = casting.items[casting.i + k - 1]
      <4> DEFINE a == casting.i
                 z == casting.i + n - 1
                 s == casting.items
      <4>1. a \in Int /\ z \in Int /\ a <= z /\ \A k \in a .. z : s[k] \in Item
        BY <1>3, <2>1, <3>1
      <4> HIDE DEF a, z, s
      <4>2. /\ SubSeq(s, a, z) \in Seq(Item) /\ Len(SubSeq(s, a, z)) = z - a + 1
            /\ \A k \in 1 .. z - a + 1 : SubSeq(s, a, z)[k] = s[a + k - 1]
        BY <4>1, SubSeqProperties
      <4> QED  BY <4>2 DEF a, z, s
    <3> HIDE DEF more
    <3>3. \A k \in 1 .. n : k \in 1 .. (casting.i + n - 1) - casting.i + 1 /\ casting.i + k - 1 \in DOMAIN casting.items
      BY <1>3, <2>1, <2>2
    <3>4. DOMAIN more = 1 .. n  BY <1>3, <2>1, <3>2
    <3> QED  BY <3>2, <3>3, <3>4
  <2> HIDE DEF more
  <2>4. casting' = [casting EXCEPT !.i = @ + n, !.got = @ \o more]
    BY <1>3 DEF Cas!Converts, more
  <2>5. /\ casting' = [dir |-> "load", caster |-> casting'.caster, items |-> casting'.items,
                       owned |-> casting'.owned, i |-> casting'.i, got |-> casting'.got,
                       pc |-> casting'.pc]
        /\ casting'.dir = "load" /\ casting'.caster = casting.caster
        /\ casting'.items = casting.items /\ casting'.owned = casting.owned
        /\ casting'.i = casting.i + n /\ casting'.got = casting.got \o more
        /\ casting'.pc = "loop"
    BY <2>4, <1>1, <1>2 DEF Loads
  <2>6. casting'.got \in Seq(Item) /\ casting'.i \in Nat \ {0}  BY <2>1, <2>3, <2>5
  <2>7. casting.caster = "dict" => casting'.i % 2 = 1
    <3>1. casting.caster = "dict" => casting.i % 2 = 1 /\ n = 2  BY <1>2, <1>3 DEF Loads
    <3> QED  BY <2>1, <2>5, <3>1
  <2>8. casting.caster = "pair" =>
          \A k \in DOMAIN casting'.got : \E j \in DOMAIN casting.items : casting'.got[k] = casting.items[j]
    <3> SUFFICES ASSUME casting.caster = "pair", NEW k \in DOMAIN casting'.got
                 PROVE  \E j \in DOMAIN casting.items : casting'.got[k] = casting.items[j]
        OBVIOUS
    <3> DEFINE g == casting.got
    <3>1. \A l \in DOMAIN g : \E j \in DOMAIN casting.items : g[l] = casting.items[j]
      BY <1>1, <1>2 DEF Loads
    <3>2. g \in Seq(Item) /\ casting'.got = g \o more  BY <2>1, <2>5
    <3> HIDE DEF g
    <3>3. \/ k \in DOMAIN g /\ (g \o more)[k] = g[k]
          \/ k - Len(g) \in DOMAIN more /\ (g \o more)[k] = more[k - Len(g)]
      BY <3>2, <2>3
    <3> QED  BY <3>1, <3>2, <3>3, <2>3
  <2>9. Loads(casting', source')
    BY <1>1, <1>2, <2>5, <2>6, <2>7, <2>8 DEF Loads
  <2>10. Hand(casting') = Hand(casting)  BY <1>1, <2>5 DEF Hand
  <2>11. CasCall'  BY <2>5, <2>9 DEF CasCall
  <2> QED  BY <1>1, <2>10, <2>11, Kept
<1>4. CASE casting' = Cas!Fails
  <2>1. /\ casting' = [dir |-> "load", caster |-> casting'.caster, items |-> casting'.items,
                       owned |-> casting'.owned, i |-> casting'.i, got |-> casting'.got,
                       pc |-> casting'.pc]
        /\ casting'.dir = "load" /\ casting'.caster = casting.caster
        /\ casting'.items = casting.items /\ casting'.owned = casting.owned
        /\ casting'.i = casting.i /\ casting'.got = casting.got
        /\ casting'.pc = "failed"
    BY <1>4, <1>1, <1>2 DEF Loads, Cas!Fails
  <2>2. CasCall'  BY <1>2, <2>1 DEF CasCall, Loads
  <2>3. Hand(casting') = Hand(casting)  BY <1>1, <2>1 DEF Hand
  <2> QED  BY <1>1, <2>2, <2>3, Kept
<1> QED  BY <1>1, <1>3, <1>4

\* What a temporary held is given back.
LEMMA HandGone ==
    ASSUME CasInv, casting.dir = "load", source' = source, CasCall', Hand(casting') = <<>>,
           Cas!Exchange(<<>>, Cas!Temp)
    PROVE  CasInv'
<1>1. /\ Hand(casting) = Cas!Temp /\ CasSource /\ CasSource'
      /\ Hand(casting) \in Seq(Item) /\ <<>> \in Seq(Item)
  BY LoadFacts, HandSeq DEF CasInv, CasSource, CasCall
<1>2. \A o \in Item : Often(o, Hand(casting)) \in Nat /\ Often(o, source.items) \in Nat
                      /\ Often(o, <<>>) = 0
  BY <1>1, OftenSeq, OftenEmpty DEF CasSource
<1>3. \A o \in Item : Often(o, source'.items) + Often(o, Hand(casting')) + Often(o, Cas!Temp)
                      = Often(o, source.items) + Often(o, Hand(casting)) + Often(o, <<>>)
  BY <1>1, <1>2
<1>4. Cas!Temp \in Seq(Item)  BY <1>1
<1> QED  BY <1>1, <1>3, <1>4, Exchanged

LEMMA LoadedCas == ASSUME CasInv, Cas!Loaded PROVE CasInv'
<1>1. casting.dir = "load" /\ casting.pc \in {"loop", "failed"} /\ source' = source
  BY DEF Cas!Loaded
<1>2. Loads(casting, source)  BY <1>1, LoadFacts
<1>3. CASE Cas!KeepsTemp
  <2>1. shares' = shares
        /\ casting' = [casting EXCEPT !.pc = IF @ = "loop" THEN "done" ELSE "over"]
    BY <1>3 DEF Cas!Loaded
  <2>2. /\ casting' = [dir |-> "load", caster |-> casting'.caster, items |-> casting'.items,
                       owned |-> casting'.owned, i |-> casting'.i, got |-> casting'.got,
                       pc |-> casting'.pc]
        /\ casting'.dir = "load" /\ casting'.caster = casting.caster
        /\ casting'.items = casting.items /\ casting'.owned = casting.owned
        /\ casting'.i = casting.i /\ casting'.got = casting.got
        /\ casting'.pc = IF casting.pc = "loop" THEN "done" ELSE "over"
    BY <2>1, <1>2, <1>1 DEF Loads
  <2>3. casting'.pc \in {"done", "over"} /\ (casting'.pc = "done" => casting.pc = "loop")
    BY <2>2
  <2>4. casting.caster = "pair"  BY <1>3 DEF Cas!KeepsTemp
  <2>5. casting.pc = "loop" =>
          \A k \in DOMAIN casting.got : \E j \in DOMAIN casting.items : casting.got[k] = casting.items[j]
    BY <1>2, <2>4 DEF Loads
  <2>6. ~casting.owned /\ casting.pc = "loop" => source.kind = "tuple" /\ casting.items = source.items
    BY <1>2 DEF Loads
  <2>7. /\ casting.items \in Seq(Item) /\ casting.got \in Seq(Item) /\ casting.owned \in BOOLEAN
        /\ casting.i \in Nat \ {0}
    BY <1>2 DEF Loads
  <2>8. Loads(casting', source')  BY <1>1, <2>2, <2>3, <2>4, <2>5, <2>6, <2>7 DEF Loads
  <2>9. CasCall'  BY <2>2, <2>8 DEF CasCall
  <2>10. Hand(casting') = Hand(casting)  BY <1>1, <2>2 DEF Hand
  <2> QED  BY <1>1, <2>1, <2>9, <2>10, Kept
<1>4. CASE ~Cas!KeepsTemp
  <2>1. /\ Cas!Exchange(<<>>, Cas!Temp) /\ casting.caster # "pair"
        /\ casting' = [casting EXCEPT !.owned = FALSE,
                                      !.pc = IF @ = "loop" THEN "done" ELSE "over"]
    BY <1>4 DEF Cas!Loaded, Cas!KeepsTemp
  <2>2. /\ casting' = [dir |-> "load", caster |-> casting'.caster, items |-> casting'.items,
                       owned |-> casting'.owned, i |-> casting'.i, got |-> casting'.got,
                       pc |-> casting'.pc]
        /\ casting'.dir = "load" /\ casting'.caster = casting.caster
        /\ casting'.items = casting.items /\ casting'.owned = FALSE
        /\ casting'.i = casting.i /\ casting'.got = casting.got
        /\ casting'.pc \in {"done", "over"}
    BY <2>1, <1>2, <1>1 DEF Loads
  <2>3. Loads(casting', source')  BY <1>1, <1>2, <2>1, <2>2 DEF Loads
  <2>4. CasCall'  BY <2>2, <2>3 DEF CasCall
  <2>5. Hand(casting') = <<>>  BY <2>2 DEF Hand
  <2> QED  BY <1>1, <2>1, <2>4, <2>5, HandGone
<1> QED  BY <1>3, <1>4

LEMMA ConvertNextCas == ASSUME CasInv, Cas!ConvertNext PROVE CasInv'
<1>1. casting.dir = "load" /\ casting.pc = "iter" /\ source' = source  BY DEF Cas!ConvertNext
<1>2. Loads(casting, source) /\ CasSource  BY <1>1, LoadFacts
<1>3. /\ casting.caster = "set" /\ casting.owned = FALSE /\ Hand(casting) = <<>>
      /\ casting.i \in Nat \ {0} /\ casting.got \in Seq(Item) /\ casting.items \in Seq(Item)
  BY <1>1, <1>2 DEF Loads, Hand
<1>4. CASE /\ casting.i <= Len(source.items)
           /\ casting' = [casting EXCEPT !.items = <<source.items[casting.i]>>, !.owned = TRUE,
                                         !.pc = "one"]
           /\ Cas!Exchange(<<source.items[casting.i]>>, <<>>)
  <2> DEFINE x == source.items[casting.i]
  <2>1. x \in Item /\ <<x>> \in Seq(Item) /\ Len(<<x>>) = 1 /\ <<>> \in Seq(Item)
    BY <1>2, <1>3, <1>4 DEF CasSource
  <2>2. casting' = [casting EXCEPT !.items = <<x>>, !.owned = TRUE, !.pc = "one"]
        /\ Cas!Exchange(<<x>>, <<>>)
    BY <1>4
  <2> HIDE DEF x
  <2>3. /\ casting' = [dir |-> "load", caster |-> casting'.caster, items |-> casting'.items,
                       owned |-> casting'.owned, i |-> casting'.i, got |-> casting'.got,
                       pc |-> casting'.pc]
        /\ casting'.dir = "load" /\ casting'.caster = "set" /\ casting'.items = <<x>>
        /\ casting'.owned = TRUE /\ casting'.i = casting.i /\ casting'.got = casting.got
        /\ casting'.pc = "one"
    BY <2>2, <1>1, <1>2, <1>3 DEF Loads
  <2>4. Loads(casting', source')  BY <1>3, <2>1, <2>3 DEF Loads
  <2>5. CasCall' /\ CasSource'  BY <1>1, <1>2, <2>3, <2>4 DEF CasCall, CasSource
  <2>6. Hand(casting') = <<x>>  BY <2>3 DEF Hand
  <2>7. \A o \in Item : Often(o, <<x>>) \in Nat /\ Often(o, source.items) \in Nat
                        /\ Often(o, <<>>) = 0
    BY <2>1, <1>2, OftenSeq, OftenEmpty DEF CasSource
  <2>8. \A o \in Item : Often(o, source'.items) + Often(o, Hand(casting')) + Often(o, <<>>)
                        = Often(o, source.items) + Often(o, Hand(casting)) + Often(o, <<x>>)
    BY <1>1, <1>3, <2>6, <2>7
  <2> QED  BY <2>1, <2>2, <2>5, <2>8, Exchanged
<1>5. ASSUME NEW pc \in {"done", "over"}, casting' = [casting EXCEPT !.pc = pc], shares' = shares
      PROVE  CasInv'
  <2>1. /\ casting' = [dir |-> "load", caster |-> casting'.caster, items |-> casting'.items,
                       owned |-> casting'.owned, i |-> casting'.i, got |-> casting'.got,
                       pc |-> casting'.pc]
        /\ casting'.dir = "load" /\ casting'.caster = "set" /\ casting'.items = casting.items
        /\ casting'.owned = FALSE /\ casting'.i = casting.i /\ casting'.got = casting.got
        /\ casting'.pc = pc
    BY <1>5, <1>1, <1>2, <1>3 DEF Loads
  <2>2. CasCall'  BY <1>3, <1>5, <2>1 DEF CasCall, Loads
  <2>3. Hand(casting') = Hand(casting)  BY <1>3, <2>1 DEF Hand
  <2> QED  BY <1>1, <1>5, <2>2, <2>3, Kept
<1> QED  BY <1>1, <1>4, <1>5 DEF Cas!ConvertNext

LEMMA ConvertOneCas == ASSUME CasInv, Cas!ConvertOne PROVE CasInv'
<1>1. /\ casting.dir = "load" /\ casting.pc = "one" /\ source' = source
      /\ Cas!Exchange(<<>>, Cas!Temp)
  BY DEF Cas!ConvertOne
<1>2. Loads(casting, source)  BY <1>1, LoadFacts
<1>3. /\ casting.caster = "set" /\ Len(casting.items) = 1 /\ casting.items \in Seq(Item)
      /\ casting.i \in Nat \ {0} /\ casting.got \in Seq(Item)
  BY <1>1, <1>2 DEF Loads
<1>4. <<>> \in Seq(Item)  OBVIOUS
<1>5. Append(casting.got, casting.items[1]) \in Seq(Item)  BY <1>3
<1>6. casting.i + Cas!Stride \in Nat \ {0}  BY <1>3 DEF Cas!Stride
<1>7. ASSUME NEW got \in Seq(Item), NEW i \in Nat \ {0}, NEW pc \in {"iter", "over"},
             casting' = [casting EXCEPT !.got = got, !.owned = FALSE, !.items = <<>>, !.i = i,
                                        !.pc = pc]
      PROVE  CasInv'
  <2>1. /\ casting' = [dir |-> "load", caster |-> casting'.caster, items |-> casting'.items,
                       owned |-> casting'.owned, i |-> casting'.i, got |-> casting'.got,
                       pc |-> casting'.pc]
        /\ casting'.dir = "load" /\ casting'.caster = "set" /\ casting'.items = <<>>
        /\ casting'.owned = FALSE /\ casting'.i = i /\ casting'.got = got
        /\ casting'.pc = pc
    BY <1>7, <1>1, <1>2, <1>3 DEF Loads
  <2>2. CasCall'  BY <1>4, <1>7, <2>1 DEF CasCall, Loads
  <2>3. Hand(casting') = <<>>  BY <2>1 DEF Hand
  <2> QED  BY <1>1, <2>2, <2>3, HandGone
<1>8. CASE casting' = [casting EXCEPT !.got = Append(@, casting.items[1]), !.owned = FALSE,
                                     !.items = <<>>, !.i = @ + Cas!Stride, !.pc = "iter"]
  BY <1>5, <1>6, <1>7, <1>8
<1>9. CASE casting' = [casting EXCEPT !.owned = FALSE, !.items = <<>>, !.pc = "over"]
  <2>1. casting' = [casting EXCEPT !.got = casting.got, !.owned = FALSE, !.items = <<>>,
                                   !.i = casting.i, !.pc = "over"]
    BY <1>2, <1>9 DEF Loads
  <2> QED  BY <1>3, <1>7, <2>1
<1> QED  BY <1>8, <1>9 DEF Cas!ConvertOne

LEMMA ReleaseCas == ASSUME CasInv, Cas!Release PROVE CasInv'
<1>1. /\ casting.dir = "load" /\ source' = source /\ casting' = [dir |-> "none"]
      /\ Cas!Exchange(<<>>, Cas!Temp)
  BY DEF Cas!Release, Cas!NoCall
<1>2. casting'.dir = "none"  BY <1>1
<1>3. Hand(casting') = <<>> /\ CasCall'  BY <1>1, <1>2 DEF Hand, CasCall
<1> QED  BY <1>1, <1>3, HandGone

\* The fields of a conversion to Python.
LEMMA StoreFacts ==
    ASSUME CasInv, casting.dir = "store"
    PROVE  Stores(casting) /\ CasSource /\ Hand(casting) = casting.slots
<1>1. casting # [dir |-> "none"]
  <2>1. [dir |-> "none"].dir = "none"  OBVIOUS
  <2> QED  BY <2>1
<1> QED  BY <1>1 DEF CasInv, CasCall, Hand

\* A conversion to Python goes on with other slots, or another number of them.
Goes(slots, n, pc) == casting' = [casting EXCEPT !.slots = slots, !.n = n, !.pc = pc]
Fits(kind, slots, n, pc) ==
    /\ kind = "dict" => Len(slots) % 2 = 0 /\ Len(slots) <= 2 * n
    /\ kind # "dict" => Len(slots) <= n
    /\ pc = "done" => Len(slots) = IF kind = "dict" THEN 2 * n ELSE n
Balanced(s, lost, t, got) ==
    \A v \in Item : Often(v, s) + Often(v, lost) = Often(v, t) + Often(v, got)

LEMMA StoreGoes ==
    ASSUME CasInv, casting.dir = "store", source' = source,
           NEW slots \in Seq(Item), NEW n \in Nat, NEW pc,
           Goes(slots, n, pc), Fits(casting.kind, slots, n, pc),
           NEW got \in Seq(Item), NEW lost \in Seq(Item),
           \/ Cas!Exchange(got, lost)
           \/ shares' = shares /\ got = <<>> /\ lost = <<>>,
           Balanced(slots, lost, casting.slots, got)
    PROVE  CasInv'
<1>1. Stores(casting) /\ CasSource /\ Hand(casting) = casting.slots  BY StoreFacts
<1>2. /\ casting' = [dir |-> "store", kind |-> casting'.kind, n |-> casting'.n,
                     slots |-> casting'.slots, pc |-> casting'.pc]
      /\ casting'.dir = "store" /\ casting'.kind = casting.kind /\ casting'.n = n
      /\ casting'.slots = slots /\ casting'.pc = pc
  BY <1>1 DEF Stores, Goes
<1>3. Stores(casting')  BY <1>2 DEF Stores, Fits
<1>4. CasCall' /\ CasSource'  BY <1>1, <1>2, <1>3 DEF CasCall, CasSource
<1>5. Hand(casting') = slots  BY <1>2 DEF Hand
<1>6. CASE Cas!Exchange(got, lost)
  <2>1. \A o \in Item : /\ Often(o, slots) \in Nat /\ Often(o, casting.slots) \in Nat
                        /\ Often(o, got) \in Nat /\ Often(o, lost) \in Nat
                        /\ Often(o, source.items) \in Nat
    BY <1>1, OftenSeq DEF Stores, CasSource
  <2>2. \A o \in Item : Often(o, source'.items) + Often(o, Hand(casting')) + Often(o, lost)
                        = Often(o, source.items) + Often(o, Hand(casting)) + Often(o, got)
    <3> SUFFICES ASSUME NEW o \in Item
                 PROVE  Often(o, source.items) + Often(o, slots) + Often(o, lost)
                        = Often(o, source.items) + Often(o, casting.slots) + Often(o, got)
        BY <1>1, <1>5
    <3>1. Often(o, slots) + Often(o, lost) = Often(o, casting.slots) + Often(o, got)
      BY DEF Balanced
    <3> DEFINE a == Often(o, slots)
               b == Often(o, lost)
               c == Often(o, casting.slots)
               d == Often(o, got)
               e == Often(o, source.items)
    <3>2. a \in Nat /\ b \in Nat /\ c \in Nat /\ d \in Nat /\ e \in Nat /\ a + b = c + d
      BY <2>1, <3>1
    <3> HIDE DEF a, b, c, d, e
    <3>3. e + a + b = e + c + d  BY <3>2
    <3> QED  BY <3>3 DEF a, b, c, d, e
  <2> QED  BY <1>4, <1>6, <2>2, Exchanged
<1>7. CASE shares' = shares /\ got = <<>> /\ lost = <<>>
  <2>1. \A o \in Item : Often(o, slots) = Often(o, casting.slots)
    <3>1. \A o \in Item : Often(o, slots) \in Nat /\ Often(o, casting.slots) \in Nat
                          /\ Often(o, <<>>) = 0
      BY <1>1, OftenSeq, OftenEmpty DEF Stores
    <3> QED  BY <1>7, <3>1 DEF Balanced
  <2> QED  BY <1>1, <1>4, <1>5, <1>7, <2>1 DEF CasInv, CasRefs
<1> QED  BY <1>6, <1>7

LEMMA StoreCas ==
    ASSUME CasLegal, CasInv, NEW kind, NEW n \in 0 .. Capacity, Cas!Store(kind, n) PROVE CasInv'
<1>1. /\ casting = [dir |-> "none"] /\ source' = source /\ shares' = shares
      /\ casting' = [dir |-> "store", kind |-> kind, n |-> n, slots |-> <<>>, pc |-> "loop"]
  BY DEF Cas!Store, Cas!NoCall
<1>2. /\ casting'.dir = "store" /\ casting'.kind = kind /\ casting'.n = n
      /\ casting'.slots = <<>> /\ casting'.pc = "loop" /\ casting.dir = "none"
  BY <1>1
<1>3. <<>> \in Seq(Item) /\ Len(<<>>) = 0 /\ 0 % 2 = 0 /\ n \in Nat  BY DEF CasLegal
<1>4. 0 <= n /\ 0 <= 2 * n  BY <1>3
<1>5. Stores(casting')  BY <1>1, <1>2, <1>3, <1>4 DEF Stores
<1>6. CasCall'  BY <1>2, <1>5 DEF CasCall
<1>7. Hand(casting') = Hand(casting)  BY <1>2 DEF Hand
<1> QED  BY <1>1, <1>6, <1>7, Kept

LEMMA AppendedSlots ==
    ASSUME NEW s \in Seq(Item), NEW o \in Item
    PROVE  /\ Append(s, o) \in Seq(Item) /\ Len(Append(s, o)) = Len(s) + 1
           /\ <<o>> \in Seq(Item) /\ <<>> \in Seq(Item)
           /\ \A v : Often(v, Append(s, o)) + Often(v, <<>>) = Often(v, s) + Often(v, <<o>>)
<1>1. Append(s, o) \in Seq(Item) /\ Len(Append(s, o)) = Len(s) + 1 /\ <<o>> \in Seq(Item)
      /\ <<>> \in Seq(Item)
  OBVIOUS
<1>2. Append(s, o) = s \o <<o>>  OBVIOUS
<1>3. \A v : Often(v, s \o <<o>>) = Often(v, s) + Often(v, <<o>>)  BY <1>1, OftenJoined
<1>4. \A v : Often(v, s) \in Nat /\ Often(v, <<o>>) \in Nat /\ Often(v, <<>>) = 0
  BY <1>1, OftenSeq, OftenEmpty
<1>5. \A v : Often(v, Append(s, o)) = Often(v, s) + Often(v, <<o>>)  BY <1>2, <1>3
<1>6. ASSUME NEW v
      PROVE  Often(v, Append(s, o)) + Often(v, <<>>) = Often(v, s) + Often(v, <<o>>)
  <2>1. Often(v, s) \in Nat /\ Often(v, <<o>>) \in Nat /\ Often(v, <<>>) = 0  BY <1>4
  <2>2. Often(v, Append(s, o)) = Often(v, s) + Often(v, <<o>>)  BY <1>5
  <2> QED  BY <2>1, <2>2
<1> QED  BY <1>1, <1>6

LEMMA PutCas ==
    ASSUME CasInv, NEW o \in Item, Cas!Put(o) \/ Cas!PutItem(o) \/ Cas!AddKey(o)
    PROVE  CasInv'
<1>1. /\ casting.dir = "store" /\ casting.pc = "loop" /\ casting.kind # "dict"
      /\ Len(casting.slots) < casting.n /\ source' = source
      /\ \/ /\ casting' = [casting EXCEPT !.slots = Append(@, o)]
            /\ Cas!Exchange(<<o>>, <<>>)
         \/ casting' = [casting EXCEPT !.n = @ - 1] /\ shares' = shares
  BY DEF Cas!Put, Cas!PutItem, Cas!AddKey, Cas!PutNext, Cas!Storing
<1>2. Stores(casting) /\ casting.slots \in Seq(Item) /\ casting.n \in Nat
  BY <1>1, StoreFacts DEF Stores
<1>3. CASE /\ casting' = [casting EXCEPT !.slots = Append(@, o)]
           /\ Cas!Exchange(<<o>>, <<>>)
  <2> DEFINE slots == Append(casting.slots, o)
  <2>1. Goes(slots, casting.n, "loop")  BY <1>1, <1>2, <1>3 DEF Stores, Goes
  <2>2. slots \in Seq(Item) /\ Fits(casting.kind, slots, casting.n, "loop") /\ <<o>> \in Seq(Item) /\ <<>> \in Seq(Item)
    <3>1. /\ slots \in Seq(Item) /\ Len(slots) = Len(casting.slots) + 1 /\ Len(casting.slots) \in Nat
          /\ <<o>> \in Seq(Item) /\ <<>> \in Seq(Item)
      BY <1>2, AppendedSlots
    <3> HIDE DEF slots
    <3>2. Len(slots) <= casting.n  BY <1>1, <1>2, <3>1
    <3> QED  BY <1>1, <3>1, <3>2 DEF Fits
  <2>3. Balanced(slots, <<>>, casting.slots, <<o>>)  BY <1>2, AppendedSlots DEF Balanced
  <2> HIDE DEF slots
  <2> QED  BY <1>1, <1>2, <1>3, <2>1, <2>2, <2>3, StoreGoes
<1>4. CASE casting' = [casting EXCEPT !.n = @ - 1] /\ shares' = shares
  <2>1. Goes(casting.slots, casting.n - 1, "loop")  BY <1>1, <1>2, <1>4 DEF Stores, Goes
  <2>2. casting.n - 1 \in Nat /\ Fits(casting.kind, casting.slots, casting.n - 1, "loop")
        /\ <<>> \in Seq(Item)
    <3>1. Len(casting.slots) \in Nat /\ <<>> \in Seq(Item)  BY <1>2
    <3>2. casting.n - 1 \in Nat /\ Len(casting.slots) <= casting.n - 1  BY <1>1, <1>2, <3>1
    <3> QED  BY <1>1, <3>1, <3>2 DEF Fits
  <2>3. Balanced(casting.slots, <<>>, casting.slots, <<>>)  BY DEF Balanced
  <2> QED  BY <1>1, <1>2, <1>4, <2>1, <2>2, <2>3, StoreGoes
<1> QED  BY <1>1, <1>3, <1>4

LEMMA SetEntryCas ==
    ASSUME CasInv, NEW k \in Item, NEW e \in Item, Cas!SetEntry(k, e) PROVE CasInv'
<1> DEFINE s == casting.slots
           at == {p \in DOMAIN s : p % 2 = 1 /\ s[p] = k}
<1>1. /\ casting.dir = "store" /\ casting.pc = "loop" /\ casting.kind = "dict"
      /\ Len(s) < 2 * casting.n /\ source' = source
  BY DEF Cas!SetEntry, Cas!Storing
<1>2. Stores(casting) /\ s \in Seq(Item) /\ casting.n \in Nat /\ Len(s) % 2 = 0 /\ Len(s) \in Nat
  BY <1>1, StoreFacts DEF Stores
<1>3. Len(s) + 2 <= 2 * casting.n /\ (Len(s) + 2) % 2 = 0 /\ casting.n - 1 \in Nat
      /\ Len(s) <= 2 * (casting.n - 1)
  <2> DEFINE l == Len(s)
             n == casting.n
  <2>1. l \in Nat /\ n \in Nat /\ l < 2 * n /\ l % 2 = 0  BY <1>1, <1>2
  <2> HIDE DEF l, n
  <2>2. l + 2 <= 2 * n /\ (l + 2) % 2 = 0 /\ n - 1 \in Nat /\ l <= 2 * (n - 1)  BY <2>1
  <2> QED  BY <2>2 DEF l, n
<1>4. CASE /\ casting' = [casting EXCEPT !.slots = @ \o <<k, e>>]
           /\ Cas!Exchange(<<k, e>>, <<>>)
  <2> DEFINE slots == s \o <<k, e>>
  <2>1. Goes(slots, casting.n, "loop")  BY <1>1, <1>2, <1>4 DEF Stores, Goes
  <2>2. /\ slots \in Seq(Item) /\ Len(slots) = Len(s) + 2 /\ <<k, e>> \in Seq(Item)
        /\ <<>> \in Seq(Item)
    BY <1>2
  <2>3. Balanced(slots, <<>>, s, <<k, e>>)
    <3>1. \A v : /\ Often(v, slots) = Often(v, s) + Often(v, <<k, e>>)
                 /\ Often(v, s) \in Nat /\ Often(v, <<k, e>>) \in Nat /\ Often(v, <<>>) = 0
      BY <1>2, <2>2, OftenJoined, OftenSeq, OftenEmpty
    <3> HIDE DEF slots, s
    <3> QED  BY <3>1 DEF Balanced
  <2> HIDE DEF slots
  <2>4. Fits(casting.kind, slots, casting.n, "loop")  BY <1>1, <1>3, <2>2 DEF Fits
  <2> QED  BY <1>1, <1>2, <1>4, <2>1, <2>2, <2>3, <2>4, StoreGoes
<1>5. ASSUME NEW p \in at, casting' = [casting EXCEPT !.slots[p + 1] = e, !.n = @ - 1],
             Cas!Exchange(<<e>>, <<s[p + 1]>>)
      PROVE  CasInv'
  <2> DEFINE slots == [s EXCEPT ![p + 1] = e]
             old == s[p + 1]
  <2>1. p + 1 \in DOMAIN s
    <3> DEFINE l == Len(s)
    <3> HIDE DEF at
    <3>0. l \in Nat /\ l % 2 = 0  BY <1>2
    <3>1. DOMAIN s = 1 .. l
      <4>1. s \in Seq(Item)  BY <1>2
      <4> HIDE DEF s
      <4> QED  BY <4>1
    <3>2. p \in 1 .. l /\ p % 2 = 1  BY <1>5, <3>1 DEF at
    <3> HIDE DEF l
    <3>3. p # l  BY <3>0, <3>2
    <3> QED  BY <3>0, <3>1, <3>2, <3>3
  <2>2. old \in Item /\ <<old>> \in Seq(Item) /\ <<e>> \in Seq(Item)  BY <1>2, <2>1
  <2>3. Goes(slots, casting.n - 1, "loop")  BY <1>1, <1>2, <1>5 DEF Stores, Goes
  <2>4. /\ slots \in Seq(Item) /\ Len(slots) = Len(s)
        /\ \A v : Often(v, slots) = Often(v, s) + Often(v, <<e>>) - Often(v, <<old>>)
    BY <1>2, <2>1, OftenPut
  <2>5. Cas!Exchange(<<e>>, <<old>>)  BY <1>5
  <2> HIDE DEF slots, old
  <2>6. Balanced(slots, <<old>>, s, <<e>>)
    <3>1. \A v : Often(v, s) \in Nat /\ Often(v, <<e>>) \in Nat /\ Often(v, <<old>>) \in Nat
      BY <1>2, <2>2, OftenSeq
    <3> QED  BY <2>4, <3>1 DEF Balanced
  <2>7. Fits(casting.kind, slots, casting.n - 1, "loop")  BY <1>1, <1>2, <1>3, <2>4 DEF Fits
  <2> QED  BY <1>1, <1>2, <1>3, <2>2, <2>3, <2>4, <2>5, <2>6, <2>7, StoreGoes
<1> QED  BY <1>4, <1>5 DEF Cas!SetEntry

LEMMA FinishCas ==
    ASSUME CasInv, Cas!Commit \/ Cas!TupleNew \/ Cas!CommitAll PROVE CasInv'
<1>1. casting.dir = "store" /\ casting.pc = "loop" /\ source' = source /\ Cas!Finish
  BY DEF Cas!Commit, Cas!TupleNew, Cas!CommitAll, Cas!Storing, Cas!Finish
<1>2. Stores(casting) /\ casting.slots \in Seq(Item) /\ casting.n \in Nat /\ <<>> \in Seq(Item)
  BY <1>1, StoreFacts DEF Stores
<1>3. CASE Cas!IsFull
  <2>1. Goes(casting.slots, casting.n, "done") /\ shares' = shares
    BY <1>1, <1>2, <1>3 DEF Stores, Cas!Finish, Goes
  <2>2. Len(casting.slots) = IF casting.kind = "dict" THEN 2 * casting.n ELSE casting.n
    BY <1>2, <1>3 DEF Cas!IsFull, Cas!Width
  <2>3. Fits(casting.kind, casting.slots, casting.n, "done")  BY <1>2, <2>2 DEF Stores, Fits
  <2>4. Balanced(casting.slots, <<>>, casting.slots, <<>>)  BY DEF Balanced
  <2> QED  BY <1>1, <1>2, <2>1, <2>3, <2>4, StoreGoes
<1>4. CASE ~Cas!IsFull
  <2>1. Goes(<<>>, casting.n, "failed") /\ Cas!Exchange(<<>>, casting.slots)
    BY <1>1, <1>2, <1>4 DEF Stores, Cas!Finish, Cas!Abandoned, Goes
  <2> DEFINE none == <<>>
  <2>2. none \in Seq(Item) /\ Len(none) = 0 /\ 0 % 2 = 0 /\ 0 <= casting.n /\ 0 <= 2 * casting.n
    BY <1>2
  <2>3. Balanced(none, casting.slots, casting.slots, none)
    <3>1. \A v : Often(v, none) \in Nat  BY <2>2, OftenSeq
    <3>2. \A v : Often(v, casting.slots) \in Nat  BY <1>2, OftenSeq
    <3> HIDE DEF none
    <3> QED  BY <3>1, <3>2 DEF Balanced
  <2>4. Goes(none, casting.n, "failed") /\ Cas!Exchange(none, casting.slots)  BY <2>1
  <2> HIDE DEF none
  <2>5. Fits(casting.kind, none, casting.n, "failed")  BY <2>2 DEF Fits
  <2> QED  BY <1>1, <1>2, <2>2, <2>3, <2>4, <2>5, StoreGoes
<1> QED  BY <1>3, <1>4

LEMMA DropCas == ASSUME CasInv, Cas!Drop PROVE CasInv'
<1>1. /\ casting.dir = "store" /\ source' = source /\ casting' = [dir |-> "none"]
      /\ Cas!Exchange(<<>>, casting.slots)
  BY DEF Cas!Drop, Cas!NoCall
<1>2. Stores(casting) /\ CasSource /\ Hand(casting) = casting.slots  BY <1>1, StoreFacts
<1>3. casting'.dir = "none"  BY <1>1
<1>4. Hand(casting') = <<>> /\ CasCall' /\ CasSource'
  BY <1>1, <1>2, <1>3 DEF Hand, CasCall, CasSource
<1>5. casting.slots \in Seq(Item) /\ <<>> \in Seq(Item)  BY <1>2 DEF Stores
<1>6. \A o \in Item : Often(o, casting.slots) \in Nat /\ Often(o, source.items) \in Nat
                      /\ Often(o, <<>>) = 0
  BY <1>2, <1>5, OftenSeq, OftenEmpty DEF CasSource
<1>7. \A o \in Item : Often(o, source'.items) + Often(o, Hand(casting')) + Often(o, casting.slots)
                      = Often(o, source.items) + Often(o, Hand(casting)) + Often(o, <<>>)
  BY <1>1, <1>2, <1>4, <1>6
<1> QED  BY <1>1, <1>4, <1>5, <1>7, Exchanged

LEMMA CasStep == ASSUME CasLegal, CasInv, [Cas!Next]_(Cas!ccVars) PROVE CasInv'
<1>1. CASE UNCHANGED Cas!ccVars
  BY <1>1 DEF Cas!ccVars, CasInv, CasSource, CasCall, CasRefs, Loads, Stores, Hand
<1>2. CASE Cas!Mutate  BY <1>2, MutateCas
<1>3. CASE \/ Cas!SeqGet
           \/ \E caster \in {"array", "pair"} : Cas!SeqGetWithSize(caster)
           \/ Cas!MappingGet
           \/ Cas!IterGet
  BY <1>3, BeginsCas
<1>4. CASE Cas!Convert \/ Cas!ConvertEntry  BY <1>4, ConvertsCas
<1>5. CASE Cas!Loaded  BY <1>5, LoadedCas
<1>6. CASE Cas!ConvertNext  BY <1>6, ConvertNextCas
<1>7. CASE Cas!ConvertOne  BY <1>7, ConvertOneCas
<1>8. CASE Cas!Release  BY <1>8, ReleaseCas
<1>9. CASE \E kind \in {"list", "tuple", "dict", "set"}, n \in 0 .. Capacity : Cas!Store(kind, n)
  BY <1>9, StoreCas
<1>10. CASE \E o \in Item : Cas!Put(o) \/ Cas!PutItem(o) \/ Cas!AddKey(o)  BY <1>10, PutCas
<1>11. CASE \E k, e \in Item : Cas!SetEntry(k, e)  BY <1>11, SetEntryCas
<1>12. CASE Cas!Commit \/ Cas!TupleNew \/ Cas!CommitAll  BY <1>12, FinishCas
<1>13. CASE Cas!Drop  BY <1>13, DropCas
<1> QED
  BY <1>1, <1>2, <1>3, <1>4, <1>5, <1>6, <1>7, <1>8, <1>9, <1>10, <1>11, <1>12, <1>13
  DEF Cas!Next

LEMMA CasInit == ASSUME CasLegal, Cas!Init PROVE CasInv
<1>1. /\ source \in [kind : Cas!Kinds, items : Cas!BoundedSeq(Item, 2 * Capacity)]
      /\ source.kind = "dict" => Len(source.items) % 2 = 0
      /\ shares = [o \in Item |-> Often(o, source.items)] /\ casting = [dir |-> "none"]
  BY CasCount DEF Cas!Init, Cas!NoCall
<1>2. source.items \in Seq(Item)
  <2>1. PICK m \in 0 .. 2 * Capacity : source.items \in [1 .. m -> Item]
    BY <1>1 DEF Cas!BoundedSeq, Cas!SeqOf
  <2>2. m \in Nat  BY <2>1 DEF CasLegal
  <2> QED  BY <2>1, <2>2
<1>3. CasSource /\ CasCall  BY <1>1, <1>2 DEF CasSource, CasCall
<1>4. Hand(casting) = <<>>
  <2>1. casting.dir = "none"  BY <1>1
  <2> QED  BY <2>1 DEF Hand
<1>5. \A o \in Item : Often(o, source.items) \in Nat /\ Often(o, <<>>) = 0
  BY <1>2, OftenSeq, OftenEmpty
<1> QED  BY <1>1, <1>3, <1>4, <1>5 DEF CasInv, CasRefs

LEMMA CasAnswer ==
    ASSUME CasInv
    PROVE  Cas!ItemRefsExact /\ Cas!ItemsAlive /\ Cas!PairAlive /\ Cas!AllOrNothing
<1>1. Cas!ItemRefsExact
  <2>1. \A o : Cas!Holders(o) = Often(o, source.items) + Often(o, Hand(casting))
    <3>1. CASE casting = [dir |-> "none"]
      <4>1. casting.dir = "none"  BY <3>1
      <4>2. \A o : Often(o, source.items) + 0 = Often(o, source.items) + Often(o, <<>>)
        BY OftenEmpty
      <4> QED  BY <4>1, <4>2, CasCount DEF Cas!Holders, Hand
    <3>2. CASE casting.dir = "load"  BY <3>2, CasCount DEF Cas!Holders, Cas!Temp, Hand
    <3>3. CASE casting.dir = "store"  BY <3>3, CasCount DEF Cas!Holders, Hand
    <3> QED  BY <3>1, <3>2, <3>3 DEF CasInv, CasCall
  <2> QED  BY <2>1 DEF Cas!ItemRefsExact, CasInv, CasRefs
<1>2. \A o \in Item : /\ shares[o] = Often(o, source.items) + Often(o, Hand(casting))
                      /\ Often(o, source.items) \in Nat /\ Often(o, Hand(casting)) \in Nat
  <2>1. Hand(casting) \in Seq(Item)  BY HandSeq DEF CasInv, CasCall
  <2> QED  BY <2>1, OftenSeq DEF CasInv, CasRefs, CasSource
\* What is owned, and what a tuple that is read has, is alive.
<1>3. ASSUME casting.dir = "load",
             \/ casting.pc \in {"loop", "one"}
             \/ casting.caster = "pair" /\ casting.pc = "done"
      PROVE  /\ casting.owned \/ casting.items = source.items
             /\ \A i \in DOMAIN casting.items : shares[casting.items[i]] > 0
  <2>1. Loads(casting, source) /\ Hand(casting) = IF casting.owned THEN casting.items ELSE <<>>
    BY <1>3, LoadFacts
  <2>2. casting.items \in Seq(Item) /\ casting.owned \in BOOLEAN  BY <2>1 DEF Loads
  <2>3. casting.owned \/ casting.items = source.items  BY <1>3, <2>1 DEF Loads
  <2>4. ASSUME NEW i \in DOMAIN casting.items PROVE shares[casting.items[i]] > 0
    <3> DEFINE o == casting.items[i]
    <3>1. o \in Item /\ Often(o, casting.items) > 0  BY <2>2, OftenSeq
    <3>2. Often(o, source.items) = Often(o, casting.items)
          \/ Often(o, Hand(casting)) = Often(o, casting.items)
      BY <2>1, <2>3
    <3> HIDE DEF o
    <3>3. shares[o] > 0  BY <1>2, <3>1, <3>2
    <3> QED  BY <3>3 DEF o
  <2> QED  BY <2>3, <2>4
<1>4. Cas!ItemsAlive  BY <1>3 DEF Cas!ItemsAlive
<1>5. Cas!PairAlive
  <2> SUFFICES ASSUME casting.dir = "load", casting.caster = "pair", casting.pc = "done",
                      NEW k \in DOMAIN casting.got
               PROVE  shares[casting.got[k]] > 0
      BY DEF Cas!PairAlive
  <2>1. \E j \in DOMAIN casting.items : casting.got[k] = casting.items[j]
    BY LoadFacts DEF Loads
  <2> QED  BY <1>3, <2>1
<1>6. Cas!AllOrNothing
  <2> SUFFICES ASSUME casting.dir = "store", casting.pc = "done"
               PROVE  Len(casting.slots) = Cas!Width * casting.n
      BY DEF Cas!AllOrNothing
  <2>1. Stores(casting)  BY StoreFacts
  <2> QED  BY <2>1 DEF Stores, Cas!Width
<1> QED  BY <1>1, <1>4, <1>5, <1>6

\* A conversion takes a reference for all that it holds and gives each one back, also when
\* an element fails or runs Python code; what is still to be converted, and what a pair
\* refers to, is alive; a container for Python is complete or is not returned
\* (common.cpp:413-547, 650-772; nb_list.h, nb_dict.h, nb_set.h, pair.h, tuple.h).
THEOREM ContainersRight ==
    CasLegal /\ Cas!Spec =>
        [](Cas!ItemRefsExact /\ Cas!ItemsAlive /\ Cas!PairAlive /\ Cas!AllOrNothing)
<1> SUFFICES ASSUME CasLegal
             PROVE  Cas!Spec => [](Cas!ItemRefsExact /\ Cas!ItemsAlive /\ Cas!PairAlive
                                   /\ Cas!AllOrNothing)
    OBVIOUS
<1>1. Cas!Init => CasInv  BY CasInit
<1>2. CasInv /\ [Cas!Next]_(Cas!ccVars) => CasInv'  BY CasStep
<1>3. CasInv => Cas!ItemRefsExact /\ Cas!ItemsAlive /\ Cas!PairAlive /\ Cas!AllOrNothing
  BY CasAnswer
<1> QED  BY <1>1, <1>2, <1>3, PTL DEF Cas!Spec
=============================================================================
