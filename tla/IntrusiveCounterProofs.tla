----------------------- MODULE IntrusiveCounterProofs -----------------------
(***************************************************************************)
(* Proofs about IntrusiveCounter for any number of threads, references and *)
(* wrappers, when exposures to Python are serial.                          *)
(***************************************************************************)
EXTENDS IntrusiveCounter, FiniteSetTheorems, TLAPS

-----------------------------------------------------------------------------
(* Counting.                                                               *)

\* The sets that the counters stand for are finite.
LEMMA Finite ==
  ASSUME TypeOK
  PROVE  /\ IsFiniteSet(ref) /\ Cardinality(ref) \in Nat
         /\ IsFiniteSet(LiveHandles) /\ Cardinality(LiveHandles) \in Nat
<1>1. IsFiniteSet(ref) /\ IsFiniteSet(LiveHandles)
  BY CounterAssumption, FS_Subset DEF TypeOK, LiveHandles
<1> QED
  BY <1>1, FS_CardinalityType

\* Creating and dropping a ref<T> changes their number by one.
LEMMA CountRef ==
  ASSUME TypeOK, NEW r
  PROVE  /\ r \notin ref => Cardinality(ref \cup {r}) = Cardinality(ref) + 1
         /\ r \in ref => /\ Cardinality(ref \ {r}) = Cardinality(ref) - 1
                         /\ Cardinality(ref) >= 1
                         /\ Cardinality(ref) = 1 => ref \ {r} = {}
<1>1. /\ IsFiniteSet(ref \ {r})
      /\ r \in ref => Cardinality(ref \ {r}) = Cardinality(ref) - 1
      /\ Cardinality(ref \ {r}) \in Nat
  BY Finite, FS_RemoveElement, FS_CardinalityType
<1>2. r \in ref /\ Cardinality(ref) = 1 => ref \ {r} = {}
  BY <1>1, Finite, FS_EmptySet
<1>3. r \notin ref => Cardinality(ref \cup {r}) = Cardinality(ref) + 1
  BY Finite, FS_AddElement
<1> QED
  BY <1>1, <1>2, <1>3, Finite

\* The same for Python references.
LEMMA GainHandle ==
  ASSUME TypeOK, NEW h \in Handle, hd[h] = None, NEW w \in Wrapper,
         hd' = [hd EXCEPT ![h] = w]
  PROVE  /\ LiveHandles' = LiveHandles \cup {h}
         /\ Cardinality(LiveHandles') = Cardinality(LiveHandles) + 1
<1>1. LiveHandles' = LiveHandles \cup {h}
  BY CounterAssumption DEF LiveHandles, TypeOK
<1>2. h \notin LiveHandles
  BY DEF LiveHandles
<1> QED
  BY <1>1, <1>2, Finite, FS_AddElement

\* Dropping a Python reference.
LEMMA LoseHandle ==
  ASSUME TypeOK, NEW h \in Handle, hd[h] # None,
         hd' = [hd EXCEPT ![h] = None]
  PROVE  /\ LiveHandles' = LiveHandles \ {h}
         /\ Cardinality(LiveHandles') = Cardinality(LiveHandles) - 1
         /\ Cardinality(LiveHandles) = 1 => LiveHandles' = {}
<1>1. LiveHandles' = LiveHandles \ {h}
  BY DEF LiveHandles, TypeOK
<1>2. h \in LiveHandles
  BY DEF LiveHandles
<1>3. /\ IsFiniteSet(LiveHandles \ {h})
      /\ Cardinality(LiveHandles \ {h}) = Cardinality(LiveHandles) - 1
  BY <1>2, Finite, FS_RemoveElement
<1> QED
  BY <1>1, <1>3, Finite, FS_EmptySet

\* A set with members has a positive cardinality.
LEMMA NonEmpty ==
  ASSUME TypeOK
  PROVE  /\ \A e \in ref : Cardinality(ref) >= 1
         /\ \A e \in LiveHandles : Cardinality(LiveHandles) >= 1
<1>1. \A r \in ref : Cardinality(ref) # 0
  BY Finite, FS_EmptySet
<1>2. \A h \in LiveHandles : Cardinality(LiveHandles) # 0
  BY Finite, FS_EmptySet
<1> QED
  BY <1>1, <1>2, Finite

-----------------------------------------------------------------------------
\* IInv is preserved when inc_ref() of a thread that can use the object starts.
LEMMA IncLoadInv ==
  ASSUME SerialPut, IInv, NEW t \in Thread, NEW r \in Ref, IncLoad(t, r)
  PROVE  IInv'
<1>0. /\ Cardinality(ref) \in Nat /\ Cardinality(LiveHandles) \in Nat
      /\ \A e \in ref : Cardinality(ref) >= 1
      /\ \A e \in LiveHandles : Cardinality(LiveHandles) >= 1
  BY Finite, NonEmpty DEF IInv
<1> USE CounterAssumption, <1>0 DEF IInv, TypeOK, Phases, Word, IncLoad, Start, Unreserved
<1>1. TypeOK'
  BY DEF Conservation, Tokens, Views, Exposing, Installing, LiveHandles
<1>2. Conservation'
  BY DEF Conservation, Tokens, Views, Exposing, Installing, LiveHandles
<1>3. NoAbort'
  BY DEF NoAbort, Conservation, Tokens, Views, Exposing, Installing
<1>4. DeletedAlone'
  BY DEF DeletedAlone, CanUse, Tokens, Claims
<1>5. Tokens'
  BY DEF Tokens, Exposing, Installing
<1>6. Views'
  BY DEF Views, Tokens, Exposing, Installing, LiveHandles
<1>7. Claims'
  BY DEF Claims, Tokens, CanUse, Exposing, Installing, LiveHandles
<1> QED
  BY <1>1, <1>2, <1>3, <1>4, <1>5, <1>6, <1>7

\* IInv is preserved when the exchange of inc_ref() succeeds.
LEMMA IncCasInv ==
  ASSUME SerialPut, IInv, NEW t \in Thread, IncCas(t)
  PROVE  IInv'
<1>0. /\ Cardinality(ref) \in Nat /\ Cardinality(LiveHandles) \in Nat
      /\ \A e \in ref : Cardinality(ref) >= 1
      /\ \A e \in LiveHandles : Cardinality(LiveHandles) >= 1
  BY Finite, NonEmpty DEF IInv
<1> USE CounterAssumption, <1>0 DEF IInv, TypeOK, Phases, Word, IncCas, Counted, Return, ReturnThen
<1>1. TypeOK'
  BY DEF Conservation, Tokens, Views, Exposing, Installing, LiveHandles
<1>2. Conservation'
  BY CountRef DEF Conservation, Tokens, Views, Exposing, Installing, LiveHandles
<1>3. NoAbort'
  BY DEF NoAbort, Conservation, Tokens, Views, Exposing, Installing
<1>4. DeletedAlone'
  BY DEF DeletedAlone, CanUse, Tokens, Claims
<1>5. Tokens'
  BY DEF Tokens, Exposing, Installing
<1>6. Views'
  BY DEF Views, Tokens, Exposing, Installing, LiveHandles
<1>7. Claims'
  BY DEF Claims, Tokens, CanUse, Exposing, Installing, LiveHandles
<1> QED
  BY <1>1, <1>2, <1>3, <1>4, <1>5, <1>6, <1>7

\* IInv is preserved when inc_ref() reaches the wrapper.
LEMMA IncPyInv ==
  ASSUME SerialPut, IInv, NEW t \in Thread, IncPy(t)
  PROVE  IInv'
<1>0. /\ Cardinality(ref) \in Nat /\ Cardinality(LiveHandles) \in Nat
      /\ \A e \in ref : Cardinality(ref) >= 1
      /\ \A e \in LiveHandles : Cardinality(LiveHandles) >= 1
  BY Finite, NonEmpty DEF IInv
<1> USE CounterAssumption, <1>0 DEF IInv, TypeOK, Phases, Word, IncPy, Counted, Return, ReturnThen
<1>1. TypeOK'
  BY DEF Conservation, Tokens, Views, Exposing, Installing, LiveHandles
<1>2. Conservation'
  <2>1. m_state = v[t] /\ m_state \notin Nat /\ LiveHandles' = LiveHandles
    BY DEF Views, LiveHandles
  <2>2. Cardinality(ref') = Cardinality(ref) + 1
    BY CountRef DEF Tokens
  <2>3. \A u \in Thread : pc'[u] \notin {"set", "transfer"}
    BY <2>1 DEF Views, Installing
  <2>4. \A u \in Thread : pc'[u] = "settle" => pc[u] = "settle" /\ u # t
    BY <2>1, <2>3
  <2>5. ASSUME NEW u \in Thread, pc'[u] = "settle"
        PROVE  /\ m_state' = hd'[arg'[u]]
               /\ ob_refcnt'[m_state'] + v'[u] = Cardinality(ref')
                    + Cardinality(LiveHandles') + transferred'[u]
    <3>1. /\ pc[u] = "settle" /\ u # t
          /\ v'[u] = v[u] /\ transferred'[u] = transferred[u]
          /\ hd'[arg'[u]] = hd[arg[u]] /\ m_state' = m_state
      BY <2>3, <2>4, <2>5 DEF Tokens, Exposing
    <3>2. ob_refcnt'[m_state] = ob_refcnt[m_state] + 1 /\ ob_refcnt[m_state] \in Nat
      BY <2>1
    <3>3. v[u] \in Nat /\ transferred[u] \in Nat
      BY <3>1 DEF Views
    <3>4. /\ m_state = hd[arg[u]]
          /\ ob_refcnt[m_state] + v[u] = Cardinality(ref)
               + Cardinality(LiveHandles) + transferred[u]
      BY <3>1 DEF Conservation
    <3> QED
      BY <2>1, <2>2, <3>1, <3>2, <3>3, <3>4
  <2>6. ASSUME \A u \in Thread : pc'[u] # "settle"
        PROVE  ob_refcnt'[m_state'] = Cardinality(ref') + Cardinality(LiveHandles')
    BY <2>1, <2>2, <2>3, <2>6 DEF Conservation
  <2> QED
    BY <2>1, <2>3, <2>5, <2>6 DEF Conservation
<1>3. NoAbort'
  BY DEF NoAbort, Conservation, Tokens, Views, Exposing, Installing
<1>4. DeletedAlone'
  BY DEF DeletedAlone, CanUse, Tokens, Claims
<1>5. Tokens'
  BY DEF Tokens, Exposing, Installing
<1>6. Views'
  BY DEF Views, Tokens, Exposing, Installing, LiveHandles
<1>7. Claims'
  BY DEF Claims, Tokens, CanUse, Exposing, Installing, LiveHandles
<1> QED
  BY <1>1, <1>2, <1>3, <1>4, <1>5, <1>6, <1>7

\* IInv is preserved when dec_ref() starts.
LEMMA DecLoadInv ==
  ASSUME SerialPut, IInv, NEW t \in Thread, NEW r \in Ref, DecLoad(t, r)
  PROVE  IInv'
<1>0. /\ Cardinality(ref) \in Nat /\ Cardinality(LiveHandles) \in Nat
      /\ \A e \in ref : Cardinality(ref) >= 1
      /\ \A e \in LiveHandles : Cardinality(LiveHandles) >= 1
  BY Finite, NonEmpty DEF IInv
<1> USE CounterAssumption, <1>0 DEF IInv, TypeOK, Phases, Word, DecLoad, Start
<1>1. TypeOK'
  BY DEF Conservation, Tokens, Views, Exposing, Installing, LiveHandles
<1>2. Conservation'
  BY DEF Conservation, Tokens, Views, Exposing, Installing, LiveHandles
<1>3. NoAbort'
  BY DEF NoAbort, Conservation, Tokens, Views, Exposing, Installing
<1>4. DeletedAlone'
  BY DEF DeletedAlone, CanUse, Tokens, Claims
<1>5. Tokens'
  BY DEF Tokens, NoAbort, Exposing, Installing
<1>6. Views'
  BY DEF Views, Tokens, Exposing, Installing, LiveHandles
<1>7. Claims'
  BY DEF Claims, Tokens, CanUse, Exposing, Installing, LiveHandles
<1> QED
  BY <1>1, <1>2, <1>3, <1>4, <1>5, <1>6, <1>7

\* IInv is preserved when the exchange of dec_ref() succeeds.
LEMMA DecCasInv ==
  ASSUME SerialPut, IInv, NEW t \in Thread, DecCas(t)
  PROVE  IInv'
<1>0. /\ Cardinality(ref) \in Nat /\ Cardinality(LiveHandles) \in Nat
      /\ \A e \in ref : Cardinality(ref) >= 1
      /\ \A e \in LiveHandles : Cardinality(LiveHandles) >= 1
  BY Finite, NonEmpty DEF IInv
<1> USE CounterAssumption, <1>0 DEF IInv, TypeOK, Phases, Word, DecCas, ReturnThen
<1>1. TypeOK'
  BY DEF Conservation, Tokens, Views, Exposing, Installing, LiveHandles
<1>2. Conservation'
  BY CountRef DEF Conservation, Tokens, Views, Exposing, Installing, LiveHandles
<1>3. NoAbort'
  BY DEF NoAbort, Conservation, Tokens, Views, Exposing, Installing
<1>4. DeletedAlone'
  <2>1. CASE v[t] # 1
    BY <2>1 DEF DeletedAlone, CanUse, Tokens, Claims
  <2>2. CASE v[t] = 1
    <3>1. arg[t] \in ref /\ Holder[arg[t]] = t /\ ref = {arg[t]}
      <4>1. arg[t] \in ref /\ Holder[arg[t]] = t
        BY DEF Tokens
      <4>2. Cardinality(ref) = 1
        BY <2>2 DEF Conservation
      <4>3. ref \ {arg[t]} = {}
        BY <4>1, <4>2, CountRef
      <4> QED
        BY <4>1, <4>3
    <3>2. raw = None /\ alive
      BY <3>1 DEF Claims, DeletedAlone
    <3>3. \A h \in LiveHandles : /\ pc[Holder[h]] \in Installing
                                 /\ Holder[h] # t
      BY <2>2 DEF Views, LiveHandles, Installing
    <3>4. \A u \in Thread : pc[u] \notin Installing
      BY <3>1, <3>2 DEF Claims, Installing
    <3>5. LiveHandles = {}
      BY <3>3, <3>4 DEF LiveHandles
    <3>6. \A u \in Thread \ {t} : ~CanUse(u) /\ pc[u] = "idle"
      BY <3>1, <3>2, <3>5 DEF CanUse, LiveHandles, Claims, DeletedAlone
    <3> QED
      BY <2>2, <3>1, <3>2, <3>5, <3>6 DEF DeletedAlone, CanUse, LiveHandles
  <2> QED
    BY <2>1, <2>2
<1>5. Tokens'
  BY DEF Tokens, Exposing, Installing
<1>6. Views'
  BY DEF Views, Tokens, Exposing, Installing, LiveHandles
<1>7. Claims'
  BY DEF Claims, Tokens, CanUse, Exposing, Installing, LiveHandles
<1> QED
  BY <1>1, <1>2, <1>3, <1>4, <1>5, <1>6, <1>7

\* IInv is preserved when dec_ref() reaches the wrapper.
LEMMA DecPyInv ==
  ASSUME SerialPut, IInv, NEW t \in Thread, DecPy(t)
  PROVE  IInv'
<1>0. /\ Cardinality(ref) \in Nat /\ Cardinality(LiveHandles) \in Nat
      /\ \A e \in ref : Cardinality(ref) >= 1
      /\ \A e \in LiveHandles : Cardinality(LiveHandles) >= 1
  BY Finite, NonEmpty DEF IInv
<1> USE CounterAssumption, <1>0 DEF IInv, TypeOK, Phases, Word, DecPy, ReturnThen
<1>1. TypeOK'
  BY DEF Conservation, Tokens, Views, Exposing, Installing, LiveHandles
<1>2. Conservation'
  <2>1. m_state = v[t] /\ m_state \notin Nat /\ LiveHandles' = LiveHandles
    BY DEF Views, LiveHandles
  <2>2. Cardinality(ref') = Cardinality(ref) - 1 /\ Cardinality(ref) >= 1
    BY CountRef DEF Tokens
  <2>3. \A u \in Thread : pc'[u] \notin {"set", "transfer"}
    BY <2>1 DEF Views, Installing
  <2>4. \A u \in Thread : pc'[u] = "settle" => pc[u] = "settle" /\ u # t
    BY <2>1, <2>3
  <2>5. ASSUME NEW u \in Thread, pc'[u] = "settle"
        PROVE  /\ m_state' = hd'[arg'[u]]
               /\ ob_refcnt'[m_state'] + v'[u] = Cardinality(ref')
                    + Cardinality(LiveHandles') + transferred'[u]
    <3>1. /\ pc[u] = "settle" /\ u # t
          /\ v'[u] = v[u] /\ transferred'[u] = transferred[u]
          /\ hd'[arg'[u]] = hd[arg[u]] /\ m_state' = m_state
      BY <2>3, <2>4, <2>5 DEF Tokens, Exposing
    <3>2. ob_refcnt'[m_state] = ob_refcnt[m_state] - 1 /\ ob_refcnt[m_state] \in Nat
      BY <2>1
    <3>3. v[u] \in Nat /\ transferred[u] \in Nat
      BY <3>1 DEF Views
    <3>4. /\ m_state = hd[arg[u]]
          /\ ob_refcnt[m_state] + v[u] = Cardinality(ref)
               + Cardinality(LiveHandles) + transferred[u]
      BY <3>1 DEF Conservation
    <3> QED
      BY <2>1, <2>2, <3>1, <3>2, <3>3, <3>4
  <2>6. ASSUME \A u \in Thread : pc'[u] # "settle"
        PROVE  ob_refcnt'[m_state'] = Cardinality(ref') + Cardinality(LiveHandles')
    BY <2>1, <2>2, <2>3, <2>6 DEF Conservation
  <2> QED
    BY <2>1, <2>3, <2>5, <2>6 DEF Conservation
<1>3. NoAbort'
  BY DEF NoAbort, Conservation, Tokens, Views, Exposing, Installing
<1>4. DeletedAlone'
  <2>1. CASE ob_refcnt[v[t]] # 1
    BY <2>1 DEF DeletedAlone, CanUse, Tokens, Claims
  <2>2. CASE ob_refcnt[v[t]] = 1
    <3>1. m_state = v[t] /\ m_state \notin Nat
      BY DEF Views
    <3>2. ref' = {} /\ LiveHandles' = {}
      <4>1. Cardinality(ref) + Cardinality(LiveHandles) <= 1
        BY <2>2, <3>1 DEF Conservation, Views
      <4>2. arg[t] \in ref /\ LiveHandles' = LiveHandles /\ Cardinality(ref) >= 1
        BY <1>0 DEF Tokens, LiveHandles
      <4>3. Cardinality(ref) = 1 /\ Cardinality(LiveHandles) = 0
        BY <4>1, <4>2
      <4>4. ref' = {}
        BY <4>2, <4>3, CountRef
      <4>5. LiveHandles = {}
        BY <4>3, <1>0
      <4> QED
        BY <4>2, <4>4, <4>5
    <3>3. raw = None /\ alive
      BY <3>1 DEF Claims, DeletedAlone
    <3>4. \A u \in Thread : ~CanUse(u)'
      BY <3>2, <3>3 DEF CanUse, LiveHandles
    <3>5. \A u \in Thread \ {t} : pc[u] = "idle"
      <4>1. \A u \in Thread \ {t} : ~CanUse(u)
        BY <3>2, <3>3 DEF CanUse, LiveHandles, Tokens
      <4> QED
        BY <4>1, <3>3 DEF Claims, DeletedAlone
    <3> QED
      BY <2>2, <3>3, <3>4, <3>5 DEF DeletedAlone
  <2> QED
    BY <2>1, <2>2
<1>5. Tokens'
  BY DEF Tokens, Exposing, Installing
<1>6. Views'
  BY DEF Views, Tokens, Exposing, Installing, LiveHandles
<1>7. Claims'
  BY DEF Claims, Tokens, CanUse, Exposing, Installing, LiveHandles
<1> QED
  BY <1>1, <1>2, <1>3, <1>4, <1>5, <1>6, <1>7

\* IInv is preserved when an exchange of inc_ref() or dec_ref() fails.
LEMMA CasFailInv ==
  ASSUME SerialPut, IInv, NEW t \in Thread, CasFail(t)
  PROVE  IInv'
<1>0. /\ Cardinality(ref) \in Nat /\ Cardinality(LiveHandles) \in Nat
      /\ \A e \in ref : Cardinality(ref) >= 1
      /\ \A e \in LiveHandles : Cardinality(LiveHandles) >= 1
  BY Finite, NonEmpty DEF IInv
<1> USE CounterAssumption, <1>0 DEF IInv, TypeOK, Phases, Word, CasFail
<1>1. TypeOK'
  BY DEF Conservation, Tokens, Views, Exposing, Installing, LiveHandles
<1>2. Conservation'
  BY DEF Conservation, Tokens, Views, Exposing, Installing, LiveHandles
<1>3. NoAbort'
  BY DEF NoAbort, Conservation, Tokens, Views, Exposing, Installing
<1>4. DeletedAlone'
  BY DEF DeletedAlone, CanUse, Tokens, Claims
<1>5. Tokens'
  BY DEF Tokens, Exposing, Installing
<1>6. Views'
  BY DEF Views, Tokens, Exposing, Installing, LiveHandles
<1>7. Claims'
  BY DEF Claims, Tokens, CanUse, Exposing, Installing, LiveHandles
<1> QED
  BY <1>1, <1>2, <1>3, <1>4, <1>5, <1>6, <1>7

\* IInv is preserved when the object is deleted.
LEMMA DeleteInv ==
  ASSUME SerialPut, IInv, NEW t \in Thread, Delete(t)
  PROVE  IInv'
<1>0. /\ Cardinality(ref) \in Nat /\ Cardinality(LiveHandles) \in Nat
      /\ \A e \in ref : Cardinality(ref) >= 1
      /\ \A e \in LiveHandles : Cardinality(LiveHandles) >= 1
  BY Finite, NonEmpty DEF IInv
<1> USE CounterAssumption, <1>0 DEF IInv, TypeOK, Phases, Word, Delete, Return, ReturnThen
<1>1. TypeOK'
  BY DEF Conservation, Tokens, Views, Exposing, Installing, LiveHandles
<1>2. Conservation'
  BY DEF Conservation, Tokens, Views, Exposing, Installing, LiveHandles
<1>3. NoAbort'
  BY DEF NoAbort, Conservation, Tokens, Views, Exposing, Installing
<1>4. DeletedAlone'
  BY DEF DeletedAlone, CanUse, Tokens, Claims
<1>5. Tokens'
  BY DEF Tokens, Exposing, Installing
<1>6. Views'
  BY DEF Views, Tokens, Exposing, Installing, LiveHandles
<1>7. Claims'
  BY DEF Claims, DeletedAlone, CanUse, Installing
<1> QED
  BY <1>1, <1>2, <1>3, <1>4, <1>5, <1>6, <1>7

\* IInv is preserved when Python copies a reference.
LEMMA PyIncrefInv ==
  ASSUME SerialPut, IInv, NEW t \in Thread, NEW g \in Handle, NEW h \in Handle, PyIncref(t, g, h)
  PROVE  IInv'
<1>0. /\ Cardinality(ref) \in Nat /\ Cardinality(LiveHandles) \in Nat
      /\ \A e \in ref : Cardinality(ref) >= 1
      /\ \A e \in LiveHandles : Cardinality(LiveHandles) >= 1
  BY Finite, NonEmpty DEF IInv
<1> USE CounterAssumption, <1>0 DEF IInv, TypeOK, Phases, Word, PyIncref, Unreserved
<1>1. TypeOK'
  BY DEF Conservation, Tokens, Views, Exposing, Installing, LiveHandles
<1>2. Conservation'
  <2>1. m_state = hd[g] /\ m_state \notin Nat
    BY DEF Views, LiveHandles, Installing
  <2>2. Cardinality(LiveHandles') = Cardinality(LiveHandles) + 1
    BY GainHandle
  <2>3. \A u \in Thread : /\ pc[u] \notin {"set", "transfer"}
                          /\ pc[u] = "settle" => arg[u] # h
    BY <2>1 DEF Views, Installing
  <2>4. \A u \in Thread : pc'[u] = "settle" => pc[u] = "settle" /\ u # t
    BY <2>1, <2>3
  <2>5. ASSUME NEW u \in Thread, pc'[u] = "settle"
        PROVE  /\ m_state' = hd'[arg'[u]]
               /\ ob_refcnt'[m_state'] + v'[u] = Cardinality(ref')
                    + Cardinality(LiveHandles') + transferred'[u]
    <3>1. /\ pc[u] = "settle" /\ u # t
          /\ v'[u] = v[u] /\ transferred'[u] = transferred[u]
          /\ hd'[arg'[u]] = hd[arg[u]] /\ m_state' = m_state
      BY <2>3, <2>4, <2>5 DEF Tokens, Exposing
    <3>2. ob_refcnt'[m_state] = ob_refcnt[m_state] + 1 /\ ob_refcnt[m_state] \in Nat
      BY <2>1
    <3>3. v[u] \in Nat /\ transferred[u] \in Nat
      BY <3>1 DEF Views
    <3>4. /\ m_state = hd[arg[u]]
          /\ ob_refcnt[m_state] + v[u] = Cardinality(ref)
               + Cardinality(LiveHandles) + transferred[u]
      BY <3>1 DEF Conservation
    <3> QED
      BY <2>1, <2>2, <3>1, <3>2, <3>3, <3>4
  <2>6. ASSUME \A u \in Thread : pc'[u] # "settle"
        PROVE  ob_refcnt'[m_state'] = Cardinality(ref') + Cardinality(LiveHandles')
    BY <2>1, <2>2, <2>3, <2>6 DEF Conservation
  <2> QED
    BY <2>1, <2>3, <2>5, <2>6 DEF Conservation
<1>3. NoAbort'
  BY DEF NoAbort, Conservation, Tokens, Views, Exposing, Installing
<1>4. DeletedAlone'
  BY DEF DeletedAlone, CanUse, Tokens, Claims
<1>5. Tokens'
  BY DEF Tokens, Exposing, Installing
<1>6. Views'
  BY DEF Views, Tokens, Exposing, Installing, LiveHandles
<1>7. Claims'
  BY DEF Claims, Views, Tokens, CanUse, Exposing, Installing, LiveHandles
<1> QED
  BY <1>1, <1>2, <1>3, <1>4, <1>5, <1>6, <1>7

\* IInv is preserved when Python drops a reference.
LEMMA PyDecrefInv ==
  ASSUME SerialPut, IInv, NEW t \in Thread, NEW h \in Handle, PyDecref(t, h)
  PROVE  IInv'
<1>0. /\ Cardinality(ref) \in Nat /\ Cardinality(LiveHandles) \in Nat
      /\ \A e \in ref : Cardinality(ref) >= 1
      /\ \A e \in LiveHandles : Cardinality(LiveHandles) >= 1
  BY Finite, NonEmpty DEF IInv
<1> USE CounterAssumption, <1>0 DEF IInv, TypeOK, Phases, Word, PyDecref, ReturnThen
<1>1. TypeOK'
  BY DEF Conservation, Tokens, Views, Exposing, Installing, LiveHandles
<1>2. Conservation'
  <2>1. m_state = hd[h] /\ m_state \notin Nat
    BY DEF Views, LiveHandles, Installing
  <2>2. /\ Cardinality(LiveHandles') = Cardinality(LiveHandles) - 1
        /\ Cardinality(LiveHandles) >= 1
    BY LoseHandle DEF LiveHandles
  <2>3. \A u \in Thread : /\ pc[u] \notin {"set", "transfer"}
                          /\ pc[u] = "settle" => arg[u] # h
    BY <2>1 DEF Views, Tokens, Exposing, Installing
  <2>4. \A u \in Thread : pc'[u] = "settle" => pc[u] = "settle" /\ u # t
    BY <2>1, <2>3
  <2>5. ASSUME NEW u \in Thread, pc'[u] = "settle"
        PROVE  /\ m_state' = hd'[arg'[u]]
               /\ ob_refcnt'[m_state'] + v'[u] = Cardinality(ref')
                    + Cardinality(LiveHandles') + transferred'[u]
    <3>1. /\ pc[u] = "settle" /\ u # t
          /\ v'[u] = v[u] /\ transferred'[u] = transferred[u]
          /\ hd'[arg'[u]] = hd[arg[u]] /\ m_state' = m_state
      BY <2>3, <2>4, <2>5 DEF Tokens, Exposing
    <3>2. ob_refcnt'[m_state] = ob_refcnt[m_state] - 1 /\ ob_refcnt[m_state] \in Nat
      BY <2>1
    <3>3. v[u] \in Nat /\ transferred[u] \in Nat
      BY <3>1 DEF Views
    <3>4. /\ m_state = hd[arg[u]]
          /\ ob_refcnt[m_state] + v[u] = Cardinality(ref)
               + Cardinality(LiveHandles) + transferred[u]
      BY <3>1 DEF Conservation
    <3>5. ref' = ref
      OBVIOUS
    <3> HIDE DEF PyDecref, ReturnThen, IInv, TypeOK
    <3> QED
      BY <2>2, <3>1, <3>2, <3>3, <3>4, <3>5
  <2>6. ASSUME \A u \in Thread : pc'[u] # "settle"
        PROVE  ob_refcnt'[m_state'] = Cardinality(ref') + Cardinality(LiveHandles')
    BY <2>1, <2>2, <2>3, <2>6 DEF Conservation
  <2> QED
    BY <2>1, <2>3, <2>5, <2>6 DEF Conservation
<1>3. NoAbort'
  BY DEF NoAbort, Conservation, Tokens, Views, Exposing, Installing
<1>4. DeletedAlone'
  <2>1. CASE ob_refcnt[hd[h]] # 1
    BY <2>1 DEF DeletedAlone, CanUse, Tokens, Claims
  <2>2. CASE ob_refcnt[hd[h]] = 1
    <3>1. m_state = hd[h] /\ m_state \notin Nat
      BY DEF Views, LiveHandles, Installing
    <3>2. ref' = {} /\ LiveHandles' = {}
      <4>1. Cardinality(ref) + Cardinality(LiveHandles) <= 1
        BY <2>2, <3>1 DEF Conservation, Views
      <4>2. h \in LiveHandles /\ Cardinality(LiveHandles) >= 1
        BY <1>0 DEF LiveHandles
      <4>3. Cardinality(ref) = 0 /\ Cardinality(LiveHandles) = 1
        BY <4>1, <4>2
      <4>4. LiveHandles' = {}
        BY <4>3, LoseHandle
      <4>5. ref' = {}
        BY <4>3, <1>0
      <4> QED
        BY <4>4, <4>5
    <3>3. raw = None /\ alive
      BY <3>1 DEF Claims, DeletedAlone, CanUse
    <3>4. \A u \in Thread : ~CanUse(u)'
      BY <3>2, <3>3 DEF CanUse, LiveHandles
    <3>5. \A u \in Thread \ {t} : pc[u] = "idle"
      <4>1. \A u \in Thread \ {t} : ~CanUse(u)
        BY <3>2, <3>3 DEF CanUse, LiveHandles
      <4> QED
        BY <4>1, <3>3 DEF Claims, DeletedAlone, CanUse
    <3> QED
      BY <2>2, <3>3, <3>4, <3>5 DEF DeletedAlone
  <2> QED
    BY <2>1, <2>2
<1>5. Tokens'
  BY DEF Tokens, Exposing, Installing
<1>6. Views'
  BY DEF Views, Tokens, Exposing, Installing, LiveHandles
<1>7. Claims'
  BY DEF Claims, Tokens, CanUse, Exposing, Installing, LiveHandles
<1> QED
  BY <1>1, <1>2, <1>3, <1>4, <1>5, <1>6, <1>7

\* IInv is preserved when an exposure to Python starts.
LEMMA PutInv ==
  ASSUME SerialPut, IInv, NEW t \in Thread, NEW h \in Handle, NEW c \in {"self_py", "lookup"}, Put(t, h, c)
  PROVE  IInv'
<1>0. /\ Cardinality(ref) \in Nat /\ Cardinality(LiveHandles) \in Nat
      /\ \A e \in ref : Cardinality(ref) >= 1
      /\ \A e \in LiveHandles : Cardinality(LiveHandles) >= 1
  BY Finite, NonEmpty DEF IInv
<1> USE CounterAssumption, <1>0 DEF IInv, TypeOK, Phases, Word, Put, Start, Unreserved
<1>1. TypeOK'
  BY DEF Conservation, Tokens, Views, Exposing, Installing, LiveHandles
<1>2. Conservation'
  BY DEF Conservation, Tokens, Views, Exposing, Installing, LiveHandles
<1>3. NoAbort'
  BY DEF NoAbort, Conservation, Tokens, Views, Exposing, Installing
<1>4. DeletedAlone'
  BY DEF DeletedAlone, CanUse, Tokens, Claims
<1>5. Tokens'
  BY DEF Tokens, Exposing, Installing
<1>6. Views'
  BY DEF Views, Tokens, Exposing, Installing, LiveHandles
<1>7. Claims'
  BY DEF Claims, Tokens, CanUse, Exposing, Installing, LiveHandles
<1> QED
  BY <1>1, <1>2, <1>3, <1>4, <1>5, <1>6, <1>7

\* IInv is preserved when self_py() finds the wrapper.
LEMMA SelfPyInv ==
  ASSUME SerialPut, IInv, NEW t \in Thread, SelfPy(t)
  PROVE  IInv'
<1>0. /\ Cardinality(ref) \in Nat /\ Cardinality(LiveHandles) \in Nat
      /\ \A e \in ref : Cardinality(ref) >= 1
      /\ \A e \in LiveHandles : Cardinality(LiveHandles) >= 1
  BY Finite, NonEmpty DEF IInv
<1> USE CounterAssumption, <1>0 DEF IInv, TypeOK, Phases, Word, SelfPy, PutFound, Return, ReturnThen
<1>1. TypeOK'
  BY DEF Conservation, Tokens, Views, Exposing, Installing, LiveHandles
<1>2. Conservation'
  <2>1. m_state = v[t] /\ m_state \notin Nat
    BY DEF Views
  <2>2. Cardinality(LiveHandles') = Cardinality(LiveHandles) + 1
    BY <2>1, GainHandle DEF Tokens, Exposing
  <2>3. \A u \in Thread : pc'[u] \notin {"set", "transfer", "settle"}
                          /\ pc[u] # "settle"
    BY <2>1 DEF Views, Tokens, Exposing, Installing
  <2> QED
    BY <2>1, <2>2, <2>3 DEF Conservation
<1>3. NoAbort'
  BY DEF NoAbort, Conservation, Tokens, Views, Exposing, Installing
<1>4. DeletedAlone'
  BY DEF DeletedAlone, CanUse, Tokens, Claims
<1>5. Tokens'
  BY DEF Tokens, Exposing, Installing
<1>6. Views'
  BY DEF Views, Tokens, Exposing, Installing, LiveHandles
<1>7. Claims'
  BY DEF Claims, Tokens, CanUse, Exposing, Installing, LiveHandles
<1> QED
  BY <1>1, <1>2, <1>3, <1>4, <1>5, <1>6, <1>7

\* IInv is preserved when self_py() finds none.
LEMMA NoSelfPyInv ==
  ASSUME SerialPut, IInv, NEW t \in Thread, NoSelfPy(t)
  PROVE  IInv'
<1>0. /\ Cardinality(ref) \in Nat /\ Cardinality(LiveHandles) \in Nat
      /\ \A e \in ref : Cardinality(ref) >= 1
      /\ \A e \in LiveHandles : Cardinality(LiveHandles) >= 1
  BY Finite, NonEmpty DEF IInv
<1> USE CounterAssumption, <1>0 DEF IInv, TypeOK, Phases, Word, NoSelfPy, Goto
<1>1. TypeOK'
  BY DEF Conservation, Tokens, Views, Exposing, Installing, LiveHandles
<1>2. Conservation'
  BY DEF Conservation, Tokens, Views, Exposing, Installing, LiveHandles
<1>3. NoAbort'
  BY DEF NoAbort, Conservation, Tokens, Views, Exposing, Installing
<1>4. DeletedAlone'
  BY DEF DeletedAlone, CanUse, Tokens, Claims
<1>5. Tokens'
  BY DEF Tokens, Exposing, Installing
<1>6. Views'
  BY DEF Views, Tokens, Exposing, Installing, LiveHandles
<1>7. Claims'
  BY DEF Claims, Tokens, CanUse, Exposing, Installing, LiveHandles
<1> QED
  BY <1>1, <1>2, <1>3, <1>4, <1>5, <1>6, <1>7

\* IInv is preserved when inst_c2p holds the wrapper.
LEMMA LookupInv ==
  ASSUME SerialPut, IInv, NEW t \in Thread, NEW w \in Wrapper, Lookup(t, w)
  PROVE  IInv'
<1>0. /\ Cardinality(ref) \in Nat /\ Cardinality(LiveHandles) \in Nat
      /\ \A e \in ref : Cardinality(ref) >= 1
      /\ \A e \in LiveHandles : Cardinality(LiveHandles) >= 1
  BY Finite, NonEmpty DEF IInv
<1> USE CounterAssumption, <1>0 DEF IInv, TypeOK, Phases, Word, Lookup, PutFound, Return, ReturnThen
<1>1. TypeOK'
  BY DEF Conservation, Tokens, Views, Exposing, Installing, LiveHandles
<1>2. Conservation'
  <2>1. m_state = w /\ m_state \notin Nat
    BY DEF Views
  <2>2. Cardinality(LiveHandles') = Cardinality(LiveHandles) + 1
    BY <2>1, GainHandle DEF Tokens, Exposing
  <2>3. \A u \in Thread : pc'[u] \notin {"set", "transfer", "settle"}
                          /\ pc[u] # "settle"
    BY <2>1 DEF Views, Tokens, Exposing, Installing
  <2> QED
    BY <2>1, <2>2, <2>3 DEF Conservation
<1>3. NoAbort'
  BY DEF NoAbort, Conservation, Tokens, Views, Exposing, Installing
<1>4. DeletedAlone'
  BY DEF DeletedAlone, CanUse, Tokens, Claims
<1>5. Tokens'
  BY DEF Tokens, Exposing, Installing
<1>6. Views'
  BY DEF Views, Tokens, Exposing, Installing, LiveHandles
<1>7. Claims'
  BY DEF Claims, Tokens, CanUse, Exposing, Installing, LiveHandles
<1> QED
  BY <1>1, <1>2, <1>3, <1>4, <1>5, <1>6, <1>7

\* IInv is preserved when inst_c2p holds none.
LEMMA LookupMissInv ==
  ASSUME SerialPut, IInv, NEW t \in Thread, LookupMiss(t)
  PROVE  IInv'
<1>0. /\ Cardinality(ref) \in Nat /\ Cardinality(LiveHandles) \in Nat
      /\ \A e \in ref : Cardinality(ref) >= 1
      /\ \A e \in LiveHandles : Cardinality(LiveHandles) >= 1
  BY Finite, NonEmpty DEF IInv
<1> USE CounterAssumption, <1>0 DEF IInv, TypeOK, Phases, Word, LookupMiss, Goto
<1>1. TypeOK'
  BY DEF Conservation, Tokens, Views, Exposing, Installing, LiveHandles
<1>2. Conservation'
  BY DEF Conservation, Tokens, Views, Exposing, Installing, LiveHandles
<1>3. NoAbort'
  BY DEF NoAbort, Conservation, Tokens, Views, Exposing, Installing
<1>4. DeletedAlone'
  BY DEF DeletedAlone, CanUse, Tokens, Claims
<1>5. Tokens'
  BY DEF Tokens, Exposing, Installing
<1>6. Views'
  <2>1. \A u \in Thread : pc[u] # "settle"
    BY DEF Tokens, Exposing
  <2>2. alive /\ CanUse(t)
    BY DEF DeletedAlone, Claims
  <2>3. m_state \in Nat
    <3>1. SUFFICES ASSUME m_state \in Wrapper
                   PROVE  FALSE
      OBVIOUS
    <3>2. registered = {m_state}
      BY <2>1, <2>2, <3>1 DEF Views
    <3>3. ref = {} /\ LiveHandles = {}
      BY <2>1, <3>1, <3>2 DEF Conservation
    <3>4. raw = None
      BY <3>1 DEF Claims
    <3> QED
      BY <2>2, <3>3, <3>4 DEF CanUse, LiveHandles
  <2> QED
    BY <2>3 DEF Views, Tokens, Exposing, Installing, LiveHandles
<1>7. Claims'
  BY DEF Claims, Tokens, CanUse, Exposing, Installing, LiveHandles
<1> QED
  BY <1>1, <1>2, <1>3, <1>4, <1>5, <1>6, <1>7

\* IInv is preserved when a wrapper is made.
LEMMA NewWrapperInv ==
  ASSUME SerialPut, IInv, NEW t \in Thread, NEW w \in Wrapper, NewWrapper(t, w)
  PROVE  IInv'
<1>0. /\ Cardinality(ref) \in Nat /\ Cardinality(LiveHandles) \in Nat
      /\ \A e \in ref : Cardinality(ref) >= 1
      /\ \A e \in LiveHandles : Cardinality(LiveHandles) >= 1
  BY Finite, NonEmpty DEF IInv
<1> USE CounterAssumption, <1>0 DEF IInv, TypeOK, Phases, Word, NewWrapper, Goto
<1>1. TypeOK'
  BY DEF Conservation, Tokens, Views, Exposing, Installing, LiveHandles
<1>2. Conservation'
  BY GainHandle DEF Conservation, Tokens, Views, Exposing, Installing, LiveHandles
<1>3. NoAbort'
  BY DEF NoAbort, Conservation, Tokens, Views, Exposing, Installing
<1>4. DeletedAlone'
  BY DEF DeletedAlone, CanUse, Tokens, Claims
<1>5. Tokens'
  BY DEF Tokens, Exposing, Installing
<1>6. Views'
  BY DEF Views, Tokens, Exposing, Installing, LiveHandles
<1>7. Claims'
  <2>1. raw = t \/ \E r \in ref : Holder[r] = t
    BY DEF Claims, CanUse, Views, LiveHandles, Installing
  <2> QED
    BY <2>1 DEF Claims, Tokens, CanUse, Exposing, Installing, LiveHandles
<1> QED
  BY <1>1, <1>2, <1>3, <1>4, <1>5, <1>6, <1>7

\* IInv is preserved when set_self_py() loads m_state.
LEMMA SetLoadInv ==
  ASSUME SerialPut, IInv, NEW t \in Thread, SetLoad(t)
  PROVE  IInv'
<1>0. /\ Cardinality(ref) \in Nat /\ Cardinality(LiveHandles) \in Nat
      /\ \A e \in ref : Cardinality(ref) >= 1
      /\ \A e \in LiveHandles : Cardinality(LiveHandles) >= 1
  BY Finite, NonEmpty DEF IInv
<1> USE CounterAssumption, <1>0 DEF IInv, TypeOK, Phases, Word, SetLoad, Goto
<1>1. TypeOK'
  BY DEF Conservation, Tokens, Views, Exposing, Installing, LiveHandles
<1>2. Conservation'
  BY DEF Conservation, Tokens, Views, Exposing, Installing, LiveHandles
<1>3. NoAbort'
  BY DEF NoAbort, Conservation, Tokens, Views, Exposing, Installing
<1>4. DeletedAlone'
  BY DEF DeletedAlone, CanUse, Tokens, Claims
<1>5. Tokens'
  BY DEF Tokens, Views, Exposing, Installing
<1>6. Views'
  BY DEF Views, Tokens, Exposing, Installing, LiveHandles
<1>7. Claims'
  BY DEF Claims, Tokens, CanUse, Exposing, Installing, LiveHandles
<1> QED
  BY <1>1, <1>2, <1>3, <1>4, <1>5, <1>6, <1>7

\* IInv is preserved when set_self_py() moves a reference.
LEMMA SetIncInv ==
  ASSUME SerialPut, IInv, NEW t \in Thread, SetInc(t)
  PROVE  IInv'
<1>0. /\ Cardinality(ref) \in Nat /\ Cardinality(LiveHandles) \in Nat
      /\ \A e \in ref : Cardinality(ref) >= 1
      /\ \A e \in LiveHandles : Cardinality(LiveHandles) >= 1
  BY Finite, NonEmpty DEF IInv
<1> USE CounterAssumption, <1>0 DEF IInv, TypeOK, Phases, Word, SetInc
<1>1. TypeOK'
  BY DEF Conservation, Tokens, Views, Exposing, Installing, LiveHandles
<1>2. Conservation'
  BY DEF Conservation, Tokens, Views, Exposing, Installing, LiveHandles
<1>3. NoAbort'
  BY DEF NoAbort, Conservation, Tokens, Views, Exposing, Installing
<1>4. DeletedAlone'
  BY DEF DeletedAlone, CanUse, Tokens, Claims
<1>5. Tokens'
  BY DEF Tokens, Exposing, Installing
<1>6. Views'
  BY DEF Views, Tokens, Exposing, Installing, LiveHandles
<1>7. Claims'
  BY DEF Claims, Tokens, CanUse, Exposing, Installing, LiveHandles
<1> QED
  BY <1>1, <1>2, <1>3, <1>4, <1>5, <1>6, <1>7

\* IInv is preserved when the exchange of set_self_py() succeeds.
LEMMA SetCasInv ==
  ASSUME SerialPut, IInv, NEW t \in Thread, SetCas(t)
  PROVE  IInv'
<1>0. /\ Cardinality(ref) \in Nat /\ Cardinality(LiveHandles) \in Nat
      /\ \A e \in ref : Cardinality(ref) >= 1
      /\ \A e \in LiveHandles : Cardinality(LiveHandles) >= 1
  BY Finite, NonEmpty DEF IInv
<1> USE CounterAssumption, <1>0 DEF IInv, TypeOK, Phases, Word, SetCas, Goto
<1>1. TypeOK'
  BY DEF Conservation, Tokens, Views, Exposing, Installing, LiveHandles
<1>2. Conservation'
  <2>1. \A u \in Thread : u # t => pc[u] \notin Exposing
    BY DEF Tokens, Exposing
  <2>2. LiveHandles = {arg[t]}
    BY <2>1 DEF Views, Tokens, LiveHandles, Exposing, Installing
  <2>3. Cardinality(LiveHandles) = 1 /\ LiveHandles' = LiveHandles
    BY <2>2, FS_Singleton DEF LiveHandles
  <2>4. ob_refcnt[hd[arg[t]]] = 1 + transferred[t] /\ v[t] = Cardinality(ref)
    BY DEF Conservation, Views
  <2>5. \A u \in Thread : pc'[u] # "transfer" /\ (pc'[u] = "settle" => u = t)
    BY <2>1 DEF Exposing
  <2>6. /\ m_state' = hd'[arg'[t]]
        /\ ob_refcnt'[m_state'] + v'[t] = Cardinality(ref')
             + Cardinality(LiveHandles') + transferred'[t]
    BY <2>3, <2>4
  <2>7. m_state' \notin Nat /\ pc'[t] = "settle"
    BY DEF Tokens, Installing
  <2> QED
    BY <2>5, <2>6, <2>7 DEF Conservation
<1>3. NoAbort'
  BY DEF NoAbort, Conservation, Tokens, Views, Exposing, Installing
<1>4. DeletedAlone'
  BY DEF DeletedAlone, CanUse, Tokens, Claims
<1>5. Tokens'
  BY DEF Tokens, Exposing, Installing
<1>6. Views'
  BY DEF Views, Tokens, Exposing, Installing, LiveHandles
<1>7. Claims'
  BY DEF Claims, Tokens, CanUse, Exposing, Installing, LiveHandles
<1> QED
  BY <1>1, <1>2, <1>3, <1>4, <1>5, <1>6, <1>7

\* IInv is preserved when the exchange of set_self_py() fails.
LEMMA SetCasFailInv ==
  ASSUME SerialPut, IInv, NEW t \in Thread, SetCasFail(t)
  PROVE  IInv'
<1>0. /\ Cardinality(ref) \in Nat /\ Cardinality(LiveHandles) \in Nat
      /\ \A e \in ref : Cardinality(ref) >= 1
      /\ \A e \in LiveHandles : Cardinality(LiveHandles) >= 1
  BY Finite, NonEmpty DEF IInv
<1> USE CounterAssumption, <1>0 DEF IInv, TypeOK, Phases, Word, SetCasFail, Goto
<1>1. TypeOK'
  BY DEF Conservation, Tokens, Views, Exposing, Installing, LiveHandles
<1>2. Conservation'
  BY DEF Conservation, Tokens, Views, Exposing, Installing, LiveHandles
<1>3. NoAbort'
  BY DEF NoAbort, Conservation, Tokens, Views, Exposing, Installing
<1>4. DeletedAlone'
  BY DEF DeletedAlone, CanUse, Tokens, Claims
<1>5. Tokens'
  BY DEF Tokens, Views, Exposing, Installing
<1>6. Views'
  BY DEF Views, Tokens, Exposing, Installing, LiveHandles
<1>7. Claims'
  BY DEF Claims, Tokens, CanUse, Exposing, Installing, LiveHandles
<1> QED
  BY <1>1, <1>2, <1>3, <1>4, <1>5, <1>6, <1>7

\* IInv is preserved when set_self_py() gives back a reference.
LEMMA SetDecInv ==
  ASSUME SerialPut, IInv, NEW t \in Thread, SetDec(t)
  PROVE  IInv'
<1>0. /\ Cardinality(ref) \in Nat /\ Cardinality(LiveHandles) \in Nat
      /\ \A e \in ref : Cardinality(ref) >= 1
      /\ \A e \in LiveHandles : Cardinality(LiveHandles) >= 1
  BY Finite, NonEmpty DEF IInv
<1> USE CounterAssumption, <1>0 DEF IInv, TypeOK, Phases, Word, SetDec
<1>1. TypeOK'
  BY DEF Conservation, Tokens, Views, Exposing, Installing, LiveHandles
<1>2. Conservation'
  <2>1. \A u \in Thread : u # t => pc[u] \notin Exposing
    BY DEF Tokens, Exposing
  <2>2. m_state = hd[arg[t]] /\ m_state \in Wrapper /\ v[t] \in Nat
    BY DEF Conservation, Tokens, Views
  <2>3. ob_refcnt[m_state] + v[t] = Cardinality(ref)
          + Cardinality(LiveHandles) + transferred[t]
    BY DEF Conservation
  <2>4. /\ ob_refcnt'[m_state] = ob_refcnt[m_state] - 1
        /\ transferred'[t] = transferred[t] - 1
        /\ ob_refcnt[m_state] \in Nat /\ LiveHandles' = LiveHandles
    BY <2>2 DEF LiveHandles
  <2>5. \A u \in Thread : pc'[u] # "transfer" /\ (pc'[u] = "settle" => u = t)
    BY <2>1 DEF Exposing
  <2>6. ob_refcnt'[m_state'] + v'[t] = Cardinality(ref')
          + Cardinality(LiveHandles') + transferred'[t]
    BY <2>2, <2>3, <2>4
  <2> QED
    BY <2>2, <2>5, <2>6 DEF Conservation
<1>3. NoAbort'
  BY DEF NoAbort, Conservation, Tokens, Views, Exposing, Installing
<1>4. DeletedAlone'
  BY DEF DeletedAlone, CanUse, Tokens, Claims
<1>5. Tokens'
  BY DEF Tokens, Exposing, Installing
<1>6. Views'
  BY DEF Views, Tokens, Exposing, Installing, LiveHandles
<1>7. Claims'
  BY DEF Claims, Tokens, CanUse, Exposing, Installing, LiveHandles
<1> QED
  BY <1>1, <1>2, <1>3, <1>4, <1>5, <1>6, <1>7

\* IInv is preserved when the wrapper is registered.
LEMMA RegisterInv ==
  ASSUME SerialPut, IInv, NEW t \in Thread, Register(t)
  PROVE  IInv'
<1>0. /\ Cardinality(ref) \in Nat /\ Cardinality(LiveHandles) \in Nat
      /\ \A e \in ref : Cardinality(ref) >= 1
      /\ \A e \in LiveHandles : Cardinality(LiveHandles) >= 1
  BY Finite, NonEmpty DEF IInv
<1> USE CounterAssumption, <1>0 DEF IInv, TypeOK, Phases, Word, Register, Return, ReturnThen
<1>1. TypeOK'
  BY DEF Conservation, Tokens, Views, Exposing, Installing, LiveHandles
<1>2. Conservation'
  <2>1. \A u \in Thread : u # t => pc[u] \notin Exposing
    BY DEF Tokens, Exposing
  <2>2. m_state = hd[arg[t]] /\ m_state \in Wrapper
    BY DEF Conservation, Tokens
  <2>3. ob_refcnt[m_state] + v[t] = Cardinality(ref)
          + Cardinality(LiveHandles) + transferred[t]
    BY DEF Conservation
  <2>4. ob_refcnt[m_state] = Cardinality(ref) + Cardinality(LiveHandles)
    BY <2>2, <2>3
  <2>5. \A u \in Thread : pc'[u] \notin {"transfer", "settle"}
    BY <2>1 DEF Exposing
  <2> QED
    BY <2>2, <2>4, <2>5 DEF Conservation, LiveHandles
<1>3. NoAbort'
  BY DEF NoAbort, Conservation, Tokens, Views, Exposing, Installing
<1>4. DeletedAlone'
  BY DEF DeletedAlone, CanUse, Tokens, Claims
<1>5. Tokens'
  BY DEF Tokens, Exposing, Installing
<1>6. Views'
  BY DEF Views, Tokens, Exposing, Installing, LiveHandles
<1>7. Claims'
  BY DEF Claims, Tokens, CanUse, Exposing, Installing, LiveHandles
<1> QED
  BY <1>1, <1>2, <1>3, <1>4, <1>5, <1>6, <1>7

-----------------------------------------------------------------------------
(* Theorems.                                                               *)

\* The invariant holds initially.
LEMMA InitInv == Init => IInv
<1> SUFFICES ASSUME Init PROVE IInv
  OBVIOUS
<1> USE CounterAssumption DEF Init
<1>1. TypeOK
  BY DEF TypeOK, Word, Phases
<1>2. LiveHandles = {}
  BY DEF LiveHandles
<1>3. Conservation
  BY FS_EmptySet DEF Conservation
<1>4. NoAbort /\ DeletedAlone
  BY DEF NoAbort, DeletedAlone
<1>5. Tokens /\ Views /\ Claims
  BY <1>2 DEF Tokens, Views, Claims, Exposing, Installing
<1> QED
  BY <1>1, <1>3, <1>4, <1>5 DEF IInv

\* The invariant does not depend on anything but the variables.
LEMMA StutterInv == IInv /\ UNCHANGED vars => IInv'
BY DEF vars, IInv, TypeOK, Conservation, NoAbort, DeletedAlone, Tokens, Views, Claims,
       LiveHandles, CanUse

\* The invariant is inductive.
LEMMA NextInv ==
  ASSUME SerialPut, IInv, [Next]_vars
  PROVE  IInv'
<1>1. CASE UNCHANGED vars
  BY <1>1, StutterInv
<1>2. ASSUME NEW t \in Thread, Step(t)
      PROVE  IInv'
  BY <1>2, IncCasInv, IncPyInv, DecCasInv, DecPyInv, CasFailInv, DeleteInv, SelfPyInv,
     NoSelfPyInv, LookupMissInv, LookupInv, NewWrapperInv, SetLoadInv, SetIncInv,
     SetCasInv, SetCasFailInv, SetDecInv, RegisterInv DEF Step
<1>3. ASSUME NEW t \in Thread, Call(t)
      PROVE  IInv'
  BY <1>3, IncLoadInv, DecLoadInv, PutInv, PyDecrefInv, PyIncrefInv DEF Call
<1> QED
  BY <1>1, <1>2, <1>3 DEF Next

\* The inductive invariant holds of every execution with serial exposure.
THEOREM Invariance ==
  ASSUME SerialPut
  PROVE  Spec => []IInv
<1>1. Init => IInv
  BY InitInv
<1>2. IInv /\ [Next]_vars => IInv'
  BY NextInv
<1> QED
  BY <1>1, <1>2, PTL DEF Spec

\* Every variable keeps its type: in particular no Python reference count that
\* set_self_py() or dec_ref() decrements ever drops below zero.
THEOREM TypeCorrect ==
  ASSUME SerialPut
  PROVE  Spec => []TypeOK
<1>1. IInv => TypeOK
  BY DEF IInv
<1> QED
  BY <1>1, Invariance, PTL

\* References are conserved across the hand-over of counting to Python.
THEOREM Conserves ==
  ASSUME SerialPut
  PROVE  Spec => []Conservation
<1>1. IInv => Conservation
  BY DEF IInv
<1> QED
  BY <1>1, Invariance, PTL

\* The fatal checks of dec_ref() and set_self_py() never fire.
THEOREM NeverAborts ==
  ASSUME SerialPut
  PROVE  Spec => []NoAbort
<1>1. IInv => NoAbort
  BY DEF IInv
<1> QED
  BY <1>1, Invariance, PTL

\* The object is deleted by one thread, when no other uses it or can use it.
THEOREM DeletesAlone ==
  ASSUME SerialPut
  PROVE  Spec => []DeletedAlone
<1>1. IInv => DeletedAlone
  BY DEF IInv
<1> QED
  BY <1>1, Invariance, PTL

\* A wrapper that took over the counting keeps it.
THEOREM HandsOverOnce ==
  ASSUME SerialPut
  PROVE  Spec => HandOverOnce
<1>1. ASSUME IInv, [Next]_vars, m_state \in Wrapper
      PROVE  m_state' = m_state
  <2> USE CounterAssumption
  <2>1. ASSUME NEW t \in Thread, Step(t)
        PROVE  m_state' = m_state
    <3>1. pc[t] = "transfer" => v[t] \in Nat
      BY <1>1 DEF IInv, Views
    <3>2. ~IncCas(t) /\ ~DecCas(t) /\ ~SetCas(t)
      BY <1>1, <3>1 DEF IncCas, DecCas, SetCas
    <3> QED
      BY <2>1, <3>2 DEF Step, IncPy, Counted, DecPy, CasFail, Delete, SelfPy, NoSelfPy,
           LookupMiss, Lookup, PutFound, NewWrapper, SetLoad, SetInc, SetCasFail,
           SetDec, Register
  <2>2. ASSUME NEW t \in Thread, Call(t)
        PROVE  m_state' = m_state
    BY <2>2 DEF Call, IncLoad, DecLoad, Put, PyDecref, PyIncref
  <2> QED
    BY <1>1, <2>1, <2>2 DEF Next, vars
<1>2. IInv /\ [Next]_vars => [(m_state \in Wrapper) => (m_state' = m_state)]_vars
  BY <1>1
<1> QED
  BY <1>2, Invariance, PTL DEF Spec, HandOverOnce

-----------------------------------------------------------------------------
(* Refinement: every step is a step of SharedOwnership, or none.           *)

\* What membership in Owners means.
LEMMA OwnersMembers ==
  /\ Owners \subseteq {<<"ref", r>> : r \in ref} \cup ({"py"} \X Handle) \cup ({"raw"} \X Thread)
  /\ \A r : <<"ref", r>> \in Owners <=> r \in ref
  /\ \A h : <<"py", h>> \in Owners <=> h \in Handle /\ hd[h] # None /\ hd[h] = m_state
  /\ \A t : <<"raw", t>> \in Owners <=> t \in Thread /\ raw = t
BY DEF Owners

\* Whoever can use the object, and is not installing a wrapper, owns it.
LEMMA UserOwns ==
  ASSUME IInv, NEW t \in Thread, CanUse(t)
  PROVE  \E x \in Owners : TRUE
<1>1. CASE raw = t
  BY <1>1, OwnersMembers
<1>2. CASE \E r \in ref : Holder[r] = t
  BY <1>2, OwnersMembers
<1>3. CASE \E h \in Handle : hd[h] # None /\ Holder[h] = t
  <2>1. PICK h \in Handle : hd[h] # None /\ Holder[h] = t
    BY <1>3
  <2>2. CASE hd[h] = m_state
    BY <2>1, <2>2, OwnersMembers
  <2>3. CASE hd[h] # m_state
    BY <1>1, <1>2, <2>1, <2>3 DEF IInv, Views, Claims, LiveHandles
  <2> QED
    BY <2>2, <2>3
<1> QED
  BY <1>1, <1>2, <1>3 DEF CanUse

PyOwned == {h \in Handle : hd[h] # None /\ hd[h] = m_state}

\* Steps that leave the three kinds of owners alone.
LEMMA SameOwners ==
  ASSUME ref' = ref, raw' = raw, PyOwned' = PyOwned, alive' = alive
  PROVE  UNCHANGED <<Owners, alive>>
BY DEF Owners, PyOwned

\* A new owner y appears while t owns the object; the creator may cede its claim.
LEMMA NewOwner ==
  ASSUME IInv, NEW t \in Thread, CanUse(t), alive' = alive,
         raw' = IF raw = t THEN None ELSE raw,
         \/ /\ PyOwned' = PyOwned
            /\ \E r \in Ref \ ref : ref' = ref \cup {r}
         \/ /\ ref' = ref
            /\ \E h \in Handle \ PyOwned : PyOwned' = PyOwned \cup {h}
  PROVE  Ownership!Next
<1> USE CounterAssumption DEF IInv, TypeOK
<1>1. PICK y \in ({"ref"} \X Ref) \cup ({"py"} \X Handle) :
        /\ y \notin Owners
        /\ Owners' = (Owners \ (IF raw = t THEN {<<"raw", t>>} ELSE {})) \cup {y}
  <2>1. ASSUME NEW r \in Ref \ ref, ref' = ref \cup {r}, PyOwned' = PyOwned
        PROVE  /\ <<"ref", r>> \notin Owners
               /\ Owners' = (Owners \ (IF raw = t THEN {<<"raw", t>>} ELSE {}))
                              \cup {<<"ref", r>>}
    BY <2>1 DEF Owners, PyOwned
  <2>2. ASSUME NEW h \in Handle \ PyOwned, PyOwned' = PyOwned \cup {h}, ref' = ref
        PROVE  /\ <<"py", h>> \notin Owners
               /\ Owners' = (Owners \ (IF raw = t THEN {<<"raw", t>>} ELSE {}))
                              \cup {<<"py", h>>}
    BY <2>2 DEF Owners, PyOwned
  <2> QED
    BY <2>1, <2>2
<1>2. PICK x \in Owners : raw = t => x = <<"raw", t>>
  BY UserOwns, OwnersMembers
<1>3. x \in ({"ref"} \X Ref) \cup ({"py"} \X Handle) \cup ({"raw"} \X Thread)
  BY <1>2 DEF Owners
<1>4. Ownership!Share(x, y)
  BY <1>1, <1>2 DEF Ownership!Share
<1> QED
  BY <1>1, <1>3, <1>4 DEF Ownership!Next

\* An owner goes.
LEMMA LostOwner ==
  ASSUME TypeOK, alive' = alive, raw' = raw,
         \/ /\ PyOwned' = PyOwned
            /\ \E r \in ref : ref' = ref \ {r}
         \/ /\ ref' = ref
            /\ \E h \in PyOwned : PyOwned' = PyOwned \ {h}
  PROVE  Ownership!Next
<1>1. ASSUME NEW r \in ref, ref' = ref \ {r}, PyOwned' = PyOwned
      PROVE  Ownership!Next
  <2>1. Ownership!Release(<<"ref", r>>)
    BY <1>1 DEF Ownership!Release, Owners, PyOwned
  <2> QED
    BY <2>1 DEF Ownership!Next, TypeOK
<1>2. ASSUME NEW h \in PyOwned, PyOwned' = PyOwned \ {h}, ref' = ref
      PROVE  Ownership!Next
  <2>1. Ownership!Release(<<"py", h>>)
    BY <1>2 DEF Ownership!Release, Owners, PyOwned
  <2> QED
    BY <2>1 DEF Ownership!Next, PyOwned
<1> QED
  BY <1>1, <1>2

\* Every step inside an operation refines SharedOwnership.
LEMMA StepRefines ==
  ASSUME SerialPut, IInv, NEW t \in Thread, Step(t)
  PROVE  [Ownership!Next]_<<Owners, alive>>
<1> USE CounterAssumption DEF IInv, TypeOK, Word
<1>0. /\ m_state \in Nat => PyOwned = {}
      /\ m_state' \in Nat => \A h \in Handle : hd'[h] = hd[h] => h \notin PyOwned'
  BY DEF PyOwned
<1>1. ASSUME IncCas(t) \/ IncPy(t)
      PROVE  Ownership!Next
  <2>1. arg[t] \in Ref \ ref /\ CanUse(t)
    BY <1>1 DEF IncCas, IncPy, Tokens, Claims
  <2>2. PyOwned' = PyOwned
    BY <1>1, <1>0 DEF IncCas, IncPy, Counted, PyOwned
  <2> QED
    BY <1>1, <2>1, <2>2, NewOwner DEF IncCas, IncPy, Counted
<1>2. ASSUME DecCas(t) \/ DecPy(t)
      PROVE  Ownership!Next
  <2>1. arg[t] \in ref
    BY <1>2 DEF DecCas, DecPy, Tokens
  <2>2. PyOwned' = PyOwned
    BY <1>2, <1>0 DEF DecCas, DecPy, PyOwned
  <2> QED
    BY <1>2, <2>1, <2>2, LostOwner DEF DecCas, DecPy
<1>3. ASSUME Delete(t)
      PROVE  Ownership!Next
  <2>1. alive /\ \A u \in Thread : ~CanUse(u)
    BY <1>3 DEF Delete, DeletedAlone
  <2>2. Owners = {}
    BY <2>1 DEF CanUse, Owners
  <2>3. Ownership!Destroy
    BY <1>3, <2>1, <2>2 DEF Delete, Ownership!Destroy, Owners
  <2> QED
    BY <2>3 DEF Ownership!Next
<1>4. ASSUME NEW w \in Wrapper, m_state = w, PutFound(t, w),
             pc[t] \in {"self_py", "lookup"}
      PROVE  Ownership!Next
  <2>1. arg[t] \in Handle /\ hd[arg[t]] = None /\ CanUse(t)
    BY <1>4 DEF Tokens, Exposing, Claims
  <2>2. PyOwned' = PyOwned \cup {arg[t]} /\ arg[t] \notin PyOwned
    BY <1>4, <2>1 DEF PutFound, PyOwned
  <2>3. raw # t
    BY <1>4 DEF Claims
  <2> QED
    BY <1>4, <2>1, <2>2, <2>3, NewOwner DEF PutFound
<1>5. ASSUME NEW w \in Wrapper, NewWrapper(t, w)
      PROVE  UNCHANGED <<Owners, alive>>
  <2>1. PyOwned' = PyOwned
    BY <1>5 DEF NewWrapper, PyOwned, Tokens, Exposing
  <2> QED
    BY <1>5, <2>1, SameOwners DEF NewWrapper
<1>6. ASSUME SetCas(t)
      PROVE  Ownership!Next
  <2>1. PyOwned = {} /\ arg[t] \in Handle /\ hd[arg[t]] \in Wrapper /\ CanUse(t)
    BY <1>0, <1>6 DEF SetCas, Views, Tokens, Exposing, Installing, Claims
  <2>2. \A u \in Thread : u # t => pc[u] \notin Installing
    BY <1>6 DEF SetCas, Tokens, Exposing, Installing
  <2>3. LiveHandles = {arg[t]}
    BY <2>1, <2>2, <1>6 DEF SetCas, Views, LiveHandles, Installing
  <2>4. PyOwned' = {arg[t]}
    BY <2>1, <2>3, <1>6 DEF SetCas, PyOwned, LiveHandles
  <2> QED
    BY <1>6, <2>1, <2>4, NewOwner DEF SetCas
<1>7. ASSUME \/ CasFail(t) \/ NoSelfPy(t) \/ LookupMiss(t) \/ SetLoad(t) \/ SetInc(t)
             \/ SetCasFail(t) \/ SetDec(t) \/ Register(t)
      PROVE  UNCHANGED <<Owners, alive>>
  <2>1. ref' = ref /\ raw' = raw /\ alive' = alive /\ hd' = hd /\ m_state' = m_state
    BY <1>7 DEF CasFail, NoSelfPy, LookupMiss, SetLoad, SetInc, SetCasFail, SetDec, Register
  <2> QED
    BY <2>1, SameOwners DEF PyOwned
<1>8. SelfPy(t) => Ownership!Next
  BY <1>4 DEF SelfPy, Views
<1>9. ASSUME NEW w \in Wrapper, Lookup(t, w)
      PROVE  Ownership!Next
  BY <1>4, <1>9 DEF Lookup, Views
<1> QED
  BY <1>1, <1>2, <1>3, <1>5, <1>6, <1>7, <1>8, <1>9 DEF Step

\* So does the start of every operation, and a Python reference's copy or drop.
LEMMA CallRefines ==
  ASSUME IInv, NEW t \in Thread, Call(t)
  PROVE  [Ownership!Next]_<<Owners, alive>>
<1> USE CounterAssumption DEF IInv, TypeOK, Word
<1>1. ASSUME NEW h \in Handle, PyDecref(t, h)
      PROVE  Ownership!Next
  <2>1. hd[h] = m_state
    BY <1>1 DEF PyDecref, Views, LiveHandles, Installing
  <2>2. h \in PyOwned /\ PyOwned' = PyOwned \ {h}
    BY <1>1, <2>1 DEF PyDecref, PyOwned
  <2> QED
    BY <1>1, <2>2, LostOwner DEF PyDecref
<1>2. ASSUME NEW g \in Handle, NEW h \in Handle, PyIncref(t, g, h)
      PROVE  Ownership!Next
  <2>1. hd[g] = m_state /\ raw # t /\ CanUse(t)
    BY <1>2 DEF PyIncref, Views, LiveHandles, Installing, Claims, CanUse
  <2>2. h \notin PyOwned /\ PyOwned' = PyOwned \cup {h}
    BY <1>2, <2>1 DEF PyIncref, PyOwned
  <2> QED
    BY <1>2, <2>1, <2>2, NewOwner DEF PyIncref
<1>3. ASSUME \/ \E r \in Ref : IncLoad(t, r) \/ DecLoad(t, r)
             \/ \E h \in Handle : Put(t, h, "self_py") \/ Put(t, h, "lookup")
      PROVE  UNCHANGED <<Owners, alive>>
  <2>1. ref' = ref /\ raw' = raw /\ alive' = alive /\ hd' = hd /\ m_state' = m_state
    BY <1>3 DEF IncLoad, DecLoad, Put
  <2> QED
    BY <2>1, SameOwners DEF PyOwned
<1> QED
  BY <1>1, <1>2, <1>3 DEF Call

\* The safety half of Implements: every execution of the counter, seen through
\* Owners, is one that SharedOwnership allows.
THEOREM ImplementsSafety ==
  ASSUME SerialPut
  PROVE  Spec => Ownership!Init /\ [][Ownership!Next]_<<Owners, alive>>
<1>1. Init => Ownership!Init
  <2> SUFFICES ASSUME Init PROVE Ownership!Init
    OBVIOUS
  <2>1. Owners = {<<"raw", raw>>}
    BY CounterAssumption DEF Init, Owners
  <2> QED
    BY <2>1 DEF Ownership!Init, Init
<1>2. IInv /\ [Next]_vars => [Ownership!Next]_<<Owners, alive>>
  <2> SUFFICES ASSUME IInv, [Next]_vars
               PROVE  [Ownership!Next]_<<Owners, alive>>
    OBVIOUS
  <2>1. CASE UNCHANGED vars
    BY <2>1 DEF vars, Owners
  <2>2. CASE Next
    BY <2>2, StepRefines, CallRefines DEF Next
  <2> QED
    BY <2>1, <2>2
<1> QED
  BY <1>1, <1>2, Invariance, PTL DEF Spec
=============================================================================
