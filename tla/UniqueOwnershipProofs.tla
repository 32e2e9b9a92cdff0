------------------------ MODULE UniqueOwnershipProofs ------------------------
(* Proofs about UniqueOwnership: an object that travels between Python and       *)
(* std::unique_ptr has one owner at any time, for every number of objects,       *)
(* instances and pointers.                                                       *)
EXTENDS UniqueOwnership, FiniteSetTheorems, TLAPS

\* Names of objects, instances and owners can be told apart.
ConstantsApart == /\ Heap \cap Inst = {} /\ Nil \notin Heap \cup Inst
                  /\ Cpp \notin Inst /\ Nil # Cpp

-----------------------------------------------------------------------------
(* The invariant is stated of values: an action that drops references first      *)
(* changes pointers or instances, and then sweeps what nothing refers to.        *)

\* The instances that a call has taken from Python and not yet passed on.
Flying(c) == IF c.pc = "cast" /\ c.nested THEN {c.args[j] : j \in 1 .. (c.i - 1)} ELSE {}

\* An instance that Python can use owns its object; one that gave it to a pointer with
\* the default deleter does not, and its object is on the heap.
WrapSound(al, wr, w) ==
    /\ wr[w].st = "none" <=> wr[w] = NoInst
    /\ wr[w].st # "none" => wr[w].addr \in Heap \cup {w}
    /\ wr[w].st = "ready" => wr[w].destruct
    /\ wr[w].destruct => wr[w].addr \in al /\ (wr[w].cpp_delete <=> wr[w].addr # w)
    /\ ~wr[w].destruct => ~wr[w].cpp_delete /\ wr[w].addr # w

\* A pointer refers to a living object.  The instance of that object, if there is one,
\* has been relinquished: by that pointer's nb::deleter, or for good.
ByCpp(al, wr, q, fl, p) ==
    /\ q[p].by = Cpp /\ q[p].addr \in al \cap Heap
    /\ \A w \in Inst : wr[w].addr = q[p].addr => ~wr[w].destruct /\ w \notin fl
ByPython(wr, q, fl, p) ==
    /\ q[p].by \in Inst \ fl
    /\ wr[q[p].by].st = "relinquished" /\ wr[q[p].by].destruct
    /\ wr[q[p].by].addr = q[p].addr
PtrSound(al, wr, q, fl, p) ==
    q[p] = NoPtr \/ ByCpp(al, wr, q, fl, p) \/ ByPython(wr, q, fl, p)

OneInstance(wr) ==
    \A v, w \in Inst : wr[v].st # "none" /\ wr[v].addr = wr[w].addr => v = w
OnePointer(q) ==
    \A p1, p2 \in Slot : q[p1] # NoPtr /\ q[p1].addr = q[p2].addr => p1 = p2

\* What lives has an owner.
Owned(al, wr, q, fl) ==
    \A a \in al : \/ \E p \in Slot : q[p].addr = a /\ q[p].by = Cpp
                  \/ \E w \in Inst : wr[w].addr = a /\ (wr[w].destruct \/ w \in fl)

\* The arguments of a call; those in flight have no pointer yet.
Taken(al, wr, c, j) ==
    /\ wr[c.args[j]].st = "relinquished" /\ wr[c.args[j]].addr \in al
    /\ wr[c.args[j]].destruct <=> c.nb
    /\ \A k \in 1..2 : k < c.i /\ c.args[k] = c.args[j] => k = j
CallSound(al, wr, c) ==
    /\ c.pc = "idle" => c = NoCall
    /\ c.pc # "idle" => Len(c.args) = 2 /\ c.i \in 1..3
    /\ c.pc = "cast" /\ c.nested => \A j \in 1..2 :
          /\ j < c.i => Taken(al, wr, c, j)
          /\ j >= c.i => wr[c.args[j]].st = "ready" \/ c.args[j] \in Flying(c)
    /\ c.pc = "failed" /\ c.nested => \A j \in 1..2 : wr[c.args[j]].st = "ready"

\* All of it but for the references.
Sound(al, wr, q, c) ==
    /\ al \subseteq Heap \cup Inst
    /\ wr \in [Inst -> Instance] /\ q \in [Slot -> UniquePtr] /\ c \in Call
    /\ \A w \in Inst : WrapSound(al, wr, w)
    /\ \A p \in Slot : PtrSound(al, wr, q, Flying(c), p)
    /\ OneInstance(wr) /\ OnePointer(q)
    /\ Owned(al, wr, q, Flying(c))
    /\ CallSound(al, wr, c)

\* Instances exist while something refers to them, and arguments are referred to.
Referred(wr, h, q) == \A w \in Inst : wr[w].st # "none" => Pinned(w, h, q)
ArgsHeld(c, h) == c.pc # "idle" => \A j \in 1..2 : c.args[j] \in h

IInv == /\ Sound(alive, wrap, ptrs, call) /\ Referred(wrap, held, ptrs)
        /\ held \subseteq Inst /\ ArgsHeld(call, held) /\ aborted = FALSE

-----------------------------------------------------------------------------
(* Helpers.                                                                      *)

\* The arguments of a call under way are two instances.
LEMMA ArgsInst ==
    ASSUME NEW c \in Call, c.pc # "idle" => Len(c.args) = 2
    PROVE  c.pc # "idle" => /\ c.args[1] \in Inst /\ c.args[2] \in Inst
                            /\ DOMAIN c.args = 1..2
                            /\ Range(c.args) = {c.args[1], c.args[2]}
BY DEF Call, Range

\* What flies is an argument that has been taken.
LEMMA FlyingTaken ==
    ASSUME NEW al, NEW wr, NEW c \in Call, CallSound(al, wr, c), NEW w \in Flying(c)
    PROVE  /\ c.pc = "cast" /\ c.nested /\ w \in Inst
           /\ wr[w].st = "relinquished" /\ wr[w].addr \in al /\ (wr[w].destruct <=> c.nb)
           /\ \E j \in 1..2 : j < c.i /\ c.args[j] = w
<1>1. c.pc = "cast" /\ c.nested  BY DEF Flying
<1>2. PICK j \in 1 .. (c.i - 1) : w = c.args[j]  BY <1>1 DEF Flying
<1>3. c.i \in 1..3  BY <1>1 DEF CallSound
<1>4. j \in 1..2 /\ j < c.i  BY <1>2, <1>3
<1>5. w \in Inst  BY <1>1, <1>2, <1>4, ArgsInst DEF CallSound
<1>6. Taken(al, wr, c, j)  BY <1>1, <1>4 DEF CallSound
<1> QED  BY <1>1, <1>2, <1>4, <1>5, <1>6 DEF Taken

\* The sweep destroys the instances that nothing refers to, and what they own.
LEMMA SweepSound ==
    ASSUME ConstantsApart,
           NEW al, NEW wr, NEW h \in SUBSET Inst, NEW q, NEW c,
           Sound(al, wr, q, c), ArgsHeld(c, h)
    PROVE  /\ Sound(al \ Destroyed(wr, h, q), Swept(wr, h, q), q, c)
           /\ Referred(Swept(wr, h, q), h, q)
<1> DEFINE wr2 == Swept(wr, h, q)
           al2 == al \ Destroyed(wr, h, q)
           fl == Flying(c)
<1>1. wr \in [Inst -> Instance] /\ q \in [Slot -> UniquePtr] /\ c \in Call
      /\ al \subseteq Heap \cup Inst  BY DEF Sound
<1>2. wr2 \in [Inst -> Instance]  BY <1>1 DEF Swept, NoInst, Instance
<1>3. ASSUME NEW w \in Inst PROVE wr2[w] = IF Pinned(w, h, q) THEN wr[w] ELSE NoInst
      BY DEF Swept
<1>4. NoInst.st = "none" /\ NoInst.addr = Nil /\ ~NoInst.destruct /\ ~NoInst.cpp_delete
      BY DEF NoInst
<1>5. \A w \in Inst : WrapSound(al, wr, w)  BY DEF Sound
<1>6. OneInstance(wr) /\ OnePointer(q) /\ CallSound(al, wr, c)  BY DEF Sound
<1>7. \A x : x \in Destroyed(wr, h, q)
                <=> \E v \in Inst : wr[v].destruct /\ ~Pinned(v, h, q) /\ wr[v].addr = x
      BY DEF Destroyed
<1>8. Referred(wr2, h, q)  BY <1>3, <1>4 DEF Referred
<1>9. \A w \in fl : Pinned(w, h, q)
  <2> SUFFICES ASSUME NEW w \in fl PROVE w \in h  BY DEF Pinned
  <2>1. c.pc = "cast" /\ \E j \in 1..2 : c.args[j] = w  BY <1>1, <1>6, FlyingTaken
  <2> QED  BY <2>1 DEF ArgsHeld
<1> HIDE DEF wr2, al2, fl
<1>10. ASSUME NEW w \in Inst PROVE WrapSound(al2, wr2, w)
  <2>1. CASE ~Pinned(w, h, q)
    BY <2>1, <1>3, <1>4, <1>1 DEF WrapSound, ConstantsApart
  <2>2. CASE Pinned(w, h, q)
    <3>1. wr2[w] = wr[w] /\ WrapSound(al, wr, w)  BY <2>2, <1>3, <1>5
    <3>2. ASSUME wr[w].destruct PROVE wr[w].addr \in al2
      <4>1. wr[w].st # "none"  BY <3>1, <3>2, <1>4 DEF WrapSound
      <4>2. wr[w].addr \notin Destroyed(wr, h, q)
        BY <4>1, <1>6, <1>7, <2>2 DEF OneInstance
      <4> QED  BY <4>2, <3>1, <3>2 DEF WrapSound, al2
    <3> QED  BY <3>1, <3>2 DEF WrapSound
  <2> QED  BY <2>1, <2>2
<1>11. ASSUME NEW p \in Slot PROVE PtrSound(al2, wr2, q, fl, p)
  <2>1. PtrSound(al, wr, q, fl, p)  BY DEF Sound, fl
  <2>2. CASE ByCpp(al, wr, q, fl, p)
    <3>1. q[p].addr \notin Destroyed(wr, h, q)  BY <2>2, <1>7 DEF ByCpp
    <3>2. \A w \in Inst : wr2[w].addr = q[p].addr => ~wr2[w].destruct /\ w \notin fl
      <4> SUFFICES ASSUME NEW w \in Inst, wr2[w].addr = q[p].addr
                   PROVE  ~wr2[w].destruct /\ w \notin fl  OBVIOUS
      <4>1. CASE Pinned(w, h, q)  BY <4>1, <1>3, <2>2 DEF ByCpp
      <4>2. CASE ~Pinned(w, h, q)  BY <4>2, <1>3, <1>4, <1>9
      <4> QED  BY <4>1, <4>2
    <3> QED  BY <2>2, <3>1, <3>2 DEF PtrSound, ByCpp, al2
  <2>3. CASE ByPython(wr, q, fl, p)
    <3>1. q[p].by \in Inst /\ Pinned(q[p].by, h, q)  BY <2>3 DEF ByPython, Pinned
    <3> QED  BY <2>3, <3>1, <1>3 DEF ByPython, PtrSound
  <2> QED  BY <2>1, <2>2, <2>3 DEF PtrSound
<1>12. OneInstance(wr2)
  <2> SUFFICES ASSUME NEW v \in Inst, NEW w \in Inst,
                      wr2[v].st # "none", wr2[v].addr = wr2[w].addr
               PROVE  v = w  BY DEF OneInstance
  <2>1. wr2[v] = wr[v]  BY <1>3, <1>4
  <2>2. wr[v].addr # Nil  BY <2>1, <1>5 DEF WrapSound, ConstantsApart
  <2>3. wr2[w] = wr[w]  BY <2>1, <2>2, <1>3, <1>4
  <2> QED  BY <2>1, <2>3, <1>6 DEF OneInstance
<1>13. Owned(al2, wr2, q, fl)
  <2> SUFFICES ASSUME NEW a \in al2
               PROVE  \/ \E p \in Slot : q[p].addr = a /\ q[p].by = Cpp
                      \/ \E w \in Inst : wr2[w].addr = a /\ (wr2[w].destruct \/ w \in fl)
      BY DEF Owned
  <2>1. a \in al /\ a \notin Destroyed(wr, h, q)  BY DEF al2
  <2>2. \/ \E p \in Slot : q[p].addr = a /\ q[p].by = Cpp
        \/ \E w \in Inst : wr[w].addr = a /\ (wr[w].destruct \/ w \in fl)
      BY <2>1 DEF Sound, Owned, fl
  <2>3. ASSUME NEW w \in Inst, wr[w].addr = a, wr[w].destruct \/ w \in fl
        PROVE  wr2[w] = wr[w]
      BY <2>3, <2>1, <1>3, <1>7, <1>9
  <2> QED  BY <2>2, <2>3
<1>14. CallSound(al2, wr2, c)
  <2>1. c.pc # "idle" => /\ c.args[1] \in Inst /\ c.args[2] \in Inst
                         /\ wr2[c.args[1]] = wr[c.args[1]] /\ wr2[c.args[2]] = wr[c.args[2]]
    <3> SUFFICES ASSUME c.pc # "idle"
                 PROVE  \A j \in 1..2 : c.args[j] \in Inst /\ wr2[c.args[j]] = wr[c.args[j]]
        OBVIOUS
    <3>1. \A j \in 1..2 : c.args[j] \in Inst  BY <1>1, <1>6, ArgsInst DEF CallSound
    <3>2. \A j \in 1..2 : Pinned(c.args[j], h, q)  BY DEF ArgsHeld, Pinned
    <3> QED  BY <3>1, <3>2, <1>3
  <2>2. ASSUME NEW j \in 1..2, c.pc = "cast", c.nested, j < c.i
        PROVE  Taken(al2, wr2, c, j)
    <3>1. Taken(al, wr, c, j) /\ wr2[c.args[j]] = wr[c.args[j]] /\ c.args[j] \in Inst
        BY <2>1, <2>2, <1>6 DEF CallSound
    <3>2. Pinned(c.args[j], h, q)  BY <2>2 DEF ArgsHeld, Pinned
    <3>3. wr[c.args[j]].addr \notin Destroyed(wr, h, q)
        BY <3>1, <3>2, <1>6, <1>7 DEF OneInstance, Taken
    <3> QED  BY <3>1, <3>3 DEF Taken, al2
  <2> QED  BY <2>1, <2>2, <1>6 DEF CallSound
<1>15. al2 \subseteq Heap \cup Inst  BY <1>1 DEF al2
<1> QED
  BY <1>1, <1>2, <1>6, <1>8, <1>10, <1>11, <1>12, <1>13, <1>14, <1>15 DEF Sound, fl, al2, wr2
-----------------------------------------------------------------------------
(* The initial state and the actions.                                            *)

\* The invariant taken apart.
LEMMA Parts ==
    ASSUME NEW al, NEW wr, NEW q, NEW c, Sound(al, wr, q, c)
    PROVE  /\ al \subseteq Heap \cup Inst
           /\ wr \in [Inst -> Instance] /\ q \in [Slot -> UniquePtr] /\ c \in Call
           /\ \A w \in Inst : WrapSound(al, wr, w)
           /\ \A p \in Slot : PtrSound(al, wr, q, Flying(c), p)
           /\ OneInstance(wr) /\ OnePointer(q)
           /\ Owned(al, wr, q, Flying(c))
           /\ CallSound(al, wr, c)
BY DEF Sound

\* A pointer refers to something that lives.
LEMMA PtrAlive ==
    ASSUME NEW al, NEW wr, NEW q, NEW c, Sound(al, wr, q, c),
           NEW p \in Slot, q[p] # NoPtr
    PROVE  q[p].addr \in al /\ (q[p].by = Cpp \/ q[p].by \in Inst)
<1>1. PtrSound(al, wr, q, Flying(c), p) /\ \A w \in Inst : WrapSound(al, wr, w)  BY DEF Sound
<1>2. CASE ByCpp(al, wr, q, Flying(c), p)  BY <1>2 DEF ByCpp
<1>3. CASE ByPython(wr, q, Flying(c), p)  BY <1>1, <1>3 DEF ByPython, WrapSound
<1> QED  BY <1>1, <1>2, <1>3 DEF PtrSound

\* No pointer refers to the object of an instance that Python can use, or that is in flight.
LEMMA NoPtrTo ==
    ASSUME NEW al, NEW wr, NEW q, NEW c, Sound(al, wr, q, c),
           NEW w \in Inst, wr[w].st = "ready" \/ w \in Flying(c),
           NEW p \in Slot, q[p].addr = wr[w].addr
    PROVE  q[p] = NoPtr
<1> DEFINE fl == Flying(c)
<1>1. PtrSound(al, wr, q, fl, p) /\ WrapSound(al, wr, w) /\ OneInstance(wr)  BY DEF Sound
<1>2. wr[w].st # "none"
  <2>1. c \in Call /\ CallSound(al, wr, c)  BY DEF Sound
  <2> QED  BY <2>1, FlyingTaken
<1>3. ~ByCpp(al, wr, q, fl, p)  BY <1>1 DEF ByCpp, WrapSound
<1>4. ~ByPython(wr, q, fl, p)
  <2> SUFFICES ASSUME ByPython(wr, q, fl, p) PROVE FALSE  OBVIOUS
  <2>1. q[p].by = w  BY <1>1, <1>2 DEF ByPython, OneInstance
  <2> QED  BY <2>1 DEF ByPython
<1> QED  BY <1>1, <1>3, <1>4 DEF PtrSound

LEMMA InitIInv ==
    ASSUME ConstantsApart, Init PROVE IInv
<1>1. Sound(alive, wrap, ptrs, call)
  <2>1. \A w \in Inst : wrap[w] = NoInst  BY DEF Init
  <2>2. \A p \in Slot : ptrs[p] = NoPtr  BY DEF Init
  <2>3. Flying(call) = {} /\ call = NoCall  BY DEF Init, NoCall, Flying
  <2>4. wrap \in [Inst -> Instance] /\ ptrs \in [Slot -> UniquePtr]
    BY DEF Init, Instance, UniquePtr, NoInst, NoPtr
  <2>5. call \in Call  BY <2>3 DEF NoCall, Call
  <2>6. ASSUME NEW w \in Inst PROVE WrapSound(alive, wrap, w)
    <3>1. wrap[w] = NoInst  BY <2>1
    <3>2. NoInst.st = "none" /\ NoInst.addr = Nil /\ ~NoInst.destruct /\ ~NoInst.cpp_delete
      BY DEF NoInst
    <3>3. Nil # w  BY DEF ConstantsApart
    <3> QED  BY <3>1, <3>2, <3>3 DEF WrapSound
  <2>7. OneInstance(wrap) /\ OnePointer(ptrs)  BY <2>1, <2>2 DEF OneInstance, OnePointer, NoInst
  <2>8. CallSound(alive, wrap, call)  BY <2>3 DEF CallSound, NoCall
  <2>9. alive = {}  BY DEF Init
  <2> QED  BY <2>2, <2>4, <2>5, <2>6, <2>7, <2>8, <2>9 DEF Sound, PtrSound, Owned
<1> QED  BY <1>1 DEF IInv, Init, Referred, ArgsHeld, NoInst, NoCall

LEMMA ConstructIInv ==
    ASSUME ConstantsApart, IInv, NEW w \in Inst, Construct(w) PROVE IInv'
<1> DEFINE new == [st |-> "ready", addr |-> w, destruct |-> TRUE, cpp_delete |-> FALSE]
           fl == Flying(call)
<1>1. Sound(alive, wrap, ptrs, call) /\ Referred(wrap, held, ptrs) /\ held \subseteq Inst
      /\ ArgsHeld(call, held) /\ aborted = FALSE  BY DEF IInv
<1>2. wrap[w] = NoInst /\ wrap' = [wrap EXCEPT ![w] = new] /\ alive' = alive \cup {w}
      /\ held' = held \cup {w} /\ ptrs' = ptrs /\ call' = call /\ aborted' = aborted
      BY DEF Construct
<1>3. wrap'[w] = new /\ \A x \in Inst : x # w => wrap'[x] = wrap[x]  BY <1>1, <1>2 DEF Sound
<1>4. new.st = "ready" /\ new.addr = w /\ new.destruct /\ ~new.cpp_delete  OBVIOUS
<1>5. wrap' \in [Inst -> Instance]  BY <1>1, <1>2 DEF Sound, Instance
<1>6. wrap[w].st = "none" /\ wrap[w].addr = Nil /\ ~wrap[w].destruct  BY <1>2 DEF NoInst
<1>7. w \notin fl  BY <1>1, <1>6, Parts, FlyingTaken
<1>8. \A x \in Inst : wrap[x].addr # w
  BY <1>1, <1>6, Parts DEF WrapSound, NoInst, ConstantsApart
<1>9. w \notin alive
  <2> SUFFICES ASSUME w \in alive PROVE FALSE  OBVIOUS
  <2>1. PICK p \in Slot : ptrs[p].addr = w /\ ptrs[p].by = Cpp
    BY <1>1, <1>8, Parts DEF Owned
  <2>2. PtrSound(alive, wrap, ptrs, fl, p)  BY <1>1 DEF Sound
  <2> QED  BY <2>1, <2>2 DEF PtrSound, ByCpp, ByPython, ConstantsApart, NoPtr
<1>10. call.pc # "idle" => \A j \in 1..2 : call.args[j] \in Inst
  BY <1>1, ArgsInst, Parts DEF CallSound
<1> HIDE DEF new, fl
<1>11. ASSUME NEW x \in Inst PROVE WrapSound(alive', wrap', x)
  <2>1. CASE x = w  BY <2>1, <1>2, <1>3, <1>4 DEF WrapSound, NoInst
  <2>2. CASE x # w
    <3>1. wrap'[x] = wrap[x] /\ WrapSound(alive, wrap, x)  BY <2>2, <1>1, <1>3 DEF Sound
    <3> QED  BY <3>1, <1>2 DEF WrapSound
  <2> QED  BY <2>1, <2>2
<1>12. ASSUME NEW p \in Slot PROVE PtrSound(alive', wrap', ptrs', fl, p)
  <2>1. PtrSound(alive, wrap, ptrs, fl, p) /\ ptrs' = ptrs  BY <1>1, <1>2 DEF Sound, fl
  <2>2. CASE ByCpp(alive, wrap, ptrs, fl, p)
    <3>1. ptrs[p].addr # w  BY <2>2 DEF ByCpp, ConstantsApart
    <3> QED  BY <2>1, <2>2, <3>1, <1>2, <1>3, <1>4 DEF ByCpp, PtrSound
  <2>3. CASE ByPython(wrap, ptrs, fl, p)
    <3>1. ptrs[p].by # w  BY <2>3, <1>6 DEF ByPython
    <3> QED  BY <2>1, <2>3, <3>1, <1>3 DEF ByPython, PtrSound
  <2> QED  BY <2>1, <2>2, <2>3 DEF PtrSound
<1>13. OneInstance(wrap')
  <2>1. OneInstance(wrap)  BY <1>1 DEF Sound
  <2> QED  BY <2>1, <1>3, <1>4, <1>8 DEF OneInstance
<1>14. Owned(alive', wrap', ptrs', fl)
  <2>1. Owned(alive, wrap, ptrs, fl)  BY <1>1 DEF Sound, fl
  <2>2. \A x \in Inst : wrap[x].destruct \/ x \in fl => x # w  BY <1>6, <1>7
  <2> QED  BY <2>1, <2>2, <1>2, <1>3, <1>4 DEF Owned
<1>15. CallSound(alive', wrap', call')
  <2>1. CallSound(alive, wrap, call)  BY <1>1 DEF Sound
  <2>2. ASSUME call.pc # "idle", NEW j \in 1..2, call.args[j] # w
        PROVE  wrap'[call.args[j]] = wrap[call.args[j]]  BY <1>3, <1>10, <2>2
  <2>3. ASSUME call.pc = "cast", call.nested, NEW j \in 1..2, j < call.i
        PROVE  Taken(alive', wrap', call, j)
    <3>1. Taken(alive, wrap, call, j)  BY <2>1, <2>3 DEF CallSound
    <3>2. call.args[j] # w  BY <3>1, <1>6 DEF Taken
    <3> QED  BY <2>2, <2>3, <3>1, <3>2, <1>2 DEF Taken
  <2> QED  BY <2>1, <2>2, <2>3, <1>2, <1>3, <1>4 DEF CallSound
<1>16. Sound(alive', wrap', ptrs', call')
  BY <1>1, <1>2, <1>5, <1>11, <1>12, <1>13, <1>14, <1>15 DEF Sound, fl
<1>17. Referred(wrap', held', ptrs')  BY <1>1, <1>2, <1>3 DEF Referred, Pinned
<1> QED  BY <1>1, <1>2, <1>16, <1>17 DEF IInv, ArgsHeld

LEMMA MakeIInv ==
    ASSUME ConstantsApart, IInv, NEW p \in Slot, NEW a \in Heap, Make(p, a) PROVE IInv'
<1> DEFINE fl == Flying(call)
<1>1. Sound(alive, wrap, ptrs, call) /\ Referred(wrap, held, ptrs) /\ held \subseteq Inst
      /\ ArgsHeld(call, held) /\ aborted = FALSE  BY DEF IInv
<1>2. ptrs[p] = NoPtr /\ a \notin alive /\ alive' = alive \cup {a}
      /\ ptrs' = [ptrs EXCEPT ![p] = [addr |-> a, by |-> Cpp]]
      /\ held' = held /\ wrap' = wrap /\ call' = call /\ aborted' = aborted
      BY DEF Make
<1>3. /\ ptrs'[p].addr = a /\ ptrs'[p].by = Cpp /\ ptrs'[p] # NoPtr
      /\ \A x \in Slot : x # p => ptrs'[x] = ptrs[x]
  BY <1>1, <1>2, Parts DEF NoPtr, ConstantsApart
<1>4. ptrs' \in [Slot -> UniquePtr]  BY <1>1, <1>2 DEF Sound, UniquePtr
<1>5. \A x \in Slot : ptrs[x].addr # a
  <2> SUFFICES ASSUME NEW x \in Slot, ptrs[x].addr = a PROVE FALSE  OBVIOUS
  <2>1. ptrs[x] # NoPtr  BY DEF NoPtr, ConstantsApart
  <2> QED  BY <2>1, <1>1, <1>2, PtrAlive
<1>6. \A w \in Inst : wrap[w].addr = a => ~wrap[w].destruct /\ w \notin fl
  <2>1. call \in Call /\ CallSound(alive, wrap, call)  BY <1>1 DEF Sound
  <2>2. \A w \in Inst : WrapSound(alive, wrap, w)  BY <1>1 DEF Sound
  <2> QED  BY <1>2, <2>1, <2>2, FlyingTaken DEF WrapSound
<1> HIDE DEF fl
<1>11. ASSUME NEW x \in Inst PROVE WrapSound(alive', wrap', x)
  <2>1. WrapSound(alive, wrap, x)  BY <1>1 DEF Sound
  <2> QED  BY <2>1, <1>2 DEF WrapSound
<1>12. ASSUME NEW x \in Slot PROVE PtrSound(alive', wrap', ptrs', fl, x)
  <2>1. CASE x = p  BY <2>1, <1>2, <1>3, <1>6 DEF PtrSound, ByCpp
  <2>2. CASE x # p
    <3>1. PtrSound(alive, wrap, ptrs, fl, x) /\ ptrs'[x] = ptrs[x]
      BY <2>2, <1>1, <1>3 DEF Sound, fl
    <3> QED  BY <3>1, <1>2 DEF PtrSound, ByCpp, ByPython
  <2> QED  BY <2>1, <2>2
<1>13. OnePointer(ptrs')
  <2>1. OnePointer(ptrs)  BY <1>1 DEF Sound
  <2> QED  BY <2>1, <1>3, <1>5 DEF OnePointer
<1>14. Owned(alive', wrap', ptrs', fl)
  <2>1. Owned(alive, wrap, ptrs, fl)  BY <1>1 DEF Sound, fl
  <2>2. ptrs[p].by # Cpp  BY <1>2 DEF NoPtr, ConstantsApart
  <2> QED  BY <2>1, <2>2, <1>2, <1>3 DEF Owned
<1>15. CallSound(alive', wrap', call')
  <2>1. CallSound(alive, wrap, call)  BY <1>1 DEF Sound
  <2> QED  BY <2>1, <1>2 DEF CallSound, Taken
<1>16. Sound(alive', wrap', ptrs', call')
  BY <1>1, <1>2, <1>4, <1>11, <1>12, <1>13, <1>14, <1>15 DEF Sound, fl
<1>17. Referred(wrap', held', ptrs')
  <2>1. ASSUME NEW w \in Inst, NEW x \in Slot, ptrs[x].by = w PROVE ptrs'[x].by = w
    <3>1. x # p  BY <1>2, <2>1 DEF NoPtr, ConstantsApart
    <3> QED  BY <3>1, <2>1, <1>3
  <2> QED  BY <2>1, <1>1, <1>2 DEF Referred, Pinned
<1> QED  BY <1>1, <1>2, <1>16, <1>17 DEF IInv

\* Without references to objects of C++ the state changes only in who refers to what.
LEMMA ReferIInv ==
    ASSUME ConstantsApart, ~Alias, IInv, NEW p \in Slot, NEW w \in Inst, Refer(p, w) PROVE IInv'
<1>1. At(ptrs[p].addr) # {} /\ wrap' = wrap /\ held' = held \cup {w}
      /\ UNCHANGED <<alive, ptrs, call, aborted>>  BY DEF Refer
<1> QED  BY <1>1 DEF IInv, Referred, Pinned, ArgsHeld

LEMMA BeginIInv ==
    ASSUME IInv, NEW u \in Inst, NEW v \in Inst, NEW nb \in BOOLEAN, NEW nested \in BOOLEAN,
           Begin(<<u, v>>, nb, nested)
    PROVE  IInv'
<1>1. /\ call = NoCall /\ UNCHANGED <<alive, wrap, ptrs, held, aborted>>
      /\ call' = [pc |-> "cast", args |-> <<u, v>>, nb |-> nb, nested |-> nested, i |-> 1]
      /\ Range(<<u, v>>) \subseteq held /\ \A w \in Range(<<u, v>>) : wrap[w].st = "ready"
  BY DEF Begin
<1>2. Range(<<u, v>>) = {u, v}  BY DEF Range
<1>3. /\ call'.pc = "cast" /\ call'.args = <<u, v>> /\ call'.i = 1
      /\ call'.args[1] = u /\ call'.args[2] = v /\ Len(call'.args) = 2
  BY <1>1
<1>4. call' \in Call  BY <1>1 DEF Call
<1>5. Flying(call) = {} /\ Flying(call') = {}  BY <1>1, <1>3 DEF Flying, NoCall
<1>6. CallSound(alive, wrap, call')  BY <1>1, <1>2, <1>3 DEF CallSound
<1>7. Sound(alive, wrap, ptrs, call')  BY <1>4, <1>5, <1>6 DEF IInv, Sound
<1> QED  BY <1>1, <1>2, <1>3, <1>7 DEF IInv, ArgsHeld

LEMMA FailIInv == ASSUME ConstantsApart, IInv, Fail PROVE IInv'
<1>1. call.pc = "failed" /\ call' = NoCall /\ UNCHANGED <<alive, wrap, ptrs, held, aborted>>
  BY DEF Fail
<1>2. Flying(call) = {} /\ Flying(NoCall) = {}  BY <1>1 DEF Flying, NoCall
<1>3. NoCall \in Call /\ CallSound(alive, wrap, NoCall)  BY DEF NoCall, Call, CallSound
<1> QED  BY <1>1, <1>2, <1>3 DEF IInv, Sound, ArgsHeld, NoCall

LEMMA DropIInv == ASSUME ConstantsApart, IInv, NEW w \in Inst, Drop(w) PROVE IInv'
<1> DEFINE h == held \ {w}
<1>1. /\ w \in held /\ w \notin Range(call.args) /\ call' = call /\ aborted' = aborted
      /\ Sweep(alive, wrap, h, ptrs)  BY DEF Drop
<1>2. Sound(alive, wrap, ptrs, call) /\ h \in SUBSET Inst  BY DEF IInv
<1>3. ArgsHeld(call, h)
  <2>1. call.pc # "idle" => Range(call.args) = {call.args[1], call.args[2]}
    BY <1>2, ArgsInst, Parts DEF CallSound
  <2> QED  BY <2>1, <1>1 DEF ArgsHeld, IInv
<1>4. wrap' = Swept(wrap, h, ptrs) /\ held' = h /\ ptrs' = ptrs
      /\ alive' = alive \ Destroyed(wrap, h, ptrs)  BY <1>1 DEF Sweep
<1> HIDE DEF h
<1>5. Sound(alive', wrap', ptrs', call') /\ Referred(wrap', held', ptrs')
  BY <1>1, <1>2, <1>3, <1>4, SweepSound
<1> QED  BY <1>1, <1>2, <1>3, <1>4, <1>5 DEF IInv

\* A pointer is destroyed, and its object with it if C++ deletes it.
LEMMA DeleteIInv == ASSUME ConstantsApart, IInv, NEW p \in Slot, Delete(p) PROVE IInv'
<1> DEFINE q == [ptrs EXCEPT ![p] = NoPtr]
           al == Deleted(p)
           fl == Flying(call)
<1>1. /\ ptrs[p] # NoPtr /\ call' = call /\ aborted' = aborted
      /\ Sweep(al, wrap, held, q)  BY DEF Delete
<1>2. Sound(alive, wrap, ptrs, call) /\ ArgsHeld(call, held) /\ held \in SUBSET Inst
  BY DEF IInv
<1>3. q[p] = NoPtr /\ (\A x \in Slot : x # p => q[x] = ptrs[x]) /\ q \in [Slot -> UniquePtr]
  BY <1>2, Parts DEF UniquePtr, NoPtr
<1>4. al \subseteq alive /\ \A a \in alive : a \notin al => ptrs[p].by = Cpp /\ a = ptrs[p].addr
  BY DEF Deleted
<1>5. PtrSound(alive, wrap, ptrs, fl, p)  BY <1>2 DEF Sound
<1>6. \A w \in Inst : wrap[w].addr = ptrs[p].addr /\ ptrs[p].by = Cpp
                      => ~wrap[w].destruct /\ w \notin fl
  BY <1>1, <1>5 DEF PtrSound, ByCpp, ByPython, ConstantsApart
<1>7. wrap' = Swept(wrap, held, q) /\ held' = held /\ ptrs' = q
      /\ alive' = al \ Destroyed(wrap, held, q)  BY <1>1 DEF Sweep
<1> HIDE DEF q, al, fl
<1>11. ASSUME NEW w \in Inst PROVE WrapSound(al, wrap, w)
  <2>1. WrapSound(alive, wrap, w)  BY <1>2 DEF Sound
  <2> QED  BY <2>1, <1>4, <1>6 DEF WrapSound
<1>12. ASSUME NEW x \in Slot PROVE PtrSound(al, wrap, q, fl, x)
  <2>1. CASE x = p  BY <2>1, <1>3 DEF PtrSound
  <2>2. CASE x # p
    <3>1. PtrSound(alive, wrap, ptrs, fl, x) /\ q[x] = ptrs[x] /\ OnePointer(ptrs)
      BY <2>2, <1>2, <1>3 DEF Sound, fl
    <3>2. ptrs[x].addr # ptrs[p].addr  BY <2>2, <3>1, <1>1 DEF OnePointer
    <3> QED  BY <3>1, <3>2, <1>4 DEF PtrSound, ByCpp, ByPython
  <2> QED  BY <2>1, <2>2
<1>13. OnePointer(q)
  <2>1. OnePointer(ptrs) /\ \A x \in Slot : ptrs[x] # NoPtr => ptrs[x].addr # Nil
    <3>1. \A x \in Slot : ptrs[x] # NoPtr => ptrs[x].addr \in alive  BY <1>2, PtrAlive
    <3> QED  BY <3>1, <1>2, Parts DEF ConstantsApart
  <2> QED  BY <2>1, <1>3 DEF OnePointer, NoPtr
<1>14. Owned(al, wrap, q, fl)
  <2>1. Owned(alive, wrap, ptrs, fl)  BY <1>2 DEF Sound, fl
  <2>2. ASSUME NEW a \in al, ptrs[p].addr = a, ptrs[p].by = Cpp PROVE FALSE
    BY <2>2 DEF al, Deleted
  <2> QED  BY <2>1, <2>2, <1>3, <1>4 DEF Owned
<1>15. CallSound(al, wrap, call)
  <2>1. CallSound(alive, wrap, call) /\ call \in Call  BY <1>2 DEF Sound
  <2>2. ASSUME call.pc = "cast", call.nested, NEW j \in 1..2, j < call.i
        PROVE  Taken(al, wrap, call, j)
    <3>1. Taken(alive, wrap, call, j)  BY <2>1, <2>2 DEF CallSound
    <3>2. call.args[j] \in fl
      BY <2>2, <2>1 DEF Flying, fl, Call
    <3>3. call.args[j] \in Inst  BY <2>1, <3>2, FlyingTaken DEF fl
    <3> QED  BY <3>1, <3>2, <3>3, <1>4, <1>6 DEF Taken
  <2> QED  BY <2>1, <2>2 DEF CallSound
<1>16. Sound(al, wrap, q, call)
  BY <1>2, <1>3, <1>4, <1>11, <1>12, <1>13, <1>14, <1>15, Parts DEF Sound, fl
<1>17. Sound(alive', wrap', ptrs', call') /\ Referred(wrap', held', ptrs')
  BY <1>1, <1>2, <1>7, <1>16, SweepSound
<1> QED  BY <1>1, <1>2, <1>7, <1>17 DEF IInv

\* A pointer goes back to the instance of its object: the flags are as expected, and the
\* instance owns the object again.
LEMMA ReturnKnown ==
    ASSUME ConstantsApart, IInv, NEW p \in Slot, NEW w \in Inst,
           ptrs[p] # NoPtr, w \in At(ptrs[p].addr)
    PROVE  LET byCpp == ptrs[p].by = Cpp
           IN  /\ Finalizable(w, byCpp)
               /\ Sound(alive, Owning(w, byCpp), [ptrs EXCEPT ![p] = NoPtr], call)
<1> DEFINE byCpp == ptrs[p].by = Cpp
           q == [ptrs EXCEPT ![p] = NoPtr]
           wr == Owning(w, byCpp)
           fl == Flying(call)
<1>1. Sound(alive, wrap, ptrs, call)  BY DEF IInv
<1>2. q[p] = NoPtr /\ (\A x \in Slot : x # p => q[x] = ptrs[x]) /\ q \in [Slot -> UniquePtr]
  BY <1>1, Parts DEF UniquePtr, NoPtr
<1>3. wrap[w].addr = ptrs[p].addr  BY DEF At
<1>4. ptrs[p].addr \in alive /\ ptrs[p].addr # Nil /\ byCpp \in BOOLEAN
  BY <1>1, PtrAlive, Parts DEF ConstantsApart
<1>5. /\ wr \in [Inst -> Instance] /\ \A x \in Inst : x # w => wr[x] = wrap[x]
      /\ wr[w].st = "ready" /\ wr[w].addr = wrap[w].addr
      /\ wr[w].destruct <=> wrap[w].destruct \/ byCpp
      /\ wr[w].cpp_delete <=> wrap[w].cpp_delete \/ byCpp
  <2>0. wrap \in [Inst -> Instance]  BY <1>1, Parts
  <2>1. wr \in [Inst -> Instance]  BY <2>0, <1>4 DEF Owning, Instance
  <2>2. \A x \in Inst : x # w => wr[x] = wrap[x]  BY <2>0 DEF Owning
  <2>3. wr[w].st = "ready" /\ wr[w].addr = wrap[w].addr  BY <2>0 DEF Owning, Instance
  <2>4. wr[w].destruct = (wrap[w].destruct \/ byCpp)  BY <2>0 DEF Owning, Instance
  <2>5. wr[w].cpp_delete = (wrap[w].cpp_delete \/ byCpp)  BY <2>0 DEF Owning, Instance
  <2> HIDE DEF wr, byCpp
  <2> QED  BY <2>1, <2>2, <2>3, <2>4, <2>5
<1>6. PtrSound(alive, wrap, ptrs, fl, p) /\ WrapSound(alive, wrap, w)  BY <1>1 DEF Sound
<1>7. wrap[w].st # "none"  BY <1>3, <1>4, <1>6 DEF WrapSound, NoInst
<1>8. /\ wrap[w].st = "relinquished" /\ w \notin fl
      /\ byCpp => ~wrap[w].destruct /\ ~wrap[w].cpp_delete /\ ptrs[p].addr \in Heap
      /\ ~byCpp => wrap[w].destruct /\ ptrs[p].by = w
  <2>1. CASE ByCpp(alive, wrap, ptrs, fl, p)
    <3>1. byCpp /\ ~wrap[w].destruct /\ w \notin fl /\ ptrs[p].addr \in Heap
      BY <2>1, <1>3 DEF ByCpp
    <3>2. wrap[w].st \in {"none", "ready", "relinquished"}  BY <1>1, Parts DEF Instance
    <3> QED  BY <3>1, <3>2, <1>6, <1>7 DEF WrapSound
  <2>2. CASE ByPython(wrap, ptrs, fl, p)
    <3>1. ptrs[p].by = w
      <4>1. OneInstance(wrap)  BY <1>1 DEF Sound
      <4> QED  BY <4>1, <2>2, <1>3 DEF ByPython, OneInstance
    <3>2. ~byCpp  BY <3>1 DEF ConstantsApart
    <3> QED  BY <3>1, <3>2, <2>2 DEF ByPython
  <2> QED  BY <2>1, <2>2, <1>6 DEF PtrSound
<1>9. Finalizable(w, byCpp)  BY <1>8 DEF Finalizable
<1> HIDE DEF q, wr, fl
<1>10. \A x \in Slot : x # p => ptrs[x].addr # ptrs[p].addr
  BY <1>1, Parts DEF OnePointer
<1>11. ASSUME NEW x \in Inst PROVE WrapSound(alive, wr, x)
  <2>1. WrapSound(alive, wrap, x)  BY <1>1 DEF Sound
  <2>2. CASE x # w  BY <2>1, <2>2, <1>5 DEF WrapSound
  <2>3. CASE x = w
    <3>1. wr[w].destruct  BY <1>5, <1>8
    <3>2. wr[w].addr \in alive  BY <1>3, <1>4, <1>5
    <3>3. wr[w].addr \in Heap \cup {w}  BY <1>5, <1>6, <1>7 DEF WrapSound
    <3>4. wr[w].cpp_delete <=> wr[w].addr # w
      <4>1. CASE byCpp
        <5>1. w \notin Heap  BY DEF ConstantsApart
        <5> QED  BY <4>1, <5>1, <1>3, <1>5, <1>8
      <4>2. CASE ~byCpp  BY <4>2, <1>5, <1>6, <1>8 DEF WrapSound
      <4> QED  BY <4>1, <4>2
    <3>5. wr[w] # NoInst  BY <1>5 DEF NoInst
    <3> QED  BY <2>3, <3>1, <3>2, <3>3, <3>4, <3>5, <1>5 DEF WrapSound
  <2> QED  BY <2>2, <2>3
<1>12. ASSUME NEW x \in Slot PROVE PtrSound(alive, wr, q, fl, x)
  <2>1. CASE x = p  BY <2>1, <1>2 DEF PtrSound
  <2>2. CASE x # p
    <3>1. PtrSound(alive, wrap, ptrs, fl, x) /\ q[x] = ptrs[x]
      BY <2>2, <1>1, <1>2 DEF Sound, fl
    <3>2. q[x].addr # wr[w].addr  BY <2>2, <3>1, <1>3, <1>5, <1>10
    <3>3. CASE ByCpp(alive, wrap, ptrs, fl, x)
      BY <3>1, <3>2, <3>3, <1>5 DEF ByCpp, PtrSound
    <3>4. CASE ByPython(wrap, ptrs, fl, x)
      <4>1. ptrs[x].by # w  BY <3>4, <2>2, <1>3, <1>10 DEF ByPython
      <4> QED  BY <4>1, <3>1, <3>4, <1>5 DEF ByPython, PtrSound
    <3> QED  BY <3>1, <3>3, <3>4 DEF PtrSound
  <2> QED  BY <2>1, <2>2
<1>13. OneInstance(wr) /\ OnePointer(q)
  <2>1. OneInstance(wrap) /\ OnePointer(ptrs)  BY <1>1 DEF Sound
  <2>2. \A x \in Slot : ptrs[x] # NoPtr => ptrs[x].addr # Nil
    <3>1. \A x \in Slot : ptrs[x] # NoPtr => ptrs[x].addr \in alive  BY <1>1, PtrAlive
    <3> QED  BY <3>1, <1>1, Parts DEF ConstantsApart
  <2>3. OneInstance(wr)  BY <2>1, <1>5, <1>7 DEF OneInstance
  <2> QED  BY <2>1, <2>2, <2>3, <1>2 DEF OnePointer, NoPtr
<1>14. Owned(alive, wr, q, fl)
  <2>1. Owned(alive, wrap, ptrs, fl)  BY <1>1 DEF Sound, fl
  <2>2. wr[w].destruct  BY <1>5, <1>8
  <2>3. \A x \in Inst : wr[x].addr = wrap[x].addr /\ (wrap[x].destruct => wr[x].destruct)
    BY <1>5
  <2> QED  BY <2>1, <2>2, <2>3, <1>2, <1>3, <1>5 DEF Owned
<1>15. CallSound(alive, wr, call)
  <2>1. CallSound(alive, wrap, call) /\ call \in Call  BY <1>1 DEF Sound
  <2>2. call.pc # "idle" => \A j \in 1..2 : call.args[j] \in Inst
    BY <2>1, ArgsInst DEF CallSound
  <2>3. ASSUME call.pc = "cast", call.nested, NEW j \in 1..2 PROVE call.args[j] # w
    <3>1. CASE j < call.i  BY <3>1, <2>1, <2>3, <1>8 DEF Flying, fl, Call
    <3>2. CASE j >= call.i  BY <3>2, <2>1, <2>3, <1>8 DEF CallSound, fl
    <3>3. call.i \in 0..3  BY <2>1 DEF Call
    <3> QED  BY <3>1, <3>2, <3>3
  <2>4. ASSUME call.pc = "cast", call.nested, NEW j \in 1..2
        PROVE  wr[call.args[j]] = wrap[call.args[j]]
    BY <2>2, <2>3, <2>4, <1>5
  <2>5. ASSUME call.pc = "cast", call.nested, NEW j \in 1..2, j < call.i
        PROVE  Taken(alive, wr, call, j)
    BY <2>1, <2>4, <2>5 DEF CallSound, Taken
  <2>6. ASSUME call.pc = "failed", call.nested, NEW j \in 1..2
        PROVE  wr[call.args[j]].st = "ready"
    BY <2>1, <2>2, <2>6, <1>5 DEF CallSound
  <2> QED  BY <2>1, <2>4, <2>5, <2>6 DEF CallSound
<1> QED
  BY <1>1, <1>2, <1>5, <1>9, <1>11, <1>12, <1>13, <1>14, <1>15, Parts DEF Sound, fl, q, wr

\* A pointer to an object without an instance goes to a new one.
LEMMA ReturnNew ==
    ASSUME ConstantsApart, IInv, NEW p \in Slot, NEW w \in Inst,
           ptrs[p] # NoPtr, ptrs[p].by = Cpp, At(ptrs[p].addr) = {}, wrap[w] = NoInst,
           NEW new, new = [st |-> "ready", addr |-> ptrs[p].addr, destruct |-> TRUE, cpp_delete |-> TRUE]
    PROVE  Sound(alive, [wrap EXCEPT ![w] = new], [ptrs EXCEPT ![p] = NoPtr], call)
<1> DEFINE q == [ptrs EXCEPT ![p] = NoPtr]
           wr == [wrap EXCEPT ![w] = new]
           fl == Flying(call)
           a == ptrs[p].addr
<1>1. Sound(alive, wrap, ptrs, call)  BY DEF IInv
<1>2. q[p] = NoPtr /\ (\A x \in Slot : x # p => q[x] = ptrs[x]) /\ q \in [Slot -> UniquePtr]
  BY <1>1, Parts DEF UniquePtr, NoPtr
<1>3. PtrSound(alive, wrap, ptrs, fl, p)  BY <1>1 DEF Sound
<1>4. a \in alive \cap Heap  BY <1>3 DEF PtrSound, ByCpp, ByPython, ConstantsApart
<1>5. /\ wr \in [Inst -> Instance] /\ wr[w] = new /\ \A x \in Inst : x # w => wr[x] = wrap[x]
  BY <1>1, <1>4, Parts DEF Instance
<1>6. new.st = "ready" /\ new.addr = a /\ new.destruct /\ new.cpp_delete  OBVIOUS
<1>7. NoInst.st = "none" /\ NoInst.addr = Nil /\ ~NoInst.destruct  BY DEF NoInst
<1>8. \A x \in Inst : wrap[x].addr # a  BY DEF At
<1>9. w \notin fl  BY <1>1, <1>7, Parts, FlyingTaken
<1>10. \A x \in Slot : x # p => ptrs[x].addr # a  BY <1>1, Parts DEF OnePointer
<1> HIDE DEF q, wr, fl
<1>11. ASSUME NEW x \in Inst PROVE WrapSound(alive, wr, x)
  <2>1. CASE x # w
    <3>1. WrapSound(alive, wrap, x)  BY <1>1 DEF Sound
    <3> QED  BY <2>1, <3>1, <1>5 DEF WrapSound
  <2>2. CASE x = w
    <3>1. a # w /\ new # NoInst  BY <1>4, <1>6, <1>7 DEF ConstantsApart
    <3> QED  BY <2>2, <3>1, <1>4, <1>5, <1>6 DEF WrapSound
  <2> QED  BY <2>1, <2>2
<1>12. ASSUME NEW x \in Slot PROVE PtrSound(alive, wr, q, fl, x)
  <2>1. CASE x = p  BY <2>1, <1>2 DEF PtrSound
  <2>2. CASE x # p
    <3>1. PtrSound(alive, wrap, ptrs, fl, x) /\ q[x] = ptrs[x]
      BY <2>2, <1>1, <1>2 DEF Sound, fl
    <3>2. CASE ByCpp(alive, wrap, ptrs, fl, x)
      BY <2>2, <3>1, <3>2, <1>5, <1>6, <1>10 DEF ByCpp, PtrSound
    <3>3. CASE ByPython(wrap, ptrs, fl, x)
      <4>1. ptrs[x].by # w  BY <3>3, <1>7 DEF ByPython
      <4> QED  BY <4>1, <3>1, <3>3, <1>5 DEF ByPython, PtrSound
    <3> QED  BY <3>1, <3>2, <3>3 DEF PtrSound
  <2> QED  BY <2>1, <2>2
<1>13. OneInstance(wr) /\ OnePointer(q)
  <2>1. OneInstance(wrap) /\ OnePointer(ptrs)  BY <1>1 DEF Sound
  <2>2. \A x \in Slot : ptrs[x] # NoPtr => ptrs[x].addr # Nil
    <3>1. \A x \in Slot : ptrs[x] # NoPtr => ptrs[x].addr \in alive  BY <1>1, PtrAlive
    <3> QED  BY <3>1, <1>1, Parts DEF ConstantsApart
  <2>3. OneInstance(wr)  BY <2>1, <1>5, <1>6, <1>8 DEF OneInstance
  <2> QED  BY <2>1, <2>2, <2>3, <1>2 DEF OnePointer, NoPtr
<1>14. Owned(alive, wr, q, fl)
  <2>1. Owned(alive, wrap, ptrs, fl)  BY <1>1 DEF Sound, fl
  <2>2. \A x \in Inst : wrap[x].destruct \/ x \in fl => wr[x] = wrap[x]  BY <1>5, <1>7, <1>9
  <2> QED  BY <2>1, <2>2, <1>2, <1>5, <1>6 DEF Owned
<1>15. CallSound(alive, wr, call)
  <2>1. CallSound(alive, wrap, call) /\ call \in Call  BY <1>1 DEF Sound
  <2>2. call.pc # "idle" => \A j \in 1..2 : call.args[j] \in Inst
    BY <2>1, ArgsInst DEF CallSound
  <2>3. ASSUME call.pc = "cast", call.nested, NEW j \in 1..2 PROVE call.args[j] # w
    <3>1. CASE j < call.i  BY <3>1, <2>1, <2>3, <1>9 DEF Flying, fl, Call
    <3>2. CASE j >= call.i  BY <3>2, <2>1, <2>3, <1>7, <1>9 DEF CallSound, fl
    <3>3. call.i \in 0..3  BY <2>1 DEF Call
    <3> QED  BY <3>1, <3>2, <3>3
  <2>4. ASSUME call.pc = "cast", call.nested, NEW j \in 1..2
        PROVE  wr[call.args[j]] = wrap[call.args[j]]
    BY <2>2, <2>3, <2>4, <1>5
  <2>5. ASSUME call.pc = "cast", call.nested, NEW j \in 1..2, j < call.i
        PROVE  Taken(alive, wr, call, j)
    BY <2>1, <2>4, <2>5 DEF CallSound, Taken
  <2>6. ASSUME call.pc = "failed", call.nested, NEW j \in 1..2
        PROVE  wr[call.args[j]].st = "ready"
    BY <2>1, <2>2, <2>6, <1>5, <1>6 DEF CallSound
  <2> QED  BY <2>1, <2>4, <2>5, <2>6 DEF CallSound
<1> QED
  BY <1>1, <1>2, <1>5, <1>11, <1>12, <1>13, <1>14, <1>15, Parts DEF Sound, fl, q, wr

LEMMA ReturnIInv ==
    ASSUME ConstantsApart, IInv, NEW p \in Slot, NEW w \in Inst, Return(p, w) PROVE IInv'
<1> DEFINE byCpp == ptrs[p].by = Cpp
           q == [ptrs EXCEPT ![p] = NoPtr]
           h == held \cup {w}
           new == [st |-> "ready", addr |-> ptrs[p].addr, destruct |-> TRUE, cpp_delete |-> TRUE]
<1>1. ptrs[p] # NoPtr /\ call' = call  BY DEF Return
<1>2. h \in SUBSET Inst /\ ArgsHeld(call, h) /\ aborted = FALSE  BY DEF IInv, ArgsHeld
<1>3. ASSUME NEW wr, Sound(alive, wr, q, call), Sweep(alive, wr, h, q), aborted' = FALSE
      PROVE  IInv'
  <2>1. wrap' = Swept(wr, h, q) /\ held' = h /\ ptrs' = q
        /\ alive' = alive \ Destroyed(wr, h, q)  BY <1>3 DEF Sweep
  <2> HIDE DEF q, h
  <2>2. Sound(alive', wrap', ptrs', call') /\ Referred(wrap', held', ptrs')
    BY <1>1, <1>2, <1>3, <2>1, SweepSound
  <2> QED  BY <1>1, <1>2, <1>3, <2>1, <2>2 DEF IInv
<1>4. CASE w \in At(ptrs[p].addr)
  <2>1. Finalizable(w, byCpp) /\ Sound(alive, Owning(w, byCpp), q, call)
    BY <1>1, <1>4, ReturnKnown
  <2>2. Sweep(alive, Owning(w, byCpp), h, q) /\ aborted' = FALSE
    BY <1>4, <2>1 DEF Return
  <2> QED  BY <1>3, <2>1, <2>2
<1>5. CASE w \notin At(ptrs[p].addr)
  <2>1. /\ At(ptrs[p].addr) = {} /\ wrap[w] = NoInst /\ byCpp /\ aborted' = aborted
        /\ Sweep(alive, [wrap EXCEPT ![w] = new], h, q)
    BY <1>5 DEF Return
  <2>2. Sound(alive, [wrap EXCEPT ![w] = new], q, call)  BY <1>1, <2>1, ReturnNew
  <2> QED  BY <1>2, <1>3, <2>1, <2>2
<1> QED  BY <1>4, <1>5

-----------------------------------------------------------------------------
(* Passing pointers.                                                             *)

\* What nb_type_relinquish_ownership() changes in an instance.
LEMMA RelinquishedAt ==
    ASSUME wrap \in [Inst -> Instance], NEW w \in Inst, call.nb \in BOOLEAN,
           NEW wr, wr = Relinquished(wrap, w)
    PROVE  /\ wr \in [Inst -> Instance] /\ \A x \in Inst : x # w => wr[x] = wrap[x]
           /\ wr[w].st = "relinquished" /\ wr[w].addr = wrap[w].addr
           /\ wr[w].destruct = (wrap[w].destruct /\ call.nb)
           /\ wr[w].cpp_delete = (wrap[w].cpp_delete /\ call.nb)
<1>1. wr \in [Inst -> Instance]  BY DEF Relinquished, Instance
<1>2. \A x \in Inst : x # w => wr[x] = wrap[x]  BY DEF Relinquished
<1>3. wr[w].st = "relinquished" /\ wr[w].addr = wrap[w].addr  BY DEF Relinquished, Instance
<1>4. wr[w].destruct = (wrap[w].destruct /\ call.nb)  BY DEF Relinquished, Instance
<1>5. wr[w].cpp_delete = (wrap[w].cpp_delete /\ call.nb)  BY DEF Relinquished, Instance
<1> QED  BY <1>1, <1>2, <1>3, <1>4, <1>5

\* The argument that is cast next.
LEMMA ArgSound ==
    ASSUME IInv, Casting, Relinquishable(Arg)
    PROVE  /\ call.i \in 1..2 /\ Arg \in Inst /\ wrap[Arg].st = "ready" /\ wrap[Arg].destruct
           /\ wrap[Arg].addr \in alive /\ wrap[Arg] # NoInst
           /\ ~call.nb => wrap[Arg].addr \in Heap
           /\ call.nb \in BOOLEAN /\ wrap \in [Inst -> Instance]
<1>1. call \in Call /\ CallSound(alive, wrap, call) /\ \A w \in Inst : WrapSound(alive, wrap, w)
      /\ wrap \in [Inst -> Instance]  BY DEF IInv, Sound
<1>2. call.pc = "cast" /\ call.i <= Len(call.args)  BY DEF Casting
<1>6. Len(call.args) = 2 /\ call.i \in 1..3  BY <1>1, <1>2 DEF CallSound
<1>3. call.i \in 1..2 /\ call.args[1] \in Inst /\ call.args[2] \in Inst
  BY <1>1, <1>2, <1>6, ArgsInst
<1>4. Arg \in Inst  BY <1>3 DEF Arg
<1>5. wrap[Arg].st = "ready" /\ (~call.nb => wrap[Arg].addr # Arg)  BY DEF Relinquishable
<1> QED  BY <1>1, <1>3, <1>4, <1>5 DEF WrapSound, Call

\* An instance that is relinquished stays sound.
LEMMA RelinquishWrap ==
    ASSUME IInv, Casting, Relinquishable(Arg), NEW wr, wr = Relinquished(wrap, Arg)
    PROVE  /\ \A x \in Inst : WrapSound(alive, wr, x)
           /\ OneInstance(wr)
<1>1. /\ wr \in [Inst -> Instance] /\ \A x \in Inst : x # Arg => wr[x] = wrap[x]
      /\ wr[Arg].st = "relinquished" /\ wr[Arg].addr = wrap[Arg].addr
      /\ wr[Arg].destruct = (wrap[Arg].destruct /\ call.nb)
      /\ wr[Arg].cpp_delete = (wrap[Arg].cpp_delete /\ call.nb)
  BY RelinquishedAt, ArgSound
<1>2. OneInstance(wrap) /\ \A x \in Inst : WrapSound(alive, wrap, x)  BY DEF IInv, Sound
<1>3. /\ Arg \in Inst /\ wrap[Arg].st = "ready" /\ wrap[Arg].destruct
      /\ ~call.nb => wrap[Arg].addr # Arg
  BY ArgSound DEF Relinquishable
<1>4. WrapSound(alive, wr, Arg)
  <2>1. wr[Arg] # NoInst  BY <1>1 DEF NoInst
  <2>2. WrapSound(alive, wrap, Arg)  BY <1>2, <1>3
  <2>3. CASE call.nb  BY <2>1, <2>2, <2>3, <1>1, <1>3 DEF WrapSound
  <2>4. CASE ~call.nb  BY <2>1, <2>2, <2>4, <1>1, <1>3 DEF WrapSound
  <2> QED  BY <2>3, <2>4
<1>5. \A x \in Inst : x # Arg => WrapSound(alive, wr, x)  BY <1>1, <1>2 DEF WrapSound
<1>6. OneInstance(wr)  BY <1>1, <1>2, <1>3 DEF OneInstance
<1> QED  BY <1>4, <1>5, <1>6

LEMMA CastDirectIInv ==
    ASSUME ConstantsApart, IInv, NEW p \in Slot, CastDirect(p) PROVE IInv'
<1> DEFINE w == Arg
           new == Pointer(w)
<1>1. /\ Casting /\ ~call.nested /\ Relinquishable(w) /\ ptrs[p] = NoPtr
      /\ wrap' = Relinquished(wrap, w) /\ ptrs' = [ptrs EXCEPT ![p] = new]
      /\ call' = [call EXCEPT !.i = @ + 1] /\ UNCHANGED <<alive, held, aborted>>
  BY DEF CastDirect
<1>2. /\ Sound(alive, wrap, ptrs, call) /\ Referred(wrap, held, ptrs) /\ ArgsHeld(call, held)
      /\ held \subseteq Inst /\ aborted = FALSE
  BY DEF IInv
<1>3. /\ call.i \in 1..2 /\ w \in Inst /\ wrap[w].st = "ready" /\ wrap[w].destruct
      /\ wrap[w].addr \in alive /\ (~call.nb => wrap[w].addr \in Heap) /\ call.nb \in BOOLEAN
  BY <1>1, ArgSound
<1>4. /\ wrap' \in [Inst -> Instance] /\ \A x \in Inst : x # w => wrap'[x] = wrap[x]
      /\ wrap'[w].st = "relinquished" /\ wrap'[w].addr = wrap[w].addr
      /\ wrap'[w].destruct = (wrap[w].destruct /\ call.nb)
  BY <1>1, <1>2, <1>3, RelinquishedAt, Parts
<1>5. call \in Call /\ call.pc = "cast"  BY <1>1, <1>2, Parts DEF Casting
<1>6. /\ call' \in Call /\ call'.pc = "cast" /\ call'.args = call.args /\ call'.i = call.i + 1
      /\ call'.nested = FALSE
  BY <1>1, <1>3, <1>5 DEF Call
<1>7. Flying(call) = {} /\ Flying(call') = {}  BY <1>1, <1>6 DEF Flying
<1>8. CallSound(alive, wrap', call')
  BY <1>2, <1>3, <1>5, <1>6, Parts DEF CallSound
<1>9. /\ new.addr = wrap[w].addr /\ (call.nb => new.by = w) /\ (~call.nb => new.by = Cpp)
      /\ new # NoPtr /\ new \in UniquePtr
  <2>1. wrap[w].addr # Nil /\ wrap[w].addr \in Heap \cup Inst
    BY <1>2, <1>3, Parts DEF ConstantsApart
  <2> QED  BY <2>1, <1>3 DEF Pointer, NoPtr, UniquePtr
<1> HIDE DEF w, new
<1>10. ptrs' \in [Slot -> UniquePtr] /\ ptrs'[p] = new
       /\ \A x \in Slot : x # p => ptrs'[x] = ptrs[x]
  BY <1>1, <1>2, <1>9, Parts
<1>11. \A x \in Slot : ptrs[x].addr = wrap[w].addr => ptrs[x] = NoPtr
  BY <1>2, <1>3, NoPtrTo
<1>12. \A x \in Slot : ptrs[x].addr # wrap[w].addr
  <2>1. wrap[w].addr # Nil  BY <1>2, <1>3, Parts DEF ConstantsApart
  <2> QED  BY <2>1, <1>11 DEF NoPtr
<1>13. (\A x \in Inst : WrapSound(alive, wrap', x)) /\ OneInstance(wrap')
  BY <1>1, RelinquishWrap DEF w
<1>14. ASSUME NEW x \in Slot PROVE PtrSound(alive, wrap', ptrs', {}, x)
  <2>1. CASE x = p /\ call.nb
    BY <2>1, <1>3, <1>4, <1>9, <1>10 DEF PtrSound, ByPython
  <2>2. CASE x = p /\ ~call.nb
    <3>1. ASSUME NEW v \in Inst, wrap'[v].addr = new.addr PROVE v = w
      <4>1. wrap'[w].st # "none" /\ wrap'[w].addr = wrap'[v].addr  BY <3>1, <1>4, <1>9
      <4> QED  BY <4>1, <1>3, <1>13 DEF OneInstance
    <3> QED  BY <2>2, <3>1, <1>3, <1>4, <1>9, <1>10 DEF PtrSound, ByCpp
  <2>3. CASE x # p
    <3>1. PtrSound(alive, wrap, ptrs, {}, x) /\ ptrs'[x] = ptrs[x]
      BY <2>3, <1>2, <1>7, <1>10, Parts
    <3>2. CASE ByCpp(alive, wrap, ptrs, {}, x)
      BY <3>1, <3>2, <1>4, <1>12 DEF ByCpp, PtrSound
    <3>3. CASE ByPython(wrap, ptrs, {}, x)
      BY <3>1, <3>3, <1>3, <1>4 DEF ByPython, PtrSound
    <3> QED  BY <3>1, <3>2, <3>3 DEF PtrSound
  <2> QED  BY <2>1, <2>2, <2>3
<1>15. OnePointer(ptrs')
  <2>1. OnePointer(ptrs)  BY <1>2, Parts
  <2> QED  BY <2>1, <1>9, <1>10, <1>12 DEF OnePointer
<1>16. Owned(alive, wrap', ptrs', {})
  <2> SUFFICES ASSUME NEW a \in alive
               PROVE  \/ \E x \in Slot : ptrs'[x].addr = a /\ ptrs'[x].by = Cpp
                      \/ \E v \in Inst : wrap'[v].addr = a /\ wrap'[v].destruct
      BY DEF Owned
  <2>1. CASE a = wrap[w].addr
    <3>1. CASE call.nb  BY <2>1, <3>1, <1>3, <1>4
    <3>2. CASE ~call.nb  BY <2>1, <3>2, <1>9, <1>10
    <3> QED  BY <3>1, <3>2
  <2>2. CASE a # wrap[w].addr
    <3>1. \/ \E x \in Slot : ptrs[x].addr = a /\ ptrs[x].by = Cpp
          \/ \E v \in Inst : wrap[v].addr = a /\ wrap[v].destruct
      BY <1>2, <1>7, Parts DEF Owned
    <3>2. ptrs[p].by # Cpp  BY <1>1 DEF NoPtr, ConstantsApart
    <3> QED  BY <2>2, <3>1, <3>2, <1>4, <1>10
  <2> QED  BY <2>1, <2>2
<1>17. Sound(alive', wrap', ptrs', call')
  BY <1>1, <1>2, <1>4, <1>6, <1>7, <1>8, <1>10, <1>13, <1>14, <1>15, <1>16, Parts DEF Sound
<1>18. Referred(wrap', held', ptrs')
  <2>1. ASSUME NEW v \in Inst, NEW x \in Slot, ptrs[x].by = v PROVE ptrs'[x].by = v
    <3>1. x # p  BY <1>1, <2>1 DEF NoPtr, ConstantsApart
    <3> QED  BY <3>1, <2>1, <1>10
  <2>2. \A v \in Inst : wrap'[v].st # "none" => wrap[v].st # "none"  BY <1>3, <1>4
  <2> QED  BY <2>1, <2>2, <1>1, <1>2 DEF Referred, Pinned
<1> QED  BY <1>1, <1>2, <1>5, <1>6, <1>17, <1>18 DEF IInv, ArgsHeld

LEMMA CanCastIInv == ASSUME ConstantsApart, IInv, CanCast PROVE IInv'
<1> DEFINE w == Arg
           fl == Flying(call)
<1>1. /\ Casting /\ call.nested /\ Relinquishable(w) /\ wrap' = Relinquished(wrap, w)
      /\ call' = [call EXCEPT !.i = @ + 1] /\ UNCHANGED <<alive, ptrs, held, aborted>>
  BY DEF CanCast
<1>2. /\ Sound(alive, wrap, ptrs, call) /\ Referred(wrap, held, ptrs) /\ ArgsHeld(call, held)
      /\ held \subseteq Inst /\ aborted = FALSE
  BY DEF IInv
<1>3. /\ call.i \in 1..2 /\ w \in Inst /\ wrap[w].st = "ready" /\ wrap[w].destruct
      /\ wrap[w].addr \in alive /\ call.nb \in BOOLEAN
  BY <1>1, ArgSound
<1>4. /\ wrap' \in [Inst -> Instance] /\ \A x \in Inst : x # w => wrap'[x] = wrap[x]
      /\ wrap'[w].st = "relinquished" /\ wrap'[w].addr = wrap[w].addr
      /\ wrap'[w].destruct = (wrap[w].destruct /\ call.nb)
  BY <1>1, <1>2, <1>3, RelinquishedAt, Parts
<1>5. call \in Call /\ call.pc = "cast" /\ CallSound(alive, wrap, call)
  BY <1>1, <1>2, Parts DEF Casting
<1>6. /\ call' \in Call /\ call'.pc = "cast" /\ call'.args = call.args /\ call'.i = call.i + 1
      /\ call'.nested = call.nested /\ call'.nb = call.nb
  <2>1. call' \in Call  BY <1>1, <1>3, <1>5 DEF Call
  <2>2. call'.pc = call.pc /\ call'.args = call.args /\ call'.i = call.i + 1
    BY <1>1, <1>5 DEF Call
  <2>3. call'.nested = call.nested  BY <1>1, <1>5 DEF Call
  <2>4. call'.nb = call.nb  BY <1>1, <1>5 DEF Call
  <2> QED  BY <2>1, <2>2, <2>3, <2>4, <1>5
<1>7. w = call.args[call.i]  BY DEF Arg
<1>8. Len(call.args) = 2 /\ \A j \in 1..2 : call.args[j] \in Inst
  BY <1>5, ArgsInst DEF CallSound
<1>9. fl = {call.args[j] : j \in 1 .. (call.i - 1)}  BY <1>1, <1>5 DEF Flying
<1>10. Flying(call') = {call.args[j] : j \in 1 .. call.i}
  BY <1>1, <1>3, <1>6 DEF Flying
<1>11. Flying(call') = fl \cup {w}
  <2>1. 1 .. call.i = (1 .. (call.i - 1)) \cup {call.i}  BY <1>3
  <2> QED  BY <2>1, <1>7, <1>9, <1>10
<1>12. w \notin fl
  <2>1. \A v \in fl : wrap[v].st = "relinquished"  BY <1>5, FlyingTaken
  <2> QED  BY <2>1, <1>3
<1> HIDE DEF w, fl
<1>13. (\A x \in Inst : WrapSound(alive, wrap', x)) /\ OneInstance(wrap')
  BY <1>1, RelinquishWrap DEF w
<1>14. \A x \in Slot : ptrs[x] # NoPtr => ptrs[x].addr # wrap[w].addr
  BY <1>2, <1>3, NoPtrTo
<1>15. ASSUME NEW x \in Slot PROVE PtrSound(alive, wrap', ptrs, fl \cup {w}, x)
  <2>1. PtrSound(alive, wrap, ptrs, fl, x)  BY <1>2, Parts DEF fl
  <2>2. CASE ptrs[x] = NoPtr  BY <2>2 DEF PtrSound
  <2>3. CASE ptrs[x] # NoPtr /\ ByCpp(alive, wrap, ptrs, fl, x)
    BY <2>3, <1>4, <1>14 DEF ByCpp, PtrSound
  <2>4. CASE ByPython(wrap, ptrs, fl, x)
    <3>1. ptrs[x].by # w  BY <2>4, <1>3 DEF ByPython
    <3> QED  BY <2>4, <3>1, <1>4 DEF ByPython, PtrSound
  <2> QED  BY <2>1, <2>2, <2>3, <2>4 DEF PtrSound
<1>16. Owned(alive, wrap', ptrs, fl \cup {w})
  <2>1. Owned(alive, wrap, ptrs, fl)  BY <1>2, Parts DEF fl
  <2> QED  BY <2>1, <1>3, <1>4 DEF Owned
<1>17. CallSound(alive, wrap', call')
  <2>1. ASSUME NEW j \in 1..2, j < call'.i PROVE Taken(alive, wrap', call', j)
    <3>1. CASE j = call.i
      <4>1. \A k \in 1..2 : k < call.i => call.args[k] \in fl  BY <1>3, <1>9
      <4>2. \A k \in 1..2 : k < call'.i /\ call.args[k] = w => k = j
        BY <3>1, <4>1, <1>3, <1>6, <1>12
      <4>3. call'.args[j] = w  BY <3>1, <1>6, <1>7
      <4> QED  BY <4>2, <4>3, <1>3, <1>4, <1>6 DEF Taken
    <3>2. CASE j # call.i
      <4>1. j < call.i  BY <3>2, <2>1, <1>3, <1>6
      <4>2. Taken(alive, wrap, call, j)  BY <4>1, <1>1, <1>5 DEF CallSound
      <4>3. call.args[j] # w /\ call.args[j] \in Inst  BY <4>2, <1>3, <1>8 DEF Taken
      <4>4. \A k \in 1..2 : k < call'.i /\ call.args[k] = call.args[j] => k = j
        BY <4>2, <4>3, <1>3, <1>6, <1>7 DEF Taken
      <4> QED  BY <4>2, <4>3, <4>4, <1>4, <1>6 DEF Taken
    <3> QED  BY <3>1, <3>2
  <2>2. ASSUME NEW j \in 1..2, j >= call'.i
        PROVE  wrap'[call.args[j]].st = "ready" \/ call.args[j] \in Flying(call')
    <3>1. wrap[call.args[j]].st = "ready" \/ call.args[j] \in fl
      BY <2>2, <1>1, <1>3, <1>5, <1>6 DEF CallSound, fl
    <3> QED  BY <3>1, <1>4, <1>8, <1>11
  <2> QED  BY <2>1, <2>2, <1>3, <1>6, <1>8 DEF CallSound
<1>18. Sound(alive', wrap', ptrs', call')
  BY <1>1, <1>2, <1>4, <1>6, <1>11, <1>13, <1>15, <1>16, <1>17, Parts DEF Sound
<1>19. Referred(wrap', held', ptrs')
  BY <1>1, <1>2, <1>3, <1>4 DEF Referred, Pinned
<1> QED  BY <1>1, <1>2, <1>5, <1>6, <1>18, <1>19 DEF IInv, ArgsHeld

\* The call of a container of pointers gives back what is in flight.
LEMMA RefusedNested ==
    ASSUME ConstantsApart, IInv, Refused, call.nested PROVE IInv'
<1> DEFINE fl == Flying(call)
<1>1. /\ Casting /\ ~Relinquishable(Arg) /\ UNCHANGED <<alive, ptrs, held, aborted>>
      /\ wrap' = [w \in Inst |-> IF w \in InFlight THEN Restored(wrap, w)[w] ELSE wrap[w]]
      /\ call' = [call EXCEPT !.pc = "failed"]
  BY DEF Refused
<1>2. /\ Sound(alive, wrap, ptrs, call) /\ Referred(wrap, held, ptrs) /\ ArgsHeld(call, held)
      /\ held \subseteq Inst /\ aborted = FALSE
  BY DEF IInv
<1>3. call \in Call /\ call.pc = "cast" /\ CallSound(alive, wrap, call) /\ call.nb \in BOOLEAN
      /\ wrap \in [Inst -> Instance]
  BY <1>1, <1>2, Parts DEF Casting, Call
<1>4. InFlight = fl  BY <1>3 DEF InFlight, Flying
<1>5. /\ call' \in Call /\ call'.pc = "failed" /\ call'.args = call.args /\ call'.i = call.i
      /\ call'.nested = call.nested
  BY <1>1, <1>3 DEF Call
<1>6. Flying(call') = {}  BY <1>5 DEF Flying
<1>7. \A w \in fl : /\ w \in Inst /\ wrap[w].st = "relinquished" /\ wrap[w].addr \in alive
                    /\ wrap[w].destruct <=> call.nb
  BY <1>3, FlyingTaken
<1>8. \A x \in Inst : x \notin fl => wrap'[x] = wrap[x]  BY <1>1, <1>4
<1>9. ASSUME NEW w \in fl
      PROVE  /\ wrap'[w] \in Instance /\ wrap'[w].st = "ready" /\ wrap'[w].addr = wrap[w].addr
             /\ wrap'[w].destruct
             /\ wrap'[w].cpp_delete = (wrap[w].cpp_delete \/ ~call.nb)
  <2>1. w \in Inst /\ wrap'[w] = Restored(wrap, w)[w]  BY <1>1, <1>4, <1>7
  <2>2. wrap'[w].st = "ready" /\ wrap'[w].addr = wrap[w].addr
    BY <2>1, <1>3 DEF Restored, Instance
  <2>3. wrap'[w].destruct = (wrap[w].destruct \/ ~call.nb)  BY <2>1, <1>3 DEF Restored, Instance
  <2>4. wrap'[w].cpp_delete = (wrap[w].cpp_delete \/ ~call.nb)
    BY <2>1, <1>3 DEF Restored, Instance
  <2>5. wrap'[w] \in Instance  BY <2>1, <1>3 DEF Restored, Instance
  <2> QED  BY <2>2, <2>3, <2>4, <2>5, <1>7
<1> HIDE DEF fl
<1>10. wrap' \in [Inst -> Instance]
  <2>1. \A x \in Inst : wrap'[x] \in Instance  BY <1>3, <1>8, <1>9
  <2> QED  BY <2>1, <1>1
<1>11. ASSUME NEW x \in Inst PROVE WrapSound(alive, wrap', x)
  <2>1. WrapSound(alive, wrap, x)  BY <1>2, Parts
  <2>2. CASE x \notin fl  BY <2>1, <2>2, <1>8 DEF WrapSound
  <2>3. CASE x \in fl
    <3>1. wrap'[x] # NoInst  BY <2>3, <1>9 DEF NoInst
    <3>2. wrap'[x].addr \in Heap \cup {x} /\ wrap'[x].addr \in alive
      BY <2>1, <2>3, <1>7, <1>9 DEF WrapSound
    <3>3. wrap'[x].cpp_delete <=> wrap'[x].addr # x
      <4>1. CASE call.nb  BY <2>1, <2>3, <4>1, <1>7, <1>9 DEF WrapSound
      <4>2. CASE ~call.nb  BY <2>1, <2>3, <4>2, <1>7, <1>9 DEF WrapSound
      <4> QED  BY <4>1, <4>2
    <3> QED  BY <2>3, <3>1, <3>2, <3>3, <1>9 DEF WrapSound
  <2> QED  BY <2>2, <2>3
<1>12. ASSUME NEW p \in Slot PROVE PtrSound(alive, wrap', ptrs, {}, p)
  <2>1. PtrSound(alive, wrap, ptrs, fl, p)  BY <1>2, Parts DEF fl
  <2>2. CASE ByCpp(alive, wrap, ptrs, fl, p)
    BY <2>2, <1>8, <1>9 DEF ByCpp, PtrSound
  <2>3. CASE ByPython(wrap, ptrs, fl, p)  BY <2>3, <1>8 DEF ByPython, PtrSound
  <2> QED  BY <2>1, <2>2, <2>3 DEF PtrSound
<1>13. OneInstance(wrap')
  <2>1. \A x \in Inst : wrap'[x].addr = wrap[x].addr
                        /\ (wrap'[x].st # "none" => wrap[x].st # "none")
    BY <1>7, <1>8, <1>9
  <2>2. OneInstance(wrap)  BY <1>2, Parts
  <2> QED  BY <2>1, <2>2 DEF OneInstance
<1>14. Owned(alive, wrap', ptrs, {})
  <2>1. Owned(alive, wrap, ptrs, fl)  BY <1>2, Parts DEF fl
  <2>2. \A x \in Inst : wrap'[x].addr = wrap[x].addr
                        /\ (wrap[x].destruct \/ x \in fl => wrap'[x].destruct)
    BY <1>8, <1>9
  <2> QED  BY <2>1, <2>2 DEF Owned
<1>15. CallSound(alive, wrap', call')
  <2>1. Len(call.args) = 2 /\ call.i \in 1..3  BY <1>3 DEF CallSound
  <2>2. \A j \in 1..2 : call.args[j] \in Inst  BY <2>1, <1>3, ArgsInst
  <2>3. ASSUME NEW j \in 1..2 PROVE wrap'[call.args[j]].st = "ready"
    <3>1. CASE j < call.i
      <4>1. call.args[j] \in fl  BY <3>1, <2>1, <1>3 DEF fl, Flying
      <4> QED  BY <4>1, <1>9
    <3>2. CASE j >= call.i
      <4>1. wrap[call.args[j]].st = "ready" \/ call.args[j] \in fl
        BY <3>2, <1>3 DEF CallSound, fl
      <4> QED  BY <4>1, <2>2, <1>8, <1>9
    <3> QED  BY <3>1, <3>2, <2>1
  <2> QED  BY <2>1, <2>3, <1>5 DEF CallSound
<1>16. Sound(alive', wrap', ptrs', call')
  BY <1>1, <1>2, <1>5, <1>6, <1>10, <1>11, <1>12, <1>13, <1>14, <1>15, Parts DEF Sound
<1>17. Referred(wrap', held', ptrs')
  <2>1. \A x \in Inst : wrap'[x].st # "none" => wrap[x].st # "none"  BY <1>7, <1>8
  <2> QED  BY <2>1, <1>1, <1>2 DEF Referred, Pinned
<1> QED  BY <1>1, <1>2, <1>3, <1>5, <1>16, <1>17 DEF IInv, ArgsHeld

\* next_overload: the pointers that a direct call has made are destroyed.
LEMMA RefusedDirect ==
    ASSUME ConstantsApart, IInv, Refused, ~call.nested PROVE IInv'
<1> DEFINE made == Made
           q == [p \in Slot |-> IF p \in made THEN NoPtr ELSE ptrs[p]]
           al == alive \ {ptrs[p].addr : p \in {x \in made : ptrs[x].by = Cpp}}
           c == [call EXCEPT !.pc = "failed"]
<1>1. /\ call.pc = "cast" /\ call' = c /\ aborted' = aborted
      /\ Sweep(al, wrap, held, q)
  BY DEF Refused, Casting
<1>2. Sound(alive, wrap, ptrs, call) /\ ArgsHeld(call, held) /\ held \in SUBSET Inst
      /\ aborted = FALSE
  BY DEF IInv
<1>3. call \in Call /\ CallSound(alive, wrap, call)  BY <1>2, Parts
<1>4. /\ c \in Call /\ c.pc = "failed" /\ c.args = call.args /\ c.i = call.i /\ ~c.nested
  BY <1>3 DEF Call
<1>5. Flying(call) = {} /\ Flying(c) = {}  BY <1>4 DEF Flying
<1>6. CallSound(al, wrap, c) /\ ArgsHeld(c, held)
  BY <1>1, <1>2, <1>3, <1>4 DEF CallSound, ArgsHeld
<1>7. made \subseteq Slot /\ \A p \in made : ptrs[p] # NoPtr  BY DEF Made
<1>8. /\ \A p \in made : q[p] = NoPtr
      /\ \A p \in Slot : p \notin made => q[p] = ptrs[p]
      /\ q \in [Slot -> UniquePtr]
  <2>1. ptrs \in [Slot -> UniquePtr] /\ NoPtr \in UniquePtr  BY <1>2, Parts DEF UniquePtr, NoPtr
  <2> QED  BY <2>1, <1>7
<1>9. /\ al \subseteq alive
      /\ \A a \in alive : a \notin al <=> \E p \in made : ptrs[p].by = Cpp /\ a = ptrs[p].addr
  OBVIOUS
<1>10. wrap' = Swept(wrap, held, q) /\ held' = held /\ ptrs' = q
       /\ alive' = al \ Destroyed(wrap, held, q)  BY <1>1 DEF Sweep
<1> HIDE DEF made, q, al, c
<1>11. ASSUME NEW p \in made, ptrs[p].by = Cpp, NEW w \in Inst, wrap[w].addr = ptrs[p].addr
       PROVE  ~wrap[w].destruct
  <2>1. PtrSound(alive, wrap, ptrs, {}, p)  BY <1>2, <1>5, <1>7, Parts
  <2> QED  BY <2>1, <1>7, <1>11 DEF PtrSound, ByCpp, ByPython, ConstantsApart
<1>12. ASSUME NEW w \in Inst PROVE WrapSound(al, wrap, w)
  <2>1. WrapSound(alive, wrap, w)  BY <1>2, Parts
  <2>2. wrap[w].destruct => wrap[w].addr \in al  BY <2>1, <1>9, <1>11 DEF WrapSound
  <2> QED  BY <2>1, <2>2 DEF WrapSound
<1>13. ASSUME NEW x \in Slot PROVE PtrSound(al, wrap, q, {}, x)
  <2>1. CASE x \in made  BY <2>1, <1>8 DEF PtrSound
  <2>2. CASE x \notin made
    <3>1. PtrSound(alive, wrap, ptrs, {}, x) /\ q[x] = ptrs[x] /\ OnePointer(ptrs)
      BY <2>2, <1>2, <1>5, <1>8, Parts
    <3>2. \A p \in made : ptrs[x].addr # ptrs[p].addr  BY <2>2, <3>1, <1>7 DEF OnePointer
    <3>3. CASE ByCpp(alive, wrap, ptrs, {}, x)
      BY <3>1, <3>2, <3>3, <1>9 DEF PtrSound, ByCpp
    <3>4. CASE ByPython(wrap, ptrs, {}, x)  BY <3>1, <3>4 DEF PtrSound, ByPython
    <3> QED  BY <3>1, <3>3, <3>4 DEF PtrSound
  <2> QED  BY <2>1, <2>2
<1>14. OnePointer(q)
  <2>1. OnePointer(ptrs) /\ \A x \in Slot : ptrs[x] # NoPtr => ptrs[x].addr # Nil
    <3>1. \A x \in Slot : ptrs[x] # NoPtr => ptrs[x].addr \in alive  BY <1>2, PtrAlive
    <3> QED  BY <3>1, <1>2, Parts DEF ConstantsApart
  <2>2. \A x \in Slot : q[x] # NoPtr => x \notin made  BY <1>8
  <2>3. NoPtr.addr = Nil  BY DEF NoPtr
  <2> QED  BY <2>1, <2>2, <2>3, <1>8 DEF OnePointer
<1>15. Owned(al, wrap, q, {})
  <2>1. Owned(alive, wrap, ptrs, {})  BY <1>2, <1>5, Parts
  <2>2. ASSUME NEW a \in al, NEW p \in Slot, ptrs[p].addr = a, ptrs[p].by = Cpp
        PROVE  q[p] = ptrs[p]
    BY <2>2, <1>8, <1>9
  <2> QED  BY <2>1, <2>2, <1>9 DEF Owned
<1>16. Sound(al, wrap, q, c)
  BY <1>2, <1>4, <1>5, <1>6, <1>8, <1>9, <1>12, <1>13, <1>14, <1>15, Parts DEF Sound
<1>17. Sound(alive', wrap', ptrs', call') /\ Referred(wrap', held', ptrs')
  BY <1>1, <1>2, <1>6, <1>10, <1>16, SweepSound
<1> QED  BY <1>1, <1>2, <1>6, <1>10, <1>17 DEF IInv

\* The call of a container: every element in flight goes to a pointer.
LEMMA SucceedNested ==
    ASSUME ConstantsApart, IInv, NEW p1 \in Slot, NEW p2 \in Slot, Succeed(<<p1, p2>>), call.nested
    PROVE  IInv'
<1> DEFINE f == <<p1, p2>>
           u == call.args[1]
           v == call.args[2]
           fl == Flying(call)
<1>1. /\ call.pc = "cast" /\ call.i > Len(call.args) /\ Ready(f) /\ IsInjective(f)
      /\ ptrs' = [p \in Slot |-> IF p \in Range(f)
                    THEN Pointer(call.args[CHOOSE j \in DOMAIN f : f[j] = p]) ELSE ptrs[p]]
      /\ call' = NoCall /\ UNCHANGED <<alive, wrap, held, aborted>>
  BY DEF Succeed
<1>2. /\ Sound(alive, wrap, ptrs, call) /\ Referred(wrap, held, ptrs)
      /\ held \subseteq Inst /\ aborted = FALSE
  BY DEF IInv
<1>3. call \in Call /\ CallSound(alive, wrap, call) /\ call.nb \in BOOLEAN
  BY <1>2, Parts DEF Call
<1>4. Len(call.args) = 2 /\ call.i = 3
  BY <1>1, <1>3 DEF CallSound
<1>5. DOMAIN call.args = 1..2 /\ u \in Inst /\ v \in Inst
  BY <1>1, <1>3, <1>4, ArgsInst
<1>6. p1 # p2 /\ ptrs[p1] = NoPtr /\ ptrs[p2] = NoPtr
  <2>1. DOMAIN f = 1..2 /\ f[1] = p1 /\ f[2] = p2  OBVIOUS
  <2>2. f[1] # f[2]  BY <2>1, <1>1 DEF IsInjective
  <2>3. ptrs[f[1]] = NoPtr /\ ptrs[f[2]] = NoPtr  BY <1>1, <1>5 DEF Ready
  <2> QED  BY <2>1, <2>2, <2>3
<1>7. /\ ptrs'[p1] = Pointer(u) /\ ptrs'[p2] = Pointer(v)
      /\ \A x \in Slot : x # p1 /\ x # p2 => ptrs'[x] = ptrs[x]
  <2>1. DOMAIN f = {1, 2} /\ f[1] = p1 /\ f[2] = p2 /\ Range(f) = {p1, p2}  BY DEF Range
  <2>2. (CHOOSE j \in DOMAIN f : f[j] = p1) = 1  BY <2>1, <1>6
  <2>3. (CHOOSE j \in DOMAIN f : f[j] = p2) = 2  BY <2>1, <1>6
  <2> HIDE DEF f
  <2> QED  BY <2>1, <2>2, <2>3, <1>1
<1>8. /\ Taken(alive, wrap, call, 1) /\ Taken(alive, wrap, call, 2) /\ u # v
  <2>1. Taken(alive, wrap, call, 1) /\ Taken(alive, wrap, call, 2)
    BY <1>1, <1>3, <1>4 DEF CallSound
  <2> QED  BY <2>1, <1>4 DEF Taken
<1>9. /\ wrap[u].st = "relinquished" /\ wrap[u].addr \in alive /\ (wrap[u].destruct <=> call.nb)
      /\ wrap[v].st = "relinquished" /\ wrap[v].addr \in alive /\ (wrap[v].destruct <=> call.nb)
  BY <1>8 DEF Taken
<1>10. fl = {u, v}
  <2>1. fl = {call.args[j] : j \in 1..2}  BY <1>1, <1>4 DEF Flying
  <2> QED  BY <2>1
<1>11. wrap[u].addr # wrap[v].addr
  <2>1. OneInstance(wrap)  BY <1>2, Parts
  <2> QED  BY <2>1, <1>5, <1>8, <1>9 DEF OneInstance
<1>12. \A w \in {u, v} : ~call.nb => wrap[w].addr \in Heap
  <2>1. WrapSound(alive, wrap, u) /\ WrapSound(alive, wrap, v)  BY <1>2, <1>5, Parts
  <2> QED  BY <2>1, <1>9 DEF WrapSound
<1> HIDE DEF f, u, v, fl
<1>13. \A w \in {u, v} : /\ Pointer(w).addr = wrap[w].addr /\ wrap[w].addr # Nil
                         /\ call.nb => Pointer(w).by = w
                         /\ ~call.nb => Pointer(w).by = Cpp
                         /\ Pointer(w) \in UniquePtr /\ Pointer(w) # NoPtr
  <2> SUFFICES ASSUME NEW w \in {u, v}
               PROVE  /\ Pointer(w).addr = wrap[w].addr /\ wrap[w].addr # Nil
                      /\ call.nb => Pointer(w).by = w
                      /\ ~call.nb => Pointer(w).by = Cpp
                      /\ Pointer(w) \in UniquePtr /\ Pointer(w) # NoPtr
      OBVIOUS
  <2>1. w \in Inst /\ wrap[w].addr \in Heap \cup Inst /\ wrap[w].addr # Nil
    BY <1>2, <1>5, <1>9, Parts DEF ConstantsApart
  <2> QED  BY <2>1, <1>3 DEF Pointer, UniquePtr, NoPtr
<1>14. ptrs' \in [Slot -> UniquePtr]
  <2>1. \A x \in Slot : ptrs'[x] \in UniquePtr  BY <1>2, <1>7, <1>13, Parts
  <2> QED  BY <2>1, <1>1
<1>15. \A x \in Slot, w \in {u, v} : ptrs[x].addr # wrap[w].addr
  <2> SUFFICES ASSUME NEW x \in Slot, NEW w \in {u, v}, ptrs[x].addr = wrap[w].addr PROVE FALSE
      OBVIOUS
  <2>1. w \in Inst /\ w \in fl  BY <1>5, <1>10
  <2>2. ptrs[x] = NoPtr  BY <2>1, <1>2, NoPtrTo DEF fl
  <2> QED  BY <2>2, <1>13 DEF NoPtr
<1>16. ASSUME NEW x \in Slot PROVE PtrSound(alive, wrap, ptrs', {}, x)
  <2>1. ASSUME NEW w \in {u, v}, ptrs'[x] = Pointer(w) PROVE PtrSound(alive, wrap, ptrs', {}, x)
    <3>1. w \in Inst /\ wrap[w].st = "relinquished" /\ wrap[w].addr \in alive
          /\ (wrap[w].destruct <=> call.nb)
      BY <1>5, <1>9
    <3>2. CASE call.nb  BY <2>1, <3>1, <3>2, <1>13 DEF PtrSound, ByPython
    <3>3. CASE ~call.nb
      <4>1. OneInstance(wrap)  BY <1>2, Parts
      <4>2. \A y \in Inst : wrap[y].addr = wrap[w].addr => y = w
        BY <4>1, <3>1 DEF OneInstance
      <4> QED  BY <2>1, <3>1, <3>3, <4>2, <1>12, <1>13 DEF PtrSound, ByCpp
    <3> QED  BY <3>2, <3>3, <1>3
  <2>2. CASE x # p1 /\ x # p2
    <3>1. PtrSound(alive, wrap, ptrs, fl, x) /\ ptrs'[x] = ptrs[x]
      BY <2>2, <1>2, <1>7, Parts DEF fl
    <3> QED  BY <3>1 DEF PtrSound, ByCpp, ByPython
  <2> QED  BY <2>1, <2>2, <1>7
<1>17. OnePointer(ptrs')
  <2>1. OnePointer(ptrs)  BY <1>2, Parts
  <2> QED  BY <2>1, <1>6, <1>7, <1>11, <1>13, <1>15 DEF OnePointer
<1>18. Owned(alive, wrap, ptrs', {})
  <2>1. Owned(alive, wrap, ptrs, fl)  BY <1>2, Parts DEF fl
  <2>2. \A x \in Slot : ptrs[x].by = Cpp => ptrs'[x] = ptrs[x]
    BY <1>6, <1>7 DEF NoPtr, ConstantsApart
  <2>3. \A w \in fl : wrap[w].destruct
                      \/ \E x \in Slot : ptrs'[x].addr = wrap[w].addr /\ ptrs'[x].by = Cpp
    BY <1>3, <1>7, <1>9, <1>10, <1>13
  <2> QED  BY <2>1, <2>2, <2>3 DEF Owned
<1>19. Flying(NoCall) = {} /\ NoCall \in Call /\ CallSound(alive, wrap, NoCall)
       /\ ArgsHeld(NoCall, held)
  BY DEF Flying, NoCall, Call, CallSound, ArgsHeld
<1>20. Sound(alive, wrap, ptrs', NoCall)
  BY <1>2, <1>14, <1>16, <1>17, <1>18, <1>19, Parts DEF Sound
<1>21. Referred(wrap, held, ptrs')
  <2>1. \A w \in Inst, x \in Slot : ptrs[x].by = w => ptrs'[x].by = w
    <3>1. NoPtr.by = Nil /\ Nil \notin Inst  BY DEF NoPtr, ConstantsApart
    <3> QED  BY <3>1, <1>6, <1>7
  <2> QED  BY <2>1, <1>2 DEF Referred, Pinned
<1> QED  BY <1>1, <1>2, <1>19, <1>20, <1>21 DEF IInv

LEMMA SucceedDirect ==
    ASSUME IInv, NEW f, Succeed(f), ~call.nested PROVE IInv'
<1>1. /\ call.pc = "cast" /\ UNCHANGED <<alive, wrap, ptrs, held, aborted>> /\ call' = NoCall
  BY DEF Succeed
<1>2. Flying(call) = {} /\ Flying(NoCall) = {}  BY DEF Flying, NoCall
<1>3. NoCall \in Call /\ CallSound(alive, wrap, NoCall) /\ ArgsHeld(NoCall, held)
  BY DEF NoCall, Call, CallSound, ArgsHeld
<1> QED  BY <1>1, <1>2, <1>3 DEF IInv, Sound

LEMMA StepIInv ==
    ASSUME ConstantsApart, ~Alias, IInv, [Next]_ownershipVars PROVE IInv'
<1>1. CASE UNCHANGED ownershipVars
  BY <1>1 DEF ownershipVars, IInv, Referred, Pinned
<1>2. ASSUME NEW w \in Inst, Construct(w) PROVE IInv'  BY <1>2, ConstructIInv
<1>3. ASSUME NEW w \in Inst, Drop(w) PROVE IInv'  BY <1>3, DropIInv
<1>4. ASSUME NEW p \in Slot, Delete(p) PROVE IInv'  BY <1>4, DeleteIInv
<1>5. ASSUME NEW p \in Slot, CastDirect(p) PROVE IInv'  BY <1>5, CastDirectIInv
<1>6. ASSUME NEW p \in Slot, NEW a \in Heap, Make(p, a) PROVE IInv'  BY <1>6, MakeIInv
<1>7. ASSUME NEW p \in Slot, NEW w \in Inst, Refer(p, w) PROVE IInv'  BY <1>7, ReferIInv
<1>8. ASSUME NEW p \in Slot, NEW w \in Inst, Return(p, w) PROVE IInv'  BY <1>8, ReturnIInv
<1>9. ASSUME NEW u \in Inst, NEW v \in Inst, NEW nb \in BOOLEAN, NEW nested \in BOOLEAN,
             Begin(<<u, v>>, nb, nested)
      PROVE  IInv'
  BY <1>9, BeginIInv
<1>10. ASSUME CanCast PROVE IInv'  BY <1>10, CanCastIInv
<1>11. ASSUME Refused PROVE IInv'
  <2>1. call.nested \/ ~call.nested  OBVIOUS
  <2> QED  BY <1>11, <2>1, RefusedNested, RefusedDirect
<1>12. ASSUME Fail PROVE IInv'  BY <1>12, FailIInv
<1>13. ASSUME NEW p \in Slot, NEW q \in Slot, Succeed(<<p, q>>) PROVE IInv'
  <2>1. call.nested \/ ~call.nested  OBVIOUS
  <2> QED  BY <1>13, <2>1, SucceedNested, SucceedDirect
<1> QED
  BY <1>1, <1>2, <1>3, <1>4, <1>5, <1>6, <1>7, <1>8, <1>9, <1>10, <1>11, <1>12, <1>13 DEF Next

-----------------------------------------------------------------------------
(* What follows from the invariant.                                              *)

LEMMA IInvTypeOK == ASSUME IInv PROVE TypeOK
BY DEF IInv, Sound, TypeOK

\* What is in flight flies, unless the call has failed and given it back.
LEMMA InFlightFlying ==
    ASSUME IInv, NEW w \in InFlight
    PROVE  w \in Flying(call) \/ (w \in Inst /\ wrap[w].st = "ready")
<1>1. call \in Call /\ CallSound(alive, wrap, call) /\ call.nested  
  BY DEF IInv, Sound, InFlight
<1>2. CASE call.pc = "cast"  BY <1>1, <1>2 DEF InFlight, Flying
<1>3. CASE call.pc = "idle"  BY <1>1, <1>3 DEF CallSound, NoCall
<1>4. CASE call.pc = "failed"
  <2>1. Len(call.args) = 2 /\ call.i \in 1..3  BY <1>1, <1>4 DEF CallSound
  <2>2. PICK j \in 1 .. (call.i - 1) : w = call.args[j]  BY <1>1 DEF InFlight
  <2>3. j \in 1..2  BY <2>1, <2>2
  <2> QED  BY <1>1, <1>4, <2>1, <2>2, <2>3, ArgsInst DEF CallSound
<1> QED  BY <1>1, <1>2, <1>3, <1>4 DEF Call

LEMMA IInvOneOwner == ASSUME ConstantsApart, IInv PROVE OneOwner
<1> DEFINE fl == Flying(call)
<1>1. Sound(alive, wrap, ptrs, call) /\ alive \subseteq Heap \cup Inst  BY Parts DEF IInv
<1>2. ASSUME NEW w \in Inst, wrap[w].destruct \/ w \in InFlight
      PROVE  (wrap[w].destruct \/ w \in fl) /\ wrap[w].addr \in alive /\ wrap[w].st # "none"
  <2>1. WrapSound(alive, wrap, w) /\ call \in Call /\ CallSound(alive, wrap, call)
    BY <1>1, Parts
  <2>2. wrap[w].destruct \/ w \in fl
    BY <1>2, <2>1, InFlightFlying DEF WrapSound
  <2>3. CASE wrap[w].destruct  BY <2>1, <2>2, <2>3 DEF WrapSound, NoInst
  <2>4. CASE w \in fl  BY <2>1, <2>4, FlyingTaken
  <2> QED  BY <2>2, <2>3, <2>4
<1>3. ASSUME NEW w \in fl PROVE w \in Inst /\ w \in InFlight
  <2>1. call \in Call /\ CallSound(alive, wrap, call)  BY <1>1, Parts
  <2> QED  BY <2>1, FlyingTaken DEF Flying, InFlight
<1>4. ASSUME NEW a \in Heap \cup Inst
      PROVE  Cardinality(Owners(a)) = IF a \in alive THEN 1 ELSE 0
  <2>1. \A x : x \in Owners(a) <=>
               \/ x \in Slot /\ ptrs[x] = [addr |-> a, by |-> Cpp]
               \/ x \in Inst /\ wrap[x].addr = a /\ (wrap[x].destruct \/ x \in InFlight)
    BY DEF Owners
  <2>2. CASE a \notin alive
    <3>1. \A p \in Slot : ptrs[p] # [addr |-> a, by |-> Cpp]
      <4> SUFFICES ASSUME NEW p \in Slot, ptrs[p] = [addr |-> a, by |-> Cpp] PROVE FALSE
          OBVIOUS
      <4>1. ptrs[p] # NoPtr /\ ptrs[p].addr = a  BY DEF NoPtr, ConstantsApart
      <4> QED  BY <4>1, <1>1, <2>2, PtrAlive
    <3>2. Owners(a) = {}  BY <2>1, <2>2, <3>1, <1>2
    <3> QED  BY <2>2, <3>2, FS_EmptySet
  <2>3. CASE a \in alive
    <3>1. \/ \E p \in Slot : ptrs[p].addr = a /\ ptrs[p].by = Cpp
          \/ \E w \in Inst : wrap[w].addr = a /\ (wrap[w].destruct \/ w \in fl)
      BY <2>3, <1>1, Parts DEF Owned
    <3>2. \A p \in Slot : ptrs[p].addr = a /\ ptrs[p].by = Cpp
                          <=> ptrs[p] = [addr |-> a, by |-> Cpp]
      BY <1>1, Parts DEF UniquePtr
    <3>3. ASSUME NEW p \in Slot, ptrs[p].addr = a, ptrs[p].by = Cpp
          PROVE  Owners(a) = {p}
      <4>1. ptrs[p] # NoPtr  BY <3>3, <1>1, Parts DEF NoPtr, ConstantsApart
      <4>2. \A x \in Slot : ptrs[x].addr = a => x = p
        BY <3>3, <4>1, <1>1, Parts DEF OnePointer
      <4>3. \A w \in Inst : wrap[w].addr = a => ~wrap[w].destruct /\ w \notin fl
        <5>1. PtrSound(alive, wrap, ptrs, fl, p)  BY <1>1, Parts
        <5> QED  BY <5>1, <4>1, <3>3 DEF PtrSound, ByCpp, ByPython, ConstantsApart
      <4>4. \A w \in Inst : wrap[w].addr = a => ~wrap[w].destruct /\ w \notin InFlight
        BY <4>3, <1>2
      <4> QED  BY <2>1, <3>2, <3>3, <4>2, <4>4
    <3>4. ASSUME NEW w \in Inst, wrap[w].addr = a, wrap[w].destruct \/ w \in fl,
                 \A p \in Slot : ~(ptrs[p].addr = a /\ ptrs[p].by = Cpp)
          PROVE  Owners(a) = {w}
      <4>1. wrap[w].destruct \/ w \in InFlight  BY <3>4, <1>3
      <4>2. wrap[w].st # "none"  BY <4>1, <1>2
      <4>3. \A x \in Inst : wrap[x].addr = a => x = w
        BY <3>4, <4>2, <1>1, Parts DEF OneInstance
      <4> QED  BY <2>1, <3>2, <3>4, <4>1, <4>3
    <3>5. \E x : Owners(a) = {x}  BY <3>1, <3>3, <3>4
    <3> QED  BY <2>3, <3>5, FS_Singleton
  <2> QED  BY <2>2, <2>3
<1> QED  BY <1>4 DEF OneOwner

LEMMA IInvReady == ASSUME ConstantsApart, IInv PROVE ReadyExclusive
<1> SUFFICES ASSUME NEW w \in Inst, wrap[w].st = "ready"
             PROVE  /\ wrap[w].addr \in alive
                    /\ \A p \in Slot : ptrs[p].addr # wrap[w].addr
    BY DEF ReadyExclusive
<1>1. Sound(alive, wrap, ptrs, call) /\ WrapSound(alive, wrap, w)  BY DEF IInv, Sound
<1>2. wrap[w].addr \in alive /\ wrap[w].addr # Nil
  BY <1>1, Parts DEF WrapSound, ConstantsApart
<1>3. \A p \in Slot : ptrs[p].addr = wrap[w].addr => ptrs[p] = NoPtr  BY <1>1, NoPtrTo
<1> QED  BY <1>2, <1>3 DEF NoPtr

LEMMA IInvFailed == ASSUME IInv PROVE FailedCallGivesBack
<1> SUFFICES ASSUME call.pc = "failed", call.nested, NEW w \in Range(call.args)
             PROVE  wrap[w].st = "ready" /\ wrap[w].destruct
    BY DEF FailedCallGivesBack
<1>1. call \in Call /\ CallSound(alive, wrap, call) /\ \A x \in Inst : WrapSound(alive, wrap, x)
  BY DEF IInv, Sound
<1>2. Len(call.args) = 2 /\ \A j \in 1..2 : wrap[call.args[j]].st = "ready"
  BY <1>1 DEF CallSound
<1>3. w \in Inst /\ wrap[w].st = "ready"  BY <1>1, <1>2, ArgsInst
<1> QED  BY <1>1, <1>3 DEF WrapSound

\* The invariant holds in every state, if functions return no references to objects that
\* unique pointers own (with them, a run shows a check of nb_type_put_unique_finalize()
\* fail: nb_type.cpp:2451-2487).
THEOREM Invariant ==
    ASSUME ConstantsApart, ~Alias PROVE Spec => []IInv
<1>1. Init => IInv  BY InitIInv
<1>2. IInv /\ [Next]_ownershipVars => IInv'  BY StepIInv
<1> QED  BY <1>1, <1>2, PTL DEF Spec

\* The variables have their types.
THEOREM TypeCorrect == ASSUME ConstantsApart, ~Alias PROVE Spec => []TypeOK
<1>1. IInv => TypeOK  BY IInvTypeOK
<1> QED  BY <1>1, Invariant, PTL

\* Every object has exactly one owner that will destroy it, on either side of the
\* language border or in the call that passes it, and what is dead has none
\* (nb_type.cpp:2369-2558).
THEOREM OwnedByOne == ASSUME ConstantsApart, ~Alias PROVE Spec => []OneOwner
<1>1. IInv => OneOwner  BY IInvOneOwner
<1> QED  BY <1>1, Invariant, PTL

\* What Python can use is alive and no C++ pointer refers to it (nb_type.cpp:2413-2449).
THEOREM PythonExcludesCpp == ASSUME ConstantsApart, ~Alias PROVE Spec => []ReadyExclusive
<1>1. IInv => ReadyExclusive  BY IInvReady
<1> QED  BY <1>1, Invariant, PTL

\* A call that fails half way leaves its arguments as they were (stl/unique_ptr.h:89-100).
THEOREM FailureUndone == ASSUME ConstantsApart, ~Alias PROVE Spec => []FailedCallGivesBack
<1>1. IInv => FailedCallGivesBack  BY IInvFailed
<1> QED  BY <1>1, Invariant, PTL

\* The flags of an instance are the expected ones whenever a unique_ptr is returned, so
\* that the process never ends there (nb_type.cpp:2451-2487).
THEOREM ReturnNeverFails == ASSUME ConstantsApart, ~Alias PROVE Spec => []ReturnWorks
<1>1. IInv => ReturnWorks  BY DEF IInv, ReturnWorks
<1> QED  BY <1>1, Invariant, PTL
=============================================================================
