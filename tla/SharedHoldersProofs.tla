------------------------- MODULE SharedHoldersProofs -------------------------
(* Proofs about SharedHolders: shared_ptrs and instances count each other, so    *)
(* that neither outlives its object and neither keeps it for ever.               *)
EXTENDS SharedHolders, FiniteSetTheorems, TLAPS

InstRec == [refs : Nat, kept : Cb \cup {None}]
BlockRec == [obj : Obj, count : Nat, deleter : {"delete", "py_decref"}, held : Nat]

\* There are finitely many control blocks, and None is nothing else.
ConstantsLegal == /\ IsFiniteSet(Cb) /\ Esft \subseteq Obj
                  /\ None \notin Cb /\ None \notin InstRec /\ None \notin BlockRec

Types == /\ life \in [Obj -> {"none", "inline", "heap", "gone"}]
         /\ inst \in [Obj -> InstRec \cup {None}] /\ user \in [Obj -> Nat]
         /\ cb \in [Cb -> BlockRec \cup {None}] /\ weak \in [Obj -> Cb \cup {None}]
         /\ alive \in BOOLEAN

\* The shared_ptrs made from the instance of an object: each owns a reference to it.
PyBlocks(blocks, o) ==
    {c \in Cb : blocks[c] # None /\ blocks[c].obj = o /\ blocks[c].deleter = "py_decref"}

\* While the interpreter runs, references to instances are those of the program and
\* those of shared_ptrs; afterwards none are given back.
InstCounted(o) ==
    /\ inst[o] = None => user[o] = 0 /\ PyBlocks(cb, o) = {}
    /\ inst[o] # None => /\ inst[o].refs >= 1
                         /\ inst[o].refs >= user[o] + Cardinality(PyBlocks(cb, o))
                         /\ alive => inst[o].refs = user[o] + Cardinality(PyBlocks(cb, o))

\* An instance contains its object, or keeps the shared_ptr that C++ made it with.
KeepsHeap(o) == /\ life[o] = "heap" /\ inst[o].kept \in Cb /\ cb[inst[o].kept] # None
                /\ cb[inst[o].kept].obj = o /\ cb[inst[o].kept].deleter = "delete"
LifeSound(o) ==
    /\ inst[o] # None => (life[o] = "inline" /\ inst[o].kept = None) \/ KeepsHeap(o)
    /\ life[o] = "inline" => inst[o] # None
    /\ life[o] = "heap" =>
          \E c \in Cb : cb[c] # None /\ cb[c].obj = o /\ cb[c].deleter = "delete"

KeptBy(c) == inst[cb[c].obj] # None /\ inst[cb[c].obj].kept = c
BlockSound(c) ==
    cb[c] # None =>
        /\ cb[c].count = IF KeptBy(c) THEN cb[c].held + 1 ELSE cb[c].held
        /\ cb[c].deleter = "delete" => life[cb[c].obj] = "heap"
        /\ life[cb[c].obj] # "none"

OneDeleter ==
    \A c, d \in Cb : /\ cb[c] # None /\ cb[c].deleter = "delete"
                     /\ cb[d] # None /\ cb[d].deleter = "delete"
                     /\ cb[c].obj = cb[d].obj
                     => c = d

\* weak_this of an object names a control block of that object: the live one, if any.
WeakSound(o) ==
    /\ weak[o] # None => cb[weak[o]] # None /\ cb[weak[o]].obj = o
    /\ o \in Esft => \A c \in Cb : Live(c) /\ cb[c].obj = o => weak[o] = c

IInv == /\ Types
        /\ \A o \in Obj : InstCounted(o) /\ LifeSound(o) /\ WeakSound(o)
        /\ \A c \in Cb : BlockSound(c)
        /\ OneDeleter

-----------------------------------------------------------------------------
(* The references that shared_ptrs own.                                          *)

LEMMA PyBlocksFinite ==
    ASSUME ConstantsLegal, NEW blocks, NEW o
    PROVE  IsFiniteSet(PyBlocks(blocks, o)) /\ Cardinality(PyBlocks(blocks, o)) \in Nat
<1>1. PyBlocks(blocks, o) \subseteq Cb  BY DEF PyBlocks
<1> QED  BY <1>1, FS_Subset, FS_CardinalityType DEF ConstantsLegal

\* Control blocks that stay as they are, but for their counts.
LEMMA PyBlocksSame ==
    ASSUME NEW b1, NEW b2, NEW o,
           \A c \in Cb : /\ b1[c] # None <=> b2[c] # None
                         /\ b1[c] # None => b1[c].obj = b2[c].obj /\ b1[c].deleter = b2[c].deleter
    PROVE  PyBlocks(b2, o) = PyBlocks(b1, o)
BY DEF PyBlocks

\* A new control block.
LEMMA PyBlocksAdd ==
    ASSUME ConstantsLegal, NEW b1, NEW b2, NEW c \in Cb, b1[c] = None, b2[c] # None,
           \A d \in Cb : d # c => b2[d] = b1[d], NEW o
    PROVE  /\ b2[c].obj = o /\ b2[c].deleter = "py_decref" =>
                 Cardinality(PyBlocks(b2, o)) = Cardinality(PyBlocks(b1, o)) + 1
           /\ b2[c].obj # o \/ b2[c].deleter # "py_decref" =>
                 PyBlocks(b2, o) = PyBlocks(b1, o)
<1>1. CASE b2[c].obj = o /\ b2[c].deleter = "py_decref"
  <2>1. PyBlocks(b2, o) = PyBlocks(b1, o) \cup {c} /\ c \notin PyBlocks(b1, o)
    BY <1>1 DEF PyBlocks
  <2> QED  BY <1>1, <2>1, PyBlocksFinite, FS_AddElement
<1>2. CASE b2[c].obj # o \/ b2[c].deleter # "py_decref"
  <2>1. PyBlocks(b2, o) = PyBlocks(b1, o)  BY <1>2 DEF PyBlocks
  <2> QED  BY <1>2, <2>1
<1> QED  BY <1>1, <1>2

\* A control block that is freed.
LEMMA PyBlocksRemove ==
    ASSUME ConstantsLegal, NEW b1, NEW b2, NEW c \in Cb, b1[c] # None, b2[c] = None,
           \A d \in Cb : d # c => b2[d] = b1[d], NEW o
    PROVE  /\ b1[c].obj = o /\ b1[c].deleter = "py_decref" =>
                 Cardinality(PyBlocks(b1, o)) = Cardinality(PyBlocks(b2, o)) + 1
           /\ b1[c].obj # o \/ b1[c].deleter # "py_decref" =>
                 PyBlocks(b2, o) = PyBlocks(b1, o)
<1>1. \A d \in Cb : d # c => b1[d] = b2[d]  OBVIOUS
<1> QED  BY <1>1, PyBlocksAdd

\* No reference, no shared_ptr that owns one.
LEMMA PyBlocksZero ==
    ASSUME ConstantsLegal, NEW blocks, NEW o, Cardinality(PyBlocks(blocks, o)) = 0
    PROVE  PyBlocks(blocks, o) = {}
BY PyBlocksFinite, FS_EmptySet

-----------------------------------------------------------------------------
(* The actions.                                                                  *)

LEMMA Parts ==
    ASSUME IInv
    PROVE  /\ life \in [Obj -> {"none", "inline", "heap", "gone"}]
           /\ inst \in [Obj -> InstRec \cup {None}] /\ user \in [Obj -> Nat]
           /\ cb \in [Cb -> BlockRec \cup {None}] /\ weak \in [Obj -> Cb \cup {None}]
           /\ alive \in BOOLEAN
           /\ \A o \in Obj : InstCounted(o) /\ LifeSound(o) /\ WeakSound(o)
           /\ \A c \in Cb : BlockSound(c)
           /\ OneDeleter
BY DEF IInv, Types

\* What an instance, or a control block, that is there looks like.
LEMMA Records ==
    ASSUME ConstantsLegal, IInv
    PROVE  /\ \A o \in Obj : inst[o] # None =>
                 inst[o] \in InstRec /\ inst[o].refs \in Nat /\ inst[o].kept \in Cb \cup {None}
           /\ \A c \in Cb : cb[c] # None =>
                 /\ cb[c] \in BlockRec /\ cb[c].obj \in Obj /\ cb[c].count \in Nat
                 /\ cb[c].held \in Nat /\ cb[c].deleter \in {"delete", "py_decref"}
<1>1. ASSUME NEW o \in Obj, inst[o] # None
      PROVE  inst[o] \in InstRec /\ inst[o].refs \in Nat /\ inst[o].kept \in Cb \cup {None}
  <2>1. inst[o] \in InstRec  BY <1>1, Parts
  <2> QED  BY <2>1 DEF InstRec
<1>2. ASSUME NEW c \in Cb, cb[c] # None
      PROVE  /\ cb[c] \in BlockRec /\ cb[c].obj \in Obj /\ cb[c].count \in Nat
             /\ cb[c].held \in Nat /\ cb[c].deleter \in {"delete", "py_decref"}
  <2>1. cb[c] \in BlockRec  BY <1>2, Parts
  <2> QED  BY <2>1 DEF BlockRec
<1> QED  BY <1>1, <1>2

\* A control block that owns a reference belongs to an instance that is there.
LEMMA OwnsReference ==
    ASSUME ConstantsLegal, IInv, NEW c \in Cb, cb[c] # None, cb[c].deleter = "py_decref"
    PROVE  inst[cb[c].obj] # None
<1>1. cb[c].obj \in Obj /\ c \in PyBlocks(cb, cb[c].obj)  BY Records DEF PyBlocks
<1> QED  BY <1>1, Parts DEF InstCounted

LEMMA InitIInv == ASSUME ConstantsLegal, Init PROVE IInv
<1>1. Types  BY DEF Init, Types
<1>2. /\ \A o \in Obj : inst[o] = None /\ user[o] = 0 /\ weak[o] = None /\ life[o] = "none"
      /\ \A c \in Cb : cb[c] = None
  BY DEF Init
<1>3. \A o \in Obj : PyBlocks(cb, o) = {}  BY <1>2 DEF PyBlocks
<1>4. \A o \in Obj : InstCounted(o) /\ LifeSound(o) /\ WeakSound(o)
  BY <1>2, <1>3 DEF InstCounted, LifeSound, WeakSound, Live
<1> QED  BY <1>1, <1>2, <1>4 DEF IInv, BlockSound, OneDeleter

LEMMA PyNewIInv == ASSUME ConstantsLegal, IInv, NEW o \in Obj, PyNew(o) PROVE IInv'
<1> DEFINE new == [refs |-> 1, kept |-> None]
<1>1. /\ alive /\ life[o] = "none" /\ life' = [life EXCEPT ![o] = "inline"]
      /\ inst' = [inst EXCEPT ![o] = new] /\ user' = [user EXCEPT ![o] = 1]
      /\ cb' = cb /\ weak' = weak /\ alive' = alive
  BY DEF PyNew
<1>2. new \in InstRec /\ new # None /\ new.refs = 1 /\ new.kept = None
  BY DEF InstRec, ConstantsLegal
<1> HIDE DEF new
<1>3. Types'  BY <1>1, <1>2, Parts DEF Types
<1>4. /\ life'[o] = "inline" /\ inst'[o] = new /\ user'[o] = 1
      /\ \A x \in Obj : x # o => life'[x] = life[x] /\ inst'[x] = inst[x] /\ user'[x] = user[x]
  BY <1>1, Parts
<1>5. \A c \in Cb : cb[c] # None => cb[c].obj # o  BY <1>1, Parts DEF BlockSound
<1>6. PyBlocks(cb, o) = {}  BY <1>5 DEF PyBlocks
<1>7. \A x \in Obj : InstCounted(x)'
  <2> SUFFICES ASSUME NEW x \in Obj PROVE InstCounted(x)'  OBVIOUS
  <2>1. CASE x = o
    BY <2>1, <1>1, <1>2, <1>4, <1>6, FS_EmptySet DEF InstCounted
  <2>2. CASE x # o
    <3>1. InstCounted(x)  BY Parts
    <3> QED  BY <2>2, <3>1, <1>1, <1>4 DEF InstCounted
  <2> QED  BY <2>1, <2>2
<1>8. \A x \in Obj : LifeSound(x)'
  <2> SUFFICES ASSUME NEW x \in Obj PROVE LifeSound(x)'  OBVIOUS
  <2>1. CASE x = o  BY <2>1, <1>2, <1>4 DEF LifeSound, KeepsHeap
  <2>2. CASE x # o
    <3>1. LifeSound(x)  BY Parts
    <3> QED  BY <2>2, <3>1, <1>1, <1>4 DEF LifeSound, KeepsHeap
  <2> QED  BY <2>1, <2>2
<1>9. \A x \in Obj : WeakSound(x)'  BY <1>1, Parts DEF WeakSound, Live
<1>10. \A c \in Cb : BlockSound(c)'
  <2> SUFFICES ASSUME NEW c \in Cb, cb[c] # None PROVE BlockSound(c)'
      BY <1>1 DEF BlockSound
  <2>1. cb[c].obj \in Obj /\ cb[c].obj # o /\ BlockSound(c)  BY <1>5, Parts, Records
  <2> QED  BY <2>1, <1>1, <1>4 DEF BlockSound, KeptBy
<1>11. OneDeleter'  BY <1>1, Parts DEF OneDeleter
<1> QED  BY <1>3, <1>7, <1>8, <1>9, <1>10, <1>11 DEF IInv

\* weak_this after a new control block of an object.
LEMMA JoinedSound ==
    ASSUME ConstantsLegal, IInv, NEW o \in Obj, NEW c \in Cb, cb[c] = None,
           NEW b, b \in BlockRec, b.obj = o, cb' = [cb EXCEPT ![c] = b],
           weak' = Joined(o, c),
           o \in Esft => ~Live(weak[o])
    PROVE  /\ \A x \in Obj : WeakSound(x)'
           /\ weak' \in [Obj -> Cb \cup {None}] /\ cb' \in [Cb -> BlockRec \cup {None}]
           /\ cb'[c] = b /\ b # None /\ \A d \in Cb : d # c => cb'[d] = cb[d]
<1>1. cb'[c] = b /\ \A d \in Cb : d # c => cb'[d] = cb[d]  BY Parts
<1>2. b # None  BY DEF ConstantsLegal
<1>3. weak' \in [Obj -> Cb \cup {None}] /\ cb' \in [Cb -> BlockRec \cup {None}]
  BY Parts DEF Joined
<1>4. \A x \in Obj : x # o => weak'[x] = weak[x]  BY Parts DEF Joined
<1>5. weak'[o] = IF o \in Esft THEN c ELSE weak[o]  BY Parts DEF Joined
<1>6. \A x \in Obj : weak[x] # c  BY Parts DEF WeakSound, ConstantsLegal
<1>7. \A d \in Cb : d # c => (Live(d)' <=> Live(d))  BY <1>1 DEF Live
<1>8. ASSUME NEW x \in Obj PROVE WeakSound(x)'
  <2>1. WeakSound(x) /\ weak[x] \in Cb \cup {None}  BY Parts
  <2>2. CASE x # o
    <3>1. weak'[x] = weak[x] /\ weak[x] # c  BY <2>2, <1>4, <1>6
    <3>2. weak'[x] # None => cb'[weak'[x]] # None /\ cb'[weak'[x]].obj = x
      BY <2>1, <3>1, <1>1 DEF WeakSound
    <3>3. ASSUME x \in Esft, NEW d \in Cb, Live(d)', cb'[d].obj = x PROVE weak'[x] = d
      <4>1. d # c  BY <2>2, <3>3, <1>1
      <4> QED  BY <4>1, <2>1, <3>1, <3>3, <1>1, <1>7 DEF WeakSound
    <3> QED  BY <3>2, <3>3 DEF WeakSound
  <2>3. CASE x = o /\ o \notin Esft
    <3>1. weak'[x] = weak[x] /\ weak[x] # c  BY <2>3, <1>5, <1>6
    <3> QED  BY <2>1, <2>3, <3>1, <1>1 DEF WeakSound
  <2>4. CASE x = o /\ o \in Esft
    <3>1. weak'[x] = c  BY <2>4, <1>5
    <3>2. ASSUME NEW d \in Cb, Live(d)', cb'[d].obj = x PROVE d = c
      <4>1. SUFFICES ASSUME d # c PROVE FALSE  OBVIOUS
      <4>2. Live(d) /\ cb[d].obj = o  BY <2>4, <3>2, <4>1, <1>1, <1>7
      <4> QED  BY <2>1, <2>4, <4>2 DEF WeakSound
    <3> QED  BY <2>4, <3>1, <3>2, <1>1, <1>2 DEF WeakSound
  <2> QED  BY <2>2, <2>3, <2>4
<1> QED  BY <1>1, <1>2, <1>3, <1>8

LEMMA MakeSharedIInv ==
    ASSUME ConstantsLegal, IInv, NEW o \in Obj, NEW c \in Cb, MakeShared(o, c) PROVE IInv'
<1> DEFINE b == Block(o, "delete")
<1>1. /\ life[o] = "none" /\ cb[c] = None /\ life' = [life EXCEPT ![o] = "heap"]
      /\ cb' = [cb EXCEPT ![c] = b] /\ weak' = Joined(o, c)
      /\ inst' = inst /\ user' = user /\ alive' = alive
  BY DEF MakeShared
<1>2. /\ b \in BlockRec /\ b.obj = o /\ b.count = 1 /\ b.held = 1 /\ b.deleter = "delete"
  BY DEF Block, BlockRec
<1> HIDE DEF b
<1>3. \A d \in Cb : cb[d] # None => cb[d].obj # o  BY <1>1, Parts DEF BlockSound
<1>4. ~Live(weak[o])  BY <1>3, Parts DEF Live, WeakSound
<1>5. /\ \A x \in Obj : WeakSound(x)'
      /\ weak' \in [Obj -> Cb \cup {None}] /\ cb' \in [Cb -> BlockRec \cup {None}]
      /\ cb'[c] = b /\ b # None /\ \A d \in Cb : d # c => cb'[d] = cb[d]
  BY <1>1, <1>2, <1>4, JoinedSound
<1>6. life'[o] = "heap" /\ \A x \in Obj : x # o => life'[x] = life[x]  BY <1>1, Parts
<1>7. Types'  BY <1>1, <1>5, Parts DEF Types
<1>8. inst[o] = None  BY <1>1, Parts DEF LifeSound, KeepsHeap
<1>9. ASSUME NEW x \in Obj PROVE PyBlocks(cb', x) = PyBlocks(cb, x)
  <2>1. cb'[c] # None /\ cb'[c].deleter # "py_decref"  BY <1>2, <1>5
  <2>2. PyBlocks(cb', x) = PyBlocks(cb, x)
    BY <2>1, <1>1, <1>5 DEF PyBlocks
  <2> QED  BY <2>2
<1>10. \A x \in Obj : InstCounted(x)'
  <2> SUFFICES ASSUME NEW x \in Obj PROVE InstCounted(x)'  OBVIOUS
  <2>1. InstCounted(x)  BY Parts
  <2> QED  BY <2>1, <1>1, <1>9 DEF InstCounted
<1>11. \A x \in Obj : LifeSound(x)'
  <2> SUFFICES ASSUME NEW x \in Obj PROVE LifeSound(x)'  OBVIOUS
  <2>1. LifeSound(x)  BY Parts
  <2>2. CASE x = o  BY <2>2, <1>1, <1>2, <1>5, <1>6, <1>8 DEF LifeSound
  <2>3. CASE x # o
    <3>1. inst[x] # None => (life[x] = "inline" /\ inst[x].kept = None) \/ KeepsHeap(x)
      BY <2>1 DEF LifeSound
    <3>2. KeepsHeap(x) => KeepsHeap(x)'  BY <2>3, <1>1, <1>5, <1>6 DEF KeepsHeap
    <3>3. life[x] = "heap" =>
            \E d \in Cb : cb'[d] # None /\ cb'[d].obj = x /\ cb'[d].deleter = "delete"
      BY <2>1, <1>1, <1>5 DEF LifeSound
    <3> QED  BY <2>1, <2>3, <3>1, <3>2, <3>3, <1>1, <1>6 DEF LifeSound
  <2> QED  BY <2>2, <2>3
<1>12. \A d \in Cb : BlockSound(d)'
  <2> SUFFICES ASSUME NEW d \in Cb PROVE BlockSound(d)'  OBVIOUS
  <2>1. CASE d = c  BY <2>1, <1>1, <1>2, <1>5, <1>6, <1>8 DEF BlockSound, KeptBy
  <2>2. CASE d # c
    <3>1. BlockSound(d) /\ cb'[d] = cb[d]  BY <2>2, <1>5, Parts
    <3>2. cb[d] # None => cb[d].obj \in Obj /\ cb[d].obj # o  BY <1>3, Records
    <3> QED  BY <3>1, <3>2, <1>1, <1>6 DEF BlockSound, KeptBy
  <2> QED  BY <2>1, <2>2
<1>13. OneDeleter'
  <2>1. OneDeleter  BY Parts
  <2> QED  BY <2>1, <1>2, <1>3, <1>5 DEF OneDeleter
<1> QED  BY <1>5, <1>7, <1>10, <1>11, <1>12, <1>13 DEF IInv

\* Control blocks that change in their counts alone, by the same amount.
LEMMA CountsMove ==
    ASSUME ConstantsLegal, IInv, NEW c \in Cb, cb[c] # None,
           NEW b, b \in BlockRec, b.obj = cb[c].obj, b.deleter = cb[c].deleter,
           cb' = [cb EXCEPT ![c] = b],
           b.count > 0 => cb[c].count > 0,
           UNCHANGED <<life, weak>>
    PROVE  /\ cb' \in [Cb -> BlockRec \cup {None}]
           /\ cb'[c] = b /\ b # None /\ \A d \in Cb : d # c => cb'[d] = cb[d]
           /\ \A x \in Obj : PyBlocks(cb', x) = PyBlocks(cb, x)
           /\ \A x \in Obj : WeakSound(x)' /\ (KeepsHeap(x) /\ inst'[x] = inst[x] => KeepsHeap(x)')
           /\ \A x \in Obj : life[x] = "heap" =>
                 \E d \in Cb : cb'[d] # None /\ cb'[d].obj = x /\ cb'[d].deleter = "delete"
           /\ OneDeleter'
<1>1. /\ cb' \in [Cb -> BlockRec \cup {None}]
      /\ cb'[c] = b /\ b # None /\ \A d \in Cb : d # c => cb'[d] = cb[d]
  BY Parts DEF ConstantsLegal
<1>2. \A d \in Cb : /\ cb'[d] # None <=> cb[d] # None
                    /\ cb[d] # None => cb'[d].obj = cb[d].obj /\ cb'[d].deleter = cb[d].deleter
  BY <1>1
<1>3. \A x \in Obj : PyBlocks(cb', x) = PyBlocks(cb, x)  BY <1>2 DEF PyBlocks
<1>4. \A d \in Cb : Live(d)' => Live(d)  BY <1>1 DEF Live
<1>5. \A x \in Obj : WeakSound(x)'
  <2> SUFFICES ASSUME NEW x \in Obj PROVE WeakSound(x)'  OBVIOUS
  <2>1. WeakSound(x) /\ weak'[x] = weak[x] /\ weak[x] \in Cb \cup {None}  BY Parts
  <2>2. weak[x] # None => cb'[weak[x]] # None /\ cb'[weak[x]].obj = x
    BY <2>1, <1>2 DEF WeakSound
  <2>3. ASSUME x \in Esft, NEW d \in Cb, Live(d)', cb'[d].obj = x PROVE weak[x] = d
    <3>1. Live(d) /\ cb[d] # None /\ cb[d].obj = x  BY <2>3, <1>2, <1>4 DEF Live
    <3> QED  BY <2>1, <2>3, <3>1 DEF WeakSound
  <2> QED  BY <2>1, <2>2, <2>3 DEF WeakSound
<1>6. \A x \in Obj : KeepsHeap(x) /\ inst'[x] = inst[x] => KeepsHeap(x)'
  BY <1>2 DEF KeepsHeap
<1>7. \A x \in Obj : life[x] = "heap" =>
         \E d \in Cb : cb'[d] # None /\ cb'[d].obj = x /\ cb'[d].deleter = "delete"
  BY <1>2, Parts DEF LifeSound
<1>8. OneDeleter'
  <2>1. OneDeleter  BY Parts
  <2> QED  BY <2>1, <1>2 DEF OneDeleter
<1> QED  BY <1>1, <1>3, <1>5, <1>6, <1>7, <1>8

\* One more, or one less, shared_ptr that the program holds.
LEMMA OneMore ==
    ASSUME NEW r \in BlockRec, NEW b, b = [r EXCEPT !.count = @ + 1, !.held = @ + 1]
    PROVE  /\ b \in BlockRec /\ b.obj = r.obj /\ b.deleter = r.deleter
           /\ b.count = r.count + 1 /\ b.held = r.held + 1
<1>1. b = [obj |-> r.obj, count |-> r.count + 1, deleter |-> r.deleter, held |-> r.held + 1]
  BY DEF BlockRec
<1>2. r.obj \in Obj /\ r.count \in Nat /\ r.deleter \in {"delete", "py_decref"} /\ r.held \in Nat
  BY DEF BlockRec
<1> QED  BY <1>1, <1>2 DEF BlockRec
LEMMA OneLess ==
    ASSUME NEW r \in BlockRec, r.count > 0, r.held > 0,
           NEW b, b = [r EXCEPT !.count = @ - 1, !.held = @ - 1]
    PROVE  /\ b \in BlockRec /\ b.obj = r.obj /\ b.deleter = r.deleter
           /\ b.count = r.count - 1 /\ b.held = r.held - 1
<1>1. b = [obj |-> r.obj, count |-> r.count - 1, deleter |-> r.deleter, held |-> r.held - 1]
  BY DEF BlockRec
<1>2. r.obj \in Obj /\ r.count \in Nat /\ r.deleter \in {"delete", "py_decref"} /\ r.held \in Nat
  BY DEF BlockRec
<1> QED  BY <1>1, <1>2 DEF BlockRec

LEMMA CppDropIInv == ASSUME ConstantsLegal, IInv, NEW c \in Cb, CppDrop(c) PROVE IInv'
<1> DEFINE b == [cb[c] EXCEPT !.count = @ - 1, !.held = @ - 1]
<1>1. /\ cb[c] # None /\ cb[c].held > 0
      /\ cb' = [cb EXCEPT ![c].count = @ - 1, ![c].held = @ - 1]
      /\ UNCHANGED <<life, inst, user, weak, alive>>
  BY DEF CppDrop
<1>2. cb[c] \in BlockRec /\ cb[c].held \in Nat /\ cb[c].count \in Nat  BY <1>1, Records
<1>3. BlockSound(c) /\ cb[c].count >= cb[c].held  BY <1>1, <1>2, Parts DEF BlockSound
<1>4. /\ b \in BlockRec /\ b.obj = cb[c].obj /\ b.deleter = cb[c].deleter
      /\ b.count = cb[c].count - 1 /\ b.held = cb[c].held - 1
  <2>1. cb[c].count > 0  BY <1>1, <1>2, <1>3
  <2> HIDE DEF b
  <2>2. b = [cb[c] EXCEPT !.count = @ - 1, !.held = @ - 1]  BY DEF b
  <2> QED  BY <1>1, <1>2, <2>1, <2>2, OneLess
<1>5. cb' = [cb EXCEPT ![c] = b]  BY <1>1, Parts
<1> HIDE DEF b
<1>6. b.count > 0 => cb[c].count > 0  BY <1>2, <1>4
<1>7. /\ cb' \in [Cb -> BlockRec \cup {None}]
      /\ cb'[c] = b /\ b # None /\ \A d \in Cb : d # c => cb'[d] = cb[d]
      /\ \A x \in Obj : PyBlocks(cb', x) = PyBlocks(cb, x)
      /\ \A x \in Obj : WeakSound(x)' /\ (KeepsHeap(x) /\ inst'[x] = inst[x] => KeepsHeap(x)')
      /\ \A x \in Obj : life[x] = "heap" =>
            \E d \in Cb : cb'[d] # None /\ cb'[d].obj = x /\ cb'[d].deleter = "delete"
      /\ OneDeleter'
  BY <1>1, <1>4, <1>5, <1>6, CountsMove
<1>8. Types'  BY <1>1, <1>7, Parts DEF Types
<1>9. \A x \in Obj : InstCounted(x)'  BY <1>1, <1>7, Parts DEF InstCounted
<1>10. \A x \in Obj : LifeSound(x)'  BY <1>1, <1>7, Parts DEF LifeSound
<1>11. \A d \in Cb : BlockSound(d)'
  <2> SUFFICES ASSUME NEW d \in Cb PROVE BlockSound(d)'  OBVIOUS
  <2>1. BlockSound(d)  BY Parts
  <2>2. CASE d = c  BY <2>1, <2>2, <1>1, <1>2, <1>4, <1>7 DEF BlockSound, KeptBy
  <2>3. CASE d # c  BY <2>1, <2>3, <1>1, <1>7 DEF BlockSound, KeptBy
  <2> QED  BY <2>2, <2>3
<1> QED  BY <1>7, <1>8, <1>9, <1>10, <1>11 DEF IInv

LEMMA FromPythonIInv ==
    ASSUME ConstantsLegal, IInv, NEW o \in Obj, NEW c \in Cb, FromPython(o, c) PROVE IInv'
<1>1. alive /\ inst[o] # None /\ user[o] > 0 /\ UNCHANGED <<life, user, alive>>
  BY DEF FromPython, HasInst
<1>2. inst[o] \in InstRec /\ inst[o].refs \in Nat  BY <1>1, Records
<1>3. CASE Find(o)
  <2> DEFINE k == weak[o]
             b == [cb[k] EXCEPT !.count = @ + 1, !.held = @ + 1]
  <2>1. /\ k \in Cb /\ cb[k] # None /\ cb[k].count > 0
        /\ cb' = [cb EXCEPT ![k].count = @ + 1, ![k].held = @ + 1]
        /\ inst' = inst /\ weak' = weak
    BY <1>3, Parts DEF FromPython, Find, Live
  <2>2. cb[k] \in BlockRec /\ cb[k].held \in Nat /\ cb[k].count \in Nat  BY <2>1, Records
  <2>3. BlockSound(k)  BY <2>1, Parts
  <2>4. /\ b \in BlockRec /\ b.obj = cb[k].obj /\ b.deleter = cb[k].deleter
        /\ b.count = cb[k].count + 1 /\ b.held = cb[k].held + 1
    BY <2>2, OneMore
  <2>5. cb' = [cb EXCEPT ![k] = b]  BY <2>1, Parts
  <2> HIDE DEF b, k
  <2>7. /\ cb' \in [Cb -> BlockRec \cup {None}]
        /\ cb'[k] = b /\ b # None /\ \A d \in Cb : d # k => cb'[d] = cb[d]
        /\ \A x \in Obj : PyBlocks(cb', x) = PyBlocks(cb, x)
        /\ \A x \in Obj : WeakSound(x)' /\ (KeepsHeap(x) /\ inst'[x] = inst[x] => KeepsHeap(x)')
        /\ \A x \in Obj : life[x] = "heap" =>
              \E d \in Cb : cb'[d] # None /\ cb'[d].obj = x /\ cb'[d].deleter = "delete"
        /\ OneDeleter'
    BY <1>1, <2>1, <2>4, <2>5, CountsMove
  <2>8. Types'  BY <1>1, <2>1, <2>7, Parts DEF Types
  <2>9. \A x \in Obj : InstCounted(x)'  BY <1>1, <2>1, <2>7, Parts DEF InstCounted
  <2>10. \A x \in Obj : LifeSound(x)'  BY <1>1, <2>1, <2>7, Parts DEF LifeSound
  <2>11. \A d \in Cb : BlockSound(d)'
    <3> SUFFICES ASSUME NEW d \in Cb PROVE BlockSound(d)'  OBVIOUS
    <3>1. BlockSound(d)  BY Parts
    <3>2. CASE d = k  BY <3>1, <3>2, <1>1, <2>1, <2>2, <2>4, <2>7 DEF BlockSound, KeptBy
    <3>3. CASE d # k  BY <3>1, <3>3, <1>1, <2>1, <2>7 DEF BlockSound, KeptBy
    <3> QED  BY <3>2, <3>3
  <2> QED  BY <2>7, <2>8, <2>9, <2>10, <2>11 DEF IInv
<1>4. CASE ~Find(o)
  <2> DEFINE b == Block(o, "py_decref")
             i == [inst[o] EXCEPT !.refs = @ + 1]
  <2>1. /\ cb[c] = None /\ cb' = [cb EXCEPT ![c] = b]
        /\ inst' = [inst EXCEPT ![o].refs = @ + 1] /\ weak' = Joined(o, c)
    BY <1>4 DEF FromPython
  <2>2. /\ b \in BlockRec /\ b.obj = o /\ b.count = 1 /\ b.held = 1 /\ b.deleter = "py_decref"
    BY DEF Block, BlockRec
  <2>3. i \in InstRec /\ i.refs = inst[o].refs + 1 /\ i.kept = inst[o].kept  BY <1>2 DEF InstRec
  <2>4. inst' = [inst EXCEPT ![o] = i]  BY <2>1, Parts
  <2> HIDE DEF b, i
  <2>5. o \in Esft => ~Live(weak[o])  BY <1>4 DEF Find
  <2>6. /\ \A x \in Obj : WeakSound(x)'
        /\ weak' \in [Obj -> Cb \cup {None}] /\ cb' \in [Cb -> BlockRec \cup {None}]
        /\ cb'[c] = b /\ b # None /\ \A d \in Cb : d # c => cb'[d] = cb[d]
    BY <2>1, <2>2, <2>5, JoinedSound
  <2>7. inst'[o] = i /\ i # None /\ \A x \in Obj : x # o => inst'[x] = inst[x]
    BY <2>3, <2>4, Parts DEF ConstantsLegal
  <2>8. Types'
    <3>1. inst' \in [Obj -> InstRec \cup {None}]  BY <2>3, <2>4, Parts
    <3> QED  BY <3>1, <1>1, <2>6, Parts DEF Types
  <2>9. \A x \in Obj : InstCounted(x)'
    <3> SUFFICES ASSUME NEW x \in Obj PROVE InstCounted(x)'  OBVIOUS
    <3>1. InstCounted(x) /\ Cardinality(PyBlocks(cb, x)) \in Nat /\ user[x] \in Nat
      BY Parts, PyBlocksFinite
    <3>2. /\ cb'[c].obj = x /\ cb'[c].deleter = "py_decref" =>
                Cardinality(PyBlocks(cb', x)) = Cardinality(PyBlocks(cb, x)) + 1
          /\ cb'[c].obj # x \/ cb'[c].deleter # "py_decref" =>
                PyBlocks(cb', x) = PyBlocks(cb, x)
      <4>1. cb'[c] # None /\ \A d \in Cb : d # c => cb'[d] = cb[d]  BY <2>6
      <4>2. cb[c] = None  BY <2>1
      <4> QED  BY <4>1, <4>2, PyBlocksAdd
    <3>3. CASE x = o
      BY <3>1, <3>2, <3>3, <1>1, <1>2, <2>2, <2>3, <2>6, <2>7 DEF InstCounted
    <3>4. CASE x # o
      BY <3>1, <3>2, <3>4, <1>1, <2>2, <2>6, <2>7 DEF InstCounted
    <3> QED  BY <3>3, <3>4
  <2>10. \A x \in Obj : LifeSound(x)'
    <3> SUFFICES ASSUME NEW x \in Obj PROVE LifeSound(x)'  OBVIOUS
    <3>1. LifeSound(x) /\ (inst'[x] # None <=> inst[x] # None)
          /\ (inst[x] # None => inst'[x].kept = inst[x].kept)
      BY <1>1, <2>3, <2>7, Parts
    <3>2. inst[x] # None /\ KeepsHeap(x) => KeepsHeap(x)'
      BY <3>1, <1>1, <2>1, <2>6 DEF KeepsHeap
    <3>3. life[x] = "heap" =>
             \E d \in Cb : cb'[d] # None /\ cb'[d].obj = x /\ cb'[d].deleter = "delete"
      BY <3>1, <2>1, <2>6 DEF LifeSound
    <3> QED  BY <3>1, <3>2, <3>3, <1>1 DEF LifeSound
  <2>11. \A d \in Cb : BlockSound(d)'
    <3> SUFFICES ASSUME NEW d \in Cb PROVE BlockSound(d)'  OBVIOUS
    <3>1. BlockSound(d)  BY Parts
    <3>2. CASE d = c
      <4>1. inst[o].kept # c  BY <1>1, <2>1, Parts DEF LifeSound, KeepsHeap, ConstantsLegal
      <4>2. life[o] # "none"  BY <1>1, Parts DEF LifeSound, KeepsHeap
      <4> QED  BY <3>2, <4>1, <4>2, <1>1, <2>2, <2>3, <2>6, <2>7 DEF BlockSound, KeptBy
    <3>3. CASE d # c
      <4>1. cb'[d] = cb[d]  BY <3>3, <2>6
      <4>2. cb[d] # None => (KeptBy(d)' <=> KeptBy(d))
        <5> SUFFICES ASSUME cb[d] # None PROVE KeptBy(d)' <=> KeptBy(d)  OBVIOUS
        <5>1. cb[d].obj \in Obj  BY Records
        <5> QED  BY <4>1, <5>1, <1>1, <2>3, <2>7 DEF KeptBy
      <4> QED  BY <3>1, <4>1, <4>2, <1>1 DEF BlockSound
    <3> QED  BY <3>2, <3>3
  <2>12. OneDeleter'
    <3>1. OneDeleter  BY Parts
    <3> QED  BY <3>1, <2>2, <2>6 DEF OneDeleter
  <2> QED  BY <2>6, <2>8, <2>9, <2>10, <2>11, <2>12 DEF IInv
<1> QED  BY <1>3, <1>4

LEMMA FromCppIInv == ASSUME ConstantsLegal, IInv, NEW c \in Cb, FromCpp(c) PROVE IInv'
<1> DEFINE o == cb[c].obj
           us == [user EXCEPT ![o] = @ + 1]
<1>1. /\ alive /\ cb[c] # None /\ cb[c].held > 0 /\ user' = us
      /\ UNCHANGED <<life, weak, alive>>
  BY DEF FromCpp
<1>2. cb[c] \in BlockRec /\ o \in Obj /\ cb[c].held \in Nat /\ cb[c].count \in Nat
      /\ user[o] \in Nat
  BY <1>1, Records, Parts
<1>3. /\ us \in [Obj -> Nat] /\ us[o] = user[o] + 1 /\ \A x \in Obj : x # o => us[x] = user[x]
  BY <1>2, Parts
<1>4. CASE inst[o] # None
  <2> DEFINE i == [inst[o] EXCEPT !.refs = @ + 1]
  <2>1. cb' = cb /\ inst' = [inst EXCEPT ![o].refs = @ + 1]  BY <1>4 DEF FromCpp
  <2>2. inst[o] \in InstRec /\ inst[o].refs \in Nat  BY <1>2, <1>4, Records
  <2>3. i \in InstRec /\ i.refs = inst[o].refs + 1 /\ i.kept = inst[o].kept  BY <2>2 DEF InstRec
  <2>4. inst' = [inst EXCEPT ![o] = i]  BY <2>1, Parts
  <2> HIDE DEF i
  <2>5. inst'[o] = i /\ i # None /\ \A x \in Obj : x # o => inst'[x] = inst[x]
    BY <1>2, <2>3, <2>4, Parts DEF ConstantsLegal
  <2>6. inst' \in [Obj -> InstRec \cup {None}]  BY <2>3, <2>4, Parts
  <2> HIDE DEF o, us
  <2>7. Types'  BY <1>1, <1>3, <2>1, <2>6, Parts DEF Types
  <2>8. \A x \in Obj : /\ inst'[x] # None <=> inst[x] # None
                       /\ inst[x] # None => inst'[x].kept = inst[x].kept
    BY <1>4, <2>3, <2>5
  <2>9. ASSUME NEW x \in Obj PROVE InstCounted(x)'
    <3>1. InstCounted(x) /\ Cardinality(PyBlocks(cb, x)) \in Nat /\ user[x] \in Nat
      BY Parts, PyBlocksFinite
    <3>2. CASE x = o
      BY <3>1, <3>2, <1>1, <1>3, <1>4, <2>1, <2>2, <2>3, <2>5 DEF InstCounted
    <3>3. CASE x # o  BY <3>1, <3>3, <1>1, <1>3, <2>1, <2>5 DEF InstCounted
    <3> QED  BY <3>2, <3>3
  <2>10. ASSUME NEW x \in Obj PROVE LifeSound(x)' /\ WeakSound(x)'
    <3>1. LifeSound(x) /\ WeakSound(x)  BY Parts
    <3>2. inst[x] # None /\ KeepsHeap(x) => KeepsHeap(x)'  BY <1>1, <2>1, <2>8 DEF KeepsHeap
    <3>3. WeakSound(x)'  BY <3>1, <1>1, <2>1 DEF WeakSound, Live
    <3> QED  BY <3>1, <3>2, <3>3, <1>1, <2>1, <2>8 DEF LifeSound
  <2>11. ASSUME NEW d \in Cb PROVE BlockSound(d)'
    <3>1. BlockSound(d) /\ (cb[d] # None => cb[d].obj \in Obj)  BY Parts, Records
    <3> QED  BY <3>1, <1>1, <2>1, <2>8 DEF BlockSound, KeptBy
  <2>12. OneDeleter'  BY <2>1, Parts DEF OneDeleter
  <2> QED  BY <2>7, <2>9, <2>10, <2>11, <2>12 DEF IInv
<1>5. CASE inst[o] = None
  <2> DEFINE i == [refs |-> 1, kept |-> c]
             b == [cb[c] EXCEPT !.count = @ + 1]
  <2>1. inst' = [inst EXCEPT ![o] = i] /\ cb' = [cb EXCEPT ![c].count = @ + 1]
    BY <1>5 DEF FromCpp, Kept, ConstantsLegal
  <2>2. i \in InstRec /\ i.refs = 1 /\ i.kept = c  BY DEF InstRec
  <2>3. b = [obj |-> o, count |-> cb[c].count + 1, deleter |-> cb[c].deleter, held |-> cb[c].held]
    BY <1>2 DEF BlockRec
  <2>4. /\ b \in BlockRec /\ b.obj = o /\ b.deleter = cb[c].deleter
        /\ b.count = cb[c].count + 1 /\ b.held = cb[c].held
    BY <1>2, <2>3 DEF BlockRec
  <2>5. cb' = [cb EXCEPT ![c] = b]  BY <2>1, Parts
  <2>6. BlockSound(c) /\ cb[c].count > 0  BY <1>1, <1>2, Parts DEF BlockSound
  <2>7. cb[c].deleter = "delete"  BY <1>1, <1>5, Records, OwnsReference
  <2>8. PyBlocks(cb, o) = {} /\ user[o] = 0  BY <1>2, <1>5, Parts DEF InstCounted
  <2> HIDE DEF b, i
  <2>9. inst'[o] = i /\ i # None /\ \A x \in Obj : x # o => inst'[x] = inst[x]
    BY <1>2, <2>1, <2>2, Parts DEF ConstantsLegal
  <2>10. inst' \in [Obj -> InstRec \cup {None}]  BY <2>1, <2>2, Parts
  <2>11. /\ cb' \in [Cb -> BlockRec \cup {None}]
         /\ cb'[c] = b /\ b # None /\ \A d \in Cb : d # c => cb'[d] = cb[d]
         /\ \A x \in Obj : PyBlocks(cb', x) = PyBlocks(cb, x)
         /\ \A x \in Obj : WeakSound(x)' /\ (KeepsHeap(x) /\ inst'[x] = inst[x] => KeepsHeap(x)')
         /\ \A x \in Obj : life[x] = "heap" =>
               \E d \in Cb : cb'[d] # None /\ cb'[d].obj = x /\ cb'[d].deleter = "delete"
         /\ OneDeleter'
    BY <1>1, <2>4, <2>5, <2>6, CountsMove
  <2> HIDE DEF us
  <2>12. Types'  BY <1>1, <1>3, <2>10, <2>11, Parts DEF Types
  <2>13. ASSUME NEW x \in Obj PROVE InstCounted(x)'
    <3>1. InstCounted(x)  BY Parts
    <3>2. CASE x = o
      <4>1. Cardinality(PyBlocks(cb', x)) = 0  BY <3>2, <2>8, <2>11, FS_EmptySet
      <4> QED  BY <3>2, <4>1, <1>1, <1>3, <2>2, <2>8, <2>9 DEF InstCounted
    <3>3. CASE x # o  BY <3>1, <3>3, <1>1, <1>3, <2>9, <2>11 DEF InstCounted
    <3> QED  BY <3>2, <3>3
  <2>14. life[o] = "heap"  BY <1>1, <2>6, <2>7 DEF BlockSound
  <2>15. ASSUME NEW x \in Obj PROVE LifeSound(x)'
    <3>1. LifeSound(x)  BY Parts
    <3>2. CASE x = o
      <4>1. KeepsHeap(x)'  BY <3>2, <1>1, <2>2, <2>4, <2>7, <2>9, <2>11, <2>14 DEF KeepsHeap
      <4> QED  BY <3>2, <4>1, <1>1, <2>9, <2>11, <2>14 DEF LifeSound
    <3>3. CASE x # o  BY <3>1, <3>3, <1>1, <2>9, <2>11 DEF LifeSound
    <3> QED  BY <3>2, <3>3
  <2>16. ASSUME NEW d \in Cb PROVE BlockSound(d)'
    <3>1. BlockSound(d)  BY Parts
    <3>2. CASE d = c
      BY <3>1, <3>2, <1>1, <1>2, <1>5, <2>2, <2>4, <2>9, <2>11, <2>14 DEF BlockSound, KeptBy
    <3>3. CASE d # c
      <4>1. cb'[d] = cb[d] /\ (cb[d] # None => cb[d].obj \in Obj)  BY <3>3, <2>11, Records
      <4>2. cb[d] # None => (KeptBy(d)' <=> KeptBy(d))
        BY <3>3, <4>1, <1>5, <2>2, <2>9 DEF KeptBy
      <4> QED  BY <3>1, <4>1, <4>2, <1>1 DEF BlockSound
    <3> QED  BY <3>2, <3>3
  <2> QED  BY <2>11, <2>12, <2>13, <2>15, <2>16 DEF IInv
<1> QED  BY <1>4, <1>5

\* A reference to an instance goes: one of the program, or of a control block with that.
LEMMA DecrefIInv ==
    ASSUME ConstantsLegal, IInv, alive, NEW o \in Obj, inst[o] # None,
           NEW blocks \in [Cb -> BlockRec \cup {None}],
           Decref(o, blocks), user' \in [Obj -> Nat], alive' = alive,
           weak' \in [Obj -> Cb \cup {None}],
           \A x \in Obj : x # o => user'[x] = user[x] /\ PyBlocks(blocks, x) = PyBlocks(cb, x),
           user'[o] + Cardinality(PyBlocks(blocks, o)) + 1
              = user[o] + Cardinality(PyBlocks(cb, o)),
           \A c \in Cb : blocks[c] = cb[c]
                         \/ (blocks[c] = None /\ cb[c] # None /\ cb[c].deleter = "py_decref"),
           \A x \in Obj :
              /\ weak'[x] # None => blocks[weak'[x]] # None /\ blocks[weak'[x]].obj = x
              /\ x \in Esft => \A c \in Cb : blocks[c] # None /\ blocks[c].count > 0 /\ blocks[c].obj = x
                                             => weak'[x] = c
    PROVE  IInv'
<1>1. inst[o] \in InstRec /\ inst[o].refs \in Nat /\ inst[o].kept \in Cb \cup {None}  BY Records
<1>2. InstCounted(o) /\ LifeSound(o)  BY Parts
<1>3. /\ Cardinality(PyBlocks(blocks, o)) \in Nat /\ user'[o] \in Nat /\ user[o] \in Nat
      /\ Cardinality(PyBlocks(cb, o)) \in Nat
  BY PyBlocksFinite, Parts
<1>4. inst[o].refs = user'[o] + Cardinality(PyBlocks(blocks, o)) + 1
  BY <1>2, <1>3 DEF InstCounted
<1>5. \A c \in Cb : cb[c] # None /\ cb[c].deleter = "delete" => blocks[c] = cb[c]
  OBVIOUS
<1>6. \A c \in Cb : blocks[c] # None => blocks[c] = cb[c]  OBVIOUS
<1>7. CASE inst[o].refs > 1
  <2> DEFINE i == [inst[o] EXCEPT !.refs = @ - 1]
  <2>1. /\ inst' = [inst EXCEPT ![o].refs = @ - 1] /\ life' = life /\ cb' = blocks
    BY <1>7 DEF Decref
  <2>2. i \in InstRec /\ i.refs = inst[o].refs - 1 /\ i.kept = inst[o].kept
    BY <1>1, <1>7 DEF InstRec
  <2>3. inst' = [inst EXCEPT ![o] = i]  BY <2>1, Parts
  <2> HIDE DEF i
  <2>4. inst'[o] = i /\ i # None /\ \A x \in Obj : x # o => inst'[x] = inst[x]
    BY <2>2, <2>3, Parts DEF ConstantsLegal
  <2>5. inst' \in [Obj -> InstRec \cup {None}]  BY <2>2, <2>3, Parts
  <2>6. Types'  BY <2>1, <2>5, Parts DEF Types
  <2>7. \A x \in Obj : /\ inst'[x] # None <=> inst[x] # None
                       /\ inst[x] # None => inst'[x].kept = inst[x].kept
    BY <2>2, <2>4
  <2>8. ASSUME NEW x \in Obj PROVE InstCounted(x)'
    <3>1. InstCounted(x)  BY Parts
    <3>2. CASE x = o  BY <3>2, <1>3, <1>4, <1>7, <2>1, <2>2, <2>4 DEF InstCounted
    <3>3. CASE x # o  BY <3>1, <3>3, <2>1, <2>4 DEF InstCounted
    <3> QED  BY <3>2, <3>3
  <2>9. ASSUME NEW x \in Obj PROVE LifeSound(x)'
    <3>1. LifeSound(x)  BY Parts
    <3>2. inst[x] # None /\ KeepsHeap(x) => KeepsHeap(x)'
      BY <2>1, <2>7, <1>5 DEF KeepsHeap
    <3>3. life[x] = "heap" =>
             \E d \in Cb : cb'[d] # None /\ cb'[d].obj = x /\ cb'[d].deleter = "delete"
      BY <3>1, <2>1, <1>5 DEF LifeSound
    <3> QED  BY <3>1, <3>2, <3>3, <2>1, <2>7 DEF LifeSound
  <2>10. ASSUME NEW x \in Obj PROVE WeakSound(x)'  BY <2>1 DEF WeakSound, Live
  <2>11. ASSUME NEW d \in Cb, cb'[d] # None PROVE BlockSound(d)'
    <3>1. BlockSound(d) /\ cb'[d] = cb[d] /\ cb[d].obj \in Obj
      BY <2>1, <2>11, <1>6, Parts, Records
    <3> QED  BY <3>1, <2>1, <2>7 DEF BlockSound, KeptBy
  <2>12. OneDeleter'
    <3>1. OneDeleter  BY Parts
    <3> QED  BY <3>1, <2>1, <1>6 DEF OneDeleter
  <2>13. \A d \in Cb : BlockSound(d)'  BY <2>11 DEF BlockSound
  <2> QED  BY <2>6, <2>8, <2>9, <2>10, <2>12, <2>13 DEF IInv
<1>8. CASE ~(inst[o].refs > 1)
  <2> DEFINE k == inst[o].kept
             b == [blocks[k] EXCEPT !.count = @ - 1]
  <2>1. /\ inst' = [inst EXCEPT ![o] = None] /\ cb' = Released(blocks, k)
        /\ life' = [life EXCEPT ![o] = IF @ = "inline" THEN "gone" ELSE @]
    BY <1>8 DEF Decref
  <2>2. user'[o] = 0 /\ Cardinality(PyBlocks(blocks, o)) = 0  BY <1>3, <1>4, <1>8
  <2>3. PyBlocks(blocks, o) = {}  BY <2>2, PyBlocksZero
  <2>4. inst'[o] = None /\ \A x \in Obj : x # o => inst'[x] = inst[x]  BY <2>1, Parts
  <2>5. /\ life'[o] = IF life[o] = "inline" THEN "gone" ELSE life[o]
        /\ \A x \in Obj : x # o => life'[x] = life[x]
    BY <2>1, Parts
  <2>6. inst' \in [Obj -> InstRec \cup {None}]  BY <2>1, Parts
  <2>7. life' \in [Obj -> {"none", "inline", "heap", "gone"}]
    <3>1. life \in [Obj -> {"none", "inline", "heap", "gone"}]  BY Parts
    <3>2. life[o] \in {"none", "inline", "heap", "gone"}  BY <3>1
    <3> QED  BY <3>1, <3>2, <2>1
  <2> HIDE DEF k
  <2>8. k # None => /\ k \in Cb /\ blocks[k] = cb[k] /\ cb[k] # None /\ cb[k].obj = o
                    /\ cb[k].deleter = "delete" /\ cb[k].count = cb[k].held + 1
                    /\ cb[k] \in BlockRec
    <3> SUFFICES ASSUME k # None
                 PROVE  /\ k \in Cb /\ blocks[k] = cb[k] /\ cb[k] # None /\ cb[k].obj = o
                        /\ cb[k].deleter = "delete" /\ cb[k].count = cb[k].held + 1
                        /\ cb[k] \in BlockRec
        OBVIOUS
    <3>1. KeepsHeap(o)  BY <1>2 DEF LifeSound, k
    <3>2. k \in Cb /\ cb[k] # None /\ cb[k].obj = o /\ cb[k].deleter = "delete"
      BY <3>1 DEF KeepsHeap, k
    <3>3. BlockSound(k) /\ KeptBy(k)  BY <3>2, Parts DEF KeptBy, k
    <3> QED  BY <3>2, <3>3, <1>5, Records DEF BlockSound
  <2>9. /\ cb' \in [Cb -> BlockRec \cup {None}]
        /\ k # None => /\ cb'[k] \in BlockRec /\ cb'[k].obj = o /\ cb'[k].deleter = "delete"
                       /\ cb'[k].count = cb[k].held /\ cb'[k].held = cb[k].held
                       /\ cb'[k] # None
        /\ \A d \in Cb : d # k => cb'[d] = blocks[d]
    <3>1. CASE k = None  BY <3>1, <2>1 DEF Released, ConstantsLegal
    <3>2. CASE k # None
      <4>1. b = [obj |-> o, count |-> cb[k].held, deleter |-> "delete", held |-> cb[k].held]
        BY <3>2, <2>8 DEF BlockRec
      <4>2. b \in BlockRec  BY <4>1, <3>2, <2>8 DEF BlockRec
      <4>3. cb' = [blocks EXCEPT ![k] = b]  BY <3>2, <2>1, <2>8 DEF Released
      <4>4. cb'[k] = b /\ \A d \in Cb : d # k => cb'[d] = blocks[d]  BY <4>3, <3>2, <2>8
      <4>5. cb' \in [Cb -> BlockRec \cup {None}]  BY <4>2, <4>3
      <4>6. b.obj = o /\ b.deleter = "delete" /\ b.count = cb[k].held /\ b.held = cb[k].held
        BY <4>1
      <4> HIDE DEF b
      <4> QED  BY <4>2, <4>4, <4>5, <4>6 DEF ConstantsLegal
    <3> QED  BY <3>1, <3>2
  <2> HIDE DEF b
  <2>10. \A d \in Cb : /\ cb'[d] # None <=> blocks[d] # None
                       /\ blocks[d] # None => /\ cb'[d].obj = cb[d].obj
                                              /\ cb'[d].deleter = cb[d].deleter
                                              /\ cb'[d].held = cb[d].held
                                              /\ cb'[d].count > 0 => blocks[d].count > 0
    <3> SUFFICES ASSUME NEW d \in Cb
                 PROVE  /\ cb'[d] # None <=> blocks[d] # None
                        /\ blocks[d] # None => /\ cb'[d].obj = cb[d].obj
                                               /\ cb'[d].deleter = cb[d].deleter
                                               /\ cb'[d].held = cb[d].held
                                               /\ cb'[d].count > 0 => blocks[d].count > 0
        OBVIOUS
    <3>1. CASE d = k
      <4>1. cb[k].held \in Nat  BY <3>1, <2>8, Records DEF ConstantsLegal
      <4> QED  BY <3>1, <4>1, <2>8, <2>9 DEF ConstantsLegal
    <3>2. CASE d # k  BY <3>2, <2>9, <1>6
    <3> QED  BY <3>1, <3>2
  <2>11. \A x \in Obj : PyBlocks(cb', x) = PyBlocks(blocks, x)
    BY <2>10, <1>6 DEF PyBlocks
  <2>12. Types'  BY <2>6, <2>7, <2>9, Parts DEF Types
  <2>13. ASSUME NEW x \in Obj PROVE InstCounted(x)'
    <3>1. InstCounted(x)  BY Parts
    <3>2. CASE x = o  BY <3>2, <2>2, <2>3, <2>4, <2>11 DEF InstCounted
    <3>3. CASE x # o  BY <3>1, <3>3, <2>4, <2>11 DEF InstCounted
    <3> QED  BY <3>2, <3>3
  <2>14. ASSUME NEW x \in Obj PROVE LifeSound(x)'
    <3>1. LifeSound(x)  BY Parts
    <3>2. life[x] = "heap" =>
             \E d \in Cb : cb'[d] # None /\ cb'[d].obj = x /\ cb'[d].deleter = "delete"
      BY <3>1, <2>10, <1>5 DEF LifeSound
    <3>3. CASE x = o  BY <3>2, <3>3, <2>4, <2>5 DEF LifeSound
    <3>4. CASE x # o
      <4>1. KeepsHeap(x) => KeepsHeap(x)'
        BY <3>4, <2>4, <2>5, <2>10, <1>5 DEF KeepsHeap
      <4> QED  BY <3>1, <3>2, <3>4, <4>1, <2>4, <2>5 DEF LifeSound
    <3> QED  BY <3>3, <3>4
  <2>15. ASSUME NEW x \in Obj PROVE WeakSound(x)'
    <3>1. weak'[x] \in Cb \cup {None}  OBVIOUS
    <3>2. weak'[x] # None => cb'[weak'[x]] # None /\ cb'[weak'[x]].obj = x
      BY <3>1, <2>10, <1>6
    <3>3. ASSUME x \in Esft, NEW d \in Cb, Live(d)', cb'[d].obj = x PROVE weak'[x] = d
      <4>1. cb'[d] # None /\ cb'[d].count > 0  BY <3>3 DEF Live
      <4>2. blocks[d] # None /\ blocks[d].count > 0 /\ blocks[d].obj = x
        BY <3>3, <4>1, <2>10, <1>6
      <4> QED  BY <3>3, <4>2
    <3> QED  BY <3>2, <3>3 DEF WeakSound
  <2>16. ASSUME NEW d \in Cb, cb'[d] # None PROVE BlockSound(d)'
    <3>1. /\ BlockSound(d) /\ blocks[d] = cb[d] /\ cb[d] # None /\ cb[d].obj \in Obj
          /\ cb'[d].obj = cb[d].obj /\ cb'[d].deleter = cb[d].deleter /\ cb'[d].held = cb[d].held
      BY <2>10, <2>16, <1>6, Parts, Records
    <3>2. CASE cb[d].obj # o
      <4>1. d # k  BY <3>2, <2>8, <3>1 DEF ConstantsLegal
      <4>2. cb'[d] = cb[d]  BY <4>1, <3>1, <2>9
      <4>3. KeptBy(d)' <=> KeptBy(d)  BY <3>1, <3>2, <4>2, <2>4 DEF KeptBy
      <4> QED  BY <3>1, <3>2, <4>2, <4>3, <2>5 DEF BlockSound
    <3>3. CASE cb[d].obj = o
      <4>1. ~KeptBy(d)'  BY <3>1, <3>3, <2>4 DEF KeptBy
      <4>2. cb'[d].count = cb'[d].held
        <5>1. CASE d = k  BY <5>1, <2>8, <2>9 DEF ConstantsLegal
        <5>2. CASE d # k
          <6>1. ~KeptBy(d)  BY <3>3, <5>2 DEF KeptBy, k
          <6> QED  BY <3>1, <5>2, <6>1, <2>9 DEF BlockSound
        <5> QED  BY <5>1, <5>2
      <4>3. cb[d].deleter = "delete" => life'[o] = "heap"  BY <3>1, <3>3, <2>5 DEF BlockSound
      <4>4. life'[o] # "none"  BY <3>1, <3>3, <2>5 DEF BlockSound
      <4> QED  BY <3>1, <3>3, <4>1, <4>2, <4>3, <4>4 DEF BlockSound
    <3> QED  BY <3>2, <3>3
  <2>17. OneDeleter'
    <3>1. OneDeleter  BY Parts
    <3> QED  BY <3>1, <2>10, <1>6 DEF OneDeleter
  <2>18. \A d \in Cb : BlockSound(d)'  BY <2>16 DEF BlockSound
  <2> QED  BY <2>12, <2>13, <2>14, <2>15, <2>17, <2>18 DEF IInv
<1> QED  BY <1>7, <1>8

LEMMA PyDropIInv == ASSUME ConstantsLegal, IInv, NEW o \in Obj, PyDrop(o) PROVE IInv'
<1>1. /\ alive /\ inst[o] # None /\ user[o] > 0 /\ user' = [user EXCEPT ![o] = @ - 1]
      /\ Decref(o, cb) /\ weak' = weak /\ alive' = alive
  BY DEF PyDrop, HasInst
<1>2. user[o] \in Nat /\ Cardinality(PyBlocks(cb, o)) \in Nat  BY Parts, PyBlocksFinite
<1>3. /\ user'[o] = user[o] - 1 /\ \A x \in Obj : x # o => user'[x] = user[x]
      /\ user' \in [Obj -> Nat]
  BY <1>1, <1>2, Parts
<1>4. user'[o] + Cardinality(PyBlocks(cb, o)) + 1 = user[o] + Cardinality(PyBlocks(cb, o))
  BY <1>2, <1>3
<1>5. ASSUME NEW x \in Obj
      PROVE  /\ weak'[x] # None => cb[weak'[x]] # None /\ cb[weak'[x]].obj = x
             /\ x \in Esft => \A c \in Cb : cb[c] # None /\ cb[c].count > 0 /\ cb[c].obj = x
                                            => weak'[x] = c
  <2>1. WeakSound(x)  BY Parts
  <2> QED  BY <2>1, <1>1 DEF WeakSound, Live, ConstantsLegal
<1>6. cb \in [Cb -> BlockRec \cup {None}] /\ weak' \in [Obj -> Cb \cup {None}]  BY <1>1, Parts
<1>7. alive /\ alive' = alive /\ inst[o] # None /\ Decref(o, cb)  BY <1>1
<1>8. \A x \in Obj : x # o => user'[x] = user[x] /\ PyBlocks(cb, x) = PyBlocks(cb, x)  BY <1>3
<1>9. \A c \in Cb : cb[c] = cb[c] \/ (cb[c] = None /\ cb[c] # None /\ cb[c].deleter = "py_decref")
  OBVIOUS
<1>10. user' \in [Obj -> Nat]  BY <1>3
<1> QED  BY <1>4, <1>5, <1>6, <1>7, <1>8, <1>9, <1>10, DecrefIInv

LEMMA DeleteIInv == ASSUME ConstantsLegal, IInv, NEW c \in Cb, Delete(c) PROVE IInv'
<1> DEFINE o == cb[c].obj
           freed == [cb EXCEPT ![c] = None]
<1>1. /\ cb[c] # None /\ cb[c].count = 0 /\ user' = user /\ alive' = alive
      /\ weak' = [x \in Obj |-> IF weak[x] = c THEN None ELSE weak[x]]
  BY DEF Delete
<1>2. o \in Obj /\ cb[c].held \in Nat /\ BlockSound(c)  BY <1>1, Records, Parts
<1>3. ~KeptBy(c)  BY <1>1, <1>2 DEF BlockSound
<1>4. freed \in [Cb -> BlockRec \cup {None}] /\ freed[c] = None
      /\ \A d \in Cb : d # c => freed[d] = cb[d]
  BY Parts
<1>5. \A x \in Obj : weak'[x] = IF weak[x] = c THEN None ELSE weak[x]  BY <1>1
<1>6. weak' \in [Obj -> Cb \cup {None}]  BY <1>1, Parts
<1> HIDE DEF freed
<1>7. ASSUME NEW x \in Obj
      PROVE  /\ weak'[x] # None => freed[weak'[x]] # None /\ freed[weak'[x]].obj = x
             /\ x \in Esft => \A d \in Cb : freed[d] # None /\ freed[d].count > 0
                                            /\ freed[d].obj = x => weak'[x] = d
  <2>1. WeakSound(x) /\ weak[x] \in Cb \cup {None}  BY Parts
  <2>2. weak'[x] # None => freed[weak'[x]] # None /\ freed[weak'[x]].obj = x
    BY <2>1, <1>4, <1>5 DEF WeakSound
  <2>3. ASSUME x \in Esft, NEW d \in Cb, freed[d] # None, freed[d].count > 0, freed[d].obj = x
        PROVE  weak'[x] = d
    <3>1. d # c /\ freed[d] = cb[d]  BY <2>3, <1>4
    <3>2. weak[x] = d  BY <2>1, <2>3, <3>1 DEF WeakSound, Live, ConstantsLegal
    <3> QED  BY <3>1, <3>2, <1>5
  <2> QED  BY <2>2, <2>3
<1>8. \A x \in Obj : o # x \/ cb[c].deleter # "py_decref" => PyBlocks(freed, x) = PyBlocks(cb, x)
  <2> SUFFICES ASSUME NEW x \in Obj, o # x \/ cb[c].deleter # "py_decref"
               PROVE  PyBlocks(freed, x) = PyBlocks(cb, x)
      OBVIOUS
  <2> QED  BY <1>1, <1>4, PyBlocksRemove
<1>9. cb[c].deleter = "py_decref" =>
         Cardinality(PyBlocks(cb, o)) = Cardinality(PyBlocks(freed, o)) + 1
  BY <1>1, <1>4, PyBlocksRemove
<1>10. CASE cb[c].deleter = "py_decref" /\ alive
  <2>1. Decref(o, freed)  BY <1>10 DEF Delete, Guarded, freed
  <2>2. inst[o] # None  BY <1>1, <1>10, OwnsReference
  <2>3. user'[o] + Cardinality(PyBlocks(freed, o)) + 1 = user[o] + Cardinality(PyBlocks(cb, o))
    <3>1. user[o] \in Nat /\ Cardinality(PyBlocks(freed, o)) \in Nat
      BY <1>2, Parts, PyBlocksFinite
    <3> QED  BY <3>1, <1>1, <1>9, <1>10
  <2>4. \A x \in Obj : x # o => user'[x] = user[x] /\ PyBlocks(freed, x) = PyBlocks(cb, x)
    BY <1>1, <1>8
  <2>5. \A d \in Cb : freed[d] = cb[d]
                      \/ (freed[d] = None /\ cb[d] # None /\ cb[d].deleter = "py_decref")
    <3>1. cb[c] # None /\ cb[c].deleter = "py_decref"  BY <1>1, <1>10
    <3> QED  BY <3>1, <1>4
  <2>6. user' \in [Obj -> Nat] /\ alive /\ alive' = alive  BY <1>1, <1>10, Parts
  <2> HIDE DEF o
  <2> QED  BY <1>2, <1>4, <1>6, <1>7, <2>1, <2>2, <2>3, <2>4, <2>5, <2>6, DecrefIInv
<1>11. CASE ~(cb[c].deleter = "py_decref" /\ alive)
  <2>1. /\ cb' = freed /\ inst' = inst
        /\ cb[c].deleter = "py_decref" => life' = life
        /\ cb[c].deleter # "py_decref" => life' = [life EXCEPT ![o] = "gone"]
    BY <1>11 DEF Delete, Guarded, freed
  <2>2. life' \in [Obj -> {"none", "inline", "heap", "gone"}]  BY <2>1, Parts
  <2>3. Types'  BY <1>1, <1>4, <1>6, <2>1, <2>2, Parts DEF Types
  <2>4. /\ cb[c].deleter = "delete" => life'[o] = "gone"
        /\ \A x \in Obj : x # o \/ cb[c].deleter = "py_decref" => life'[x] = life[x]
    BY <1>2, <2>1, Parts
  <2>5. cb[c].deleter = "delete" => life[o] = "heap" /\ inst[o] = None
    <3> SUFFICES ASSUME cb[c].deleter = "delete", inst[o] # None PROVE FALSE
        BY <1>1, <1>2 DEF BlockSound
    <3>1. life[o] = "heap" /\ LifeSound(o)  BY <1>1, <1>2, Parts DEF BlockSound
    <3>2. KeepsHeap(o)  BY <3>1 DEF LifeSound
    <3>3. inst[o].kept = c  BY <3>2, <1>1, Parts DEF KeepsHeap, OneDeleter
    <3> QED  BY <3>3, <1>3 DEF KeptBy
  <2> HIDE DEF o
  <2>6. cb[c].deleter \in {"delete", "py_decref"} /\ cb[c].obj = o  BY <1>1, Records DEF o
  <2>7. ASSUME NEW x \in Obj PROVE InstCounted(x)'
    <3>1. /\ InstCounted(x) /\ user[x] \in Nat /\ Cardinality(PyBlocks(cb, x)) \in Nat
          /\ Cardinality(PyBlocks(freed, x)) \in Nat /\ (inst[x] # None => inst[x].refs \in Nat)
      BY Parts, PyBlocksFinite, Records
    <3>2. CASE o # x \/ cb[c].deleter # "py_decref"
      BY <3>1, <3>2, <1>1, <1>8, <2>1 DEF InstCounted
    <3>3. CASE o = x /\ cb[c].deleter = "py_decref"
      <4>1. ~alive /\ inst[x] # None
        BY <3>3, <1>1, <1>11, <2>6, OwnsReference
      <4>2. Cardinality(PyBlocks(cb, x)) = Cardinality(PyBlocks(freed, x)) + 1  BY <3>3, <1>9
      <4> QED  BY <3>1, <4>1, <4>2, <1>1, <2>1 DEF InstCounted
    <3> QED  BY <3>2, <3>3
  <2>8. ASSUME NEW x \in Obj PROVE LifeSound(x)'
    <3>1. LifeSound(x)  BY Parts
    <3>2. CASE x = o /\ cb[c].deleter = "delete"
      BY <3>2, <2>1, <2>4, <2>5 DEF LifeSound
    <3>3. CASE x # o \/ cb[c].deleter = "py_decref"
      <4>1. life'[x] = life[x]  BY <3>3, <2>4
      <4>2. inst[x] # None /\ KeepsHeap(x) => KeepsHeap(x)'
        <5> SUFFICES ASSUME KeepsHeap(x) PROVE KeepsHeap(x)'  OBVIOUS
        <5>1. inst[x].kept # c  BY <3>3, <2>6 DEF KeepsHeap
        <5> QED  BY <5>1, <4>1, <1>4, <2>1 DEF KeepsHeap
      <4>3. life[x] = "heap" =>
               \E d \in Cb : cb'[d] # None /\ cb'[d].obj = x /\ cb'[d].deleter = "delete"
        <5> SUFFICES ASSUME life[x] = "heap"
                     PROVE \E d \in Cb : cb'[d] # None /\ cb'[d].obj = x /\ cb'[d].deleter = "delete"
            OBVIOUS
        <5>1. PICK d \in Cb : cb[d] # None /\ cb[d].obj = x /\ cb[d].deleter = "delete"
          BY <3>1 DEF LifeSound
        <5>2. d # c  BY <5>1, <3>3, <2>6
        <5> QED  BY <5>1, <5>2, <1>4, <2>1
      <4> QED  BY <3>1, <4>1, <4>2, <4>3, <2>1 DEF LifeSound
    <3> QED  BY <3>2, <3>3, <2>6
  <2>9. ASSUME NEW x \in Obj PROVE WeakSound(x)'
    <3>1. x \in Esft => \A d \in Cb : Live(d)' /\ cb'[d].obj = x => weak'[x] = d
      BY <1>7, <2>1 DEF Live
    <3> QED  BY <3>1, <1>7, <2>1 DEF WeakSound
  <2>10. ASSUME NEW d \in Cb PROVE BlockSound(d)'
    <3>1. CASE d = c  BY <3>1, <1>4, <2>1 DEF BlockSound
    <3>2. CASE d # c /\ cb[d] # None
      <4>1. BlockSound(d) /\ cb'[d] = cb[d] /\ cb[d].obj \in Obj
        BY <3>2, <1>4, <2>1, Parts, Records
      <4>2. KeptBy(d)' <=> KeptBy(d)  BY <4>1, <2>1 DEF KeptBy
      <4>3. cb[d].deleter = "delete" => life'[cb[d].obj] = "heap"
        <5> SUFFICES ASSUME cb[d].deleter = "delete" PROVE life'[cb[d].obj] = "heap"  OBVIOUS
        <5>1. cb[d].obj # o \/ cb[c].deleter = "py_decref"
          BY <3>2, <1>1, <2>6, Parts DEF OneDeleter
        <5> QED  BY <5>1, <3>2, <4>1, <2>4 DEF BlockSound
      <4>4. life'[cb[d].obj] # "none"
        BY <3>2, <4>1, <2>4, <2>6 DEF BlockSound
      <4> QED  BY <3>2, <4>1, <4>2, <4>3, <4>4 DEF BlockSound
    <3>3. CASE d # c /\ cb[d] = None  BY <3>3, <1>4, <2>1 DEF BlockSound
    <3> QED  BY <3>1, <3>2, <3>3
  <2>11. OneDeleter'
    <3>1. OneDeleter  BY Parts
    <3> QED  BY <3>1, <1>4, <2>1 DEF OneDeleter
  <2> QED  BY <2>3, <2>7, <2>8, <2>9, <2>10, <2>11 DEF IInv
<1> QED  BY <1>10, <1>11

LEMMA ShutdownIInv == ASSUME ConstantsLegal, IInv, Shutdown PROVE IInv'
<1>1. alive' = FALSE /\ alive /\ UNCHANGED <<life, inst, user, cb, weak>>  BY DEF Shutdown
<1>2. Types'  BY <1>1, Parts DEF Types
<1>3. ASSUME NEW o \in Obj PROVE InstCounted(o)' /\ LifeSound(o)' /\ WeakSound(o)'
  <2>1. InstCounted(o) /\ LifeSound(o) /\ WeakSound(o)  BY Parts
  <2>2. InstCounted(o)'  BY <2>1, <1>1 DEF InstCounted
  <2>3. LifeSound(o)'  BY <2>1, <1>1 DEF LifeSound, KeepsHeap
  <2>4. WeakSound(o)'  BY <2>1, <1>1 DEF WeakSound, Live
  <2> QED  BY <2>2, <2>3, <2>4
<1>4. (\A c \in Cb : BlockSound(c)') /\ OneDeleter'
  BY <1>1, Parts DEF BlockSound, KeptBy, OneDeleter
<1> QED  BY <1>2, <1>3, <1>4 DEF IInv

LEMMA StepIInv == ASSUME ConstantsLegal, IInv, [Next]_shVars PROVE IInv'
<1>1. CASE UNCHANGED shVars
  BY <1>1 DEF shVars, IInv, Types, InstCounted, LifeSound, KeepsHeap, WeakSound, Live,
              BlockSound, KeptBy, OneDeleter
<1>2. ASSUME NEW o \in Obj, PyNew(o) PROVE IInv'  BY <1>2, PyNewIInv
<1>3. ASSUME NEW o \in Obj, PyDrop(o) PROVE IInv'  BY <1>3, PyDropIInv
<1>4. ASSUME NEW o \in Obj, NEW c \in Cb, MakeShared(o, c) PROVE IInv'  BY <1>4, MakeSharedIInv
<1>5. ASSUME NEW o \in Obj, NEW c \in Cb, FromPython(o, c) PROVE IInv'  BY <1>5, FromPythonIInv
<1>6. ASSUME NEW c \in Cb, FromCpp(c) PROVE IInv'  BY <1>6, FromCppIInv
<1>7. ASSUME NEW c \in Cb, CppDrop(c) PROVE IInv'  BY <1>7, CppDropIInv
<1>8. ASSUME NEW c \in Cb, Delete(c) PROVE IInv'  BY <1>8, DeleteIInv
<1>9. ASSUME Shutdown PROVE IInv'  BY <1>9, ShutdownIInv
<1> QED  BY <1>1, <1>2, <1>3, <1>4, <1>5, <1>6, <1>7, <1>8, <1>9 DEF Next

-----------------------------------------------------------------------------
(* What follows from the invariant.                                              *)

LEMMA IInvPointee == ASSUME ConstantsLegal, IInv PROVE PointeeAlive
<1>1. ASSUME NEW o \in Obj, inst[o] # None PROVE Exists(o)
  BY <1>1, Parts DEF LifeSound, KeepsHeap, Exists
<1>2. ASSUME NEW c \in Cb, Live(c) PROVE Exists(cb[c].obj)
  <2>1. cb[c] # None /\ cb[c].obj \in Obj /\ BlockSound(c)  BY <1>2, Parts, Records DEF Live
  <2>2. CASE cb[c].deleter = "delete"  BY <2>1, <2>2 DEF BlockSound, Exists
  <2>3. CASE cb[c].deleter = "py_decref"  BY <2>1, <2>3, <1>1, OwnsReference
  <2> QED  BY <2>1, <2>2, <2>3, Records
<1> QED  BY <1>1, <1>2 DEF PointeeAlive

\* A control block with an owner is held by the program, or kept by the instance.
LEMMA IInvCollected == ASSUME ConstantsLegal, IInv PROVE Collected
<1> SUFFICES ASSUME alive, NEW o \in Obj, Exists(o), user[o] = 0
             PROVE  \E c \in Cb : cb[c] # None /\ cb[c].obj = o
                                  /\ (cb[c].held > 0 \/ cb[c].count = 0)
  <2>1. \A o \in Obj : user[o] \in Nat  BY Parts
  <2> QED  BY <2>1 DEF Collected
<1>1. LifeSound(o) /\ InstCounted(o)  BY Parts
<1>2. CASE inst[o] # None
  <2>1. Cardinality(PyBlocks(cb, o)) >= 1 /\ Cardinality(PyBlocks(cb, o)) \in Nat
    BY <1>1, <1>2, PyBlocksFinite, Records DEF InstCounted
  <2>2. PyBlocks(cb, o) # {}  BY <2>1, FS_EmptySet
  <2>3. PICK c \in Cb : cb[c] # None /\ cb[c].obj = o /\ cb[c].deleter = "py_decref"
    BY <2>2 DEF PyBlocks
  <2>4. ~KeptBy(c)
    BY <2>3, <1>1, <1>2 DEF KeptBy, LifeSound, KeepsHeap, ConstantsLegal
  <2>5. cb[c].count = cb[c].held /\ cb[c].held \in Nat  BY <2>3, <2>4, Parts, Records DEF BlockSound
  <2> QED  BY <2>3, <2>5
<1>3. CASE inst[o] = None
  <2>1. life[o] = "heap"  BY <1>1, <1>3 DEF Exists, LifeSound
  <2>2. PICK c \in Cb : cb[c] # None /\ cb[c].obj = o /\ cb[c].deleter = "delete"
    BY <1>1, <2>1 DEF LifeSound
  <2>3. ~KeptBy(c)  BY <2>2, <1>3 DEF KeptBy
  <2>4. cb[c].count = cb[c].held /\ cb[c].held \in Nat  BY <2>2, <2>3, Parts, Records DEF BlockSound
  <2> QED  BY <2>2, <2>4
<1> QED  BY <1>2, <1>3

LEMMA IInvFamily == ASSUME ConstantsLegal, IInv PROVE OneFamily
BY Parts DEF OneFamily, WeakSound, ConstantsLegal

LEMMA StepUntouched == ASSUME [Next]_shVars PROVE UntouchedStep
BY DEF Next, shVars, UntouchedStep, PyNew, PyDrop, MakeShared, FromPython, FromCpp, CppDrop,
       Delete, Guarded, Shutdown

\* The counts that instances and shared_ptrs keep of each other are exact while the
\* interpreter runs.
THEOREM Invariant == ASSUME ConstantsLegal PROVE Spec => []IInv
<1>1. Init => IInv  BY InitIInv
<1>2. IInv /\ [Next]_shVars => IInv'  BY StepIInv
<1> QED  BY <1>1, <1>2, PTL DEF Spec

\* A shared_ptr, or an instance, never outlives its object (shared_ptr.h:45-56).
THEOREM NeverDangling == ASSUME ConstantsLegal PROVE Spec => []PointeeAlive
<1>1. IInv => PointeeAlive  BY IInvPointee
<1> QED  BY <1>1, Invariant, PTL

\* The two kinds of reference never keep each other alive (shared_ptr.h:19-43).
THEOREM NoLeak == ASSUME ConstantsLegal PROVE Spec => []Collected
<1>1. IInv => Collected  BY IInvCollected
<1> QED  BY <1>1, Invariant, PTL

\* Types with enable_shared_from_this have one family of owners (shared_ptr.h:85-98).
THEOREM OwnersAgree == ASSUME ConstantsLegal PROVE Spec => []OneFamily
<1>1. IInv => OneFamily  BY IInvFamily
<1> QED  BY <1>1, Invariant, PTL

\* After the interpreter has gone no reference count changes (shared_ptr.h:19-27).
THEOREM NothingTouched == Spec => [][UntouchedStep]_shVars
<1>1. [Next]_shVars => [UntouchedStep]_shVars  BY StepUntouched
<1> QED  BY <1>1, PTL DEF Spec
=============================================================================
