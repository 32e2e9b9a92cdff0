-------------------------- MODULE InstanceMapProofs --------------------------
(***************************************************************************)
(* Proofs about InstanceMap for any number of threads, wrappers, addresses *)
(* and classes, for programs that do not use the policy none (see          *)
(* NoneRefuses for what that policy does).                                 *)
(***************************************************************************)
EXTENDS InstanceMap, FiniteSetTheorems, SequenceTheorems, WellFoundedInduction,
        TLAPS

-----------------------------------------------------------------------------
(* Sequences without repetition.                                           *)

\* A set of natural numbers has a minimum.
LEMMA Least ==
  ASSUME NEW T \in SUBSET Nat, T # {}
  PROVE  Min(T) \in T /\ \A j \in T : Min(T) <= j
<1>1. PICK x \in T : \A y \in T : ~(<<y, x>> \in OpToRel(<, Nat))
  BY WFMin, NatLessThanWellFounded, Zenon
<1>2. \A y \in T : ~(y < x)
  BY <1>1 DEF OpToRel
<1>3. x \in T /\ \A y \in T : x <= y
  BY <1>2
<1> QED
  BY <1>3, Zenon DEF Min

\* The same with the choice written out, as an action that looks up the first match has it.
LEMMA LeastIn ==
  ASSUME NEW T \in SUBSET Nat, T # {}
  PROVE  (CHOOSE k \in T : \A j \in T : k <= j) \in T
<1>1. PICK m \in T : \A j \in T : m <= j
  BY Least
<1> QED
  BY <1>1, Zenon

\* What a list contains when it is empty, and when an element is appended.
LEMMA Emptied ==
  ASSUME NEW S, NEW s \in Seq(S)
  PROVE  /\ s = <<>> <=> \A y \in S : ~Contains(s, y)
         /\ \A y : Contains(s, y) => y \in S
         /\ IsInjective(<<>>)
<1>1. s = <<>> => \A y \in S : ~Contains(s, y)
  BY DEF Contains
<1>2. s # <<>> => s[1] \in S /\ Contains(s, s[1])
  BY DEF Contains
<1> QED
  BY <1>1, <1>2 DEF Contains, IsInjective

LEMMA Appended ==
  ASSUME NEW S, NEW s \in Seq(S), NEW x \in S
  PROVE  /\ Append(s, x) \in Seq(S)
         /\ \A y : Contains(Append(s, x), y) <=> Contains(s, y) \/ y = x
         /\ IsInjective(s) /\ ~Contains(s, x) => IsInjective(Append(s, x))
<1> DEFINE r == Append(s, x)
<1>1. r \in Seq(S) /\ Len(r) = Len(s) + 1 /\ r[Len(s) + 1] = x
      /\ \A i \in 1 .. Len(s) : r[i] = s[i]
  OBVIOUS
<1>2. \A y : Contains(r, y) <=> Contains(s, y) \/ y = x
  BY <1>1 DEF Contains
<1>3. ASSUME IsInjective(s), ~Contains(s, x)
      PROVE  IsInjective(r)
  BY <1>1, <1>3 DEF IsInjective, Contains
<1> QED
  BY <1>1, <1>2, <1>3

\* The list without its first element, and without its last one.
LEMMA Tailed ==
  ASSUME NEW S, NEW s \in Seq(S), s # <<>>, IsInjective(s)
  PROVE  /\ Tail(s) \in Seq(S) /\ Head(s) \in S /\ Contains(s, Head(s))
         /\ IsInjective(Tail(s)) /\ Len(Tail(s)) <= Len(s)
         /\ \A y : Contains(Tail(s), y) <=> Contains(s, y) /\ y # Head(s)
<1> DEFINE r == Tail(s)
<1>1. /\ r \in Seq(S) /\ Len(r) = Len(s) - 1 /\ Len(s) >= 1 /\ Head(s) = s[1]
      /\ \A i \in 1 .. Len(r) : r[i] = s[i + 1]
  OBVIOUS
<1>2. Head(s) \in S /\ Contains(s, Head(s))
  BY <1>1 DEF Contains
<1>3. IsInjective(r)
  BY <1>1 DEF IsInjective
<1>4. \A y : Contains(r, y) => Contains(s, y) /\ y # Head(s)
  BY <1>1 DEF Contains, IsInjective
<1>5. ASSUME NEW y, Contains(s, y), y # Head(s)
      PROVE  Contains(r, y)
  <2>1. PICK i \in 1 .. Len(s) : s[i] = y
    BY <1>5 DEF Contains
  <2>2. i - 1 \in 1 .. Len(r) /\ r[i - 1] = y
    BY <1>1, <1>5, <2>1
  <2> QED
    BY <2>2 DEF Contains
<1> QED
  BY <1>1, <1>2, <1>3, <1>4, <1>5

LEMMA Fronted ==
  ASSUME NEW S, NEW s \in Seq(S), s # <<>>, IsInjective(s)
  PROVE  /\ Front(s) \in Seq(S) /\ Last(s) \in S /\ Contains(s, Last(s))
         /\ IsInjective(Front(s)) /\ Len(Front(s)) <= Len(s)
         /\ \A y : Contains(Front(s), y) <=> Contains(s, y) /\ y # Last(s)
<1> DEFINE r == Front(s)
<1>1. /\ r \in Seq(S) /\ Len(r) = Len(s) - 1 /\ Len(s) \in Nat \ {0}
      /\ Last(s) = s[Len(s)]
      /\ \A i \in 1 .. Len(r) : r[i] = s[i]
  <2>1. Len(s) \in Nat \ {0} /\ \A i \in 1 .. Len(s) - 1 : s[i] \in S
    OBVIOUS
  <2>2. /\ r \in Seq(S) /\ Len(r) = Len(s) - 1
        /\ \A i \in 1 .. Len(s) - 1 : r[i] = s[i]
    <3> DEFINE n == Len(s) - 1
               q == SubSeq(s, 1, n)
    <3>1. n \in Nat /\ 1 \in Int /\ n \in Int /\ \A i \in 1 .. n : s[i] \in S
      BY <2>1
    <3> HIDE DEF n
    <3>2. /\ q \in Seq(S)
          /\ Len(q) = IF 1 <= n THEN n - 1 + 1 ELSE 0
          /\ \A i \in 1 .. n - 1 + 1 : q[i] = s[1 + i - 1]
      BY <3>1, SubSeqProperties
    <3> HIDE DEF q
    <3>3. Len(q) = n /\ \A i \in 1 .. n : q[i] = s[i]
      BY <3>1, <3>2
    <3>4. r = q
      BY DEF Front, q, n
    <3> HIDE DEF r
    <3> QED
      BY <3>2, <3>3, <3>4 DEF n
  <2> QED
    BY <2>1, <2>2 DEF Last
<1> HIDE DEF r
<1>2. Last(s) \in S /\ Contains(s, Last(s))
  BY <1>1 DEF Contains
<1>3. IsInjective(r)
  BY <1>1 DEF IsInjective
<1>4. \A y : Contains(r, y) <=> Contains(s, y) /\ y # Last(s)
  BY <1>1 DEF Contains, IsInjective
<1> QED
  BY <1>1, <1>2, <1>3, <1>4 DEF r

\* The list without its first occurrence of x.
LEMMA Removed ==
  ASSUME NEW S, NEW s \in Seq(S), IsInjective(s), NEW x
  PROVE  /\ RemoveFirst(s, x) \in Seq(S) /\ IsInjective(RemoveFirst(s, x))
         /\ \A y : Contains(RemoveFirst(s, x), y) <=> Contains(s, y) /\ y # x
<1>1. CASE ~Contains(s, x)
  BY <1>1 DEF RemoveFirst, Contains
<1>2. CASE Contains(s, x)
  <2> DEFINE I == {i \in 1 .. Len(s) : s[i] = x}
             k == Min(I)
             r == RemoveAt(s, k)
  <2>1. I \in SUBSET Nat /\ I # {}
    BY <1>2 DEF Contains
  <2>2. k \in 1 .. Len(s) /\ s[k] = x
    <3>1. Min(I) \in I
      BY <2>1, Least
    <3> QED
      BY <3>1
  <2>3. RemoveFirst(s, x) = r
    BY <2>1 DEF RemoveFirst, SelectInSeq
  <2> HIDE DEF k, I
  <2>4. /\ r \in Seq(S) /\ Len(r) = Len(s) - 1
        /\ \A i \in 1 .. Len(r) : r[i] = IF i < k THEN s[i] ELSE s[i + 1]
    <3> DEFINE u == SubSeq(s, 1, k - 1)
               v == SubSeq(s, k + 1, Len(s))
    <3>1. /\ u \in Seq(S) /\ Len(u) = k - 1
          /\ \A i \in 1 .. k - 1 : u[i] = s[i]
      BY <2>2, SubSeqProperties
    <3>2. /\ v \in Seq(S) /\ Len(v) = Len(s) - k
          /\ \A i \in 1 .. Len(s) - k : v[i] = s[k + i]
      BY <2>2, SubSeqProperties
    <3>3. r = u \o v
      BY DEF RemoveAt
    <3> HIDE DEF u, v, r
    <3>4. /\ r \in Seq(S) /\ Len(r) = Len(u) + Len(v)
          /\ \A i \in 1 .. Len(u) + Len(v) :
               r[i] = IF i <= Len(u) THEN u[i] ELSE v[i - Len(u)]
      BY <3>1, <3>2, <3>3, ConcatProperties
    <3>5. Len(r) = Len(s) - 1 /\ Len(s) \in Nat /\ k \in Nat
      BY <2>2, <3>1, <3>2, <3>4
    <3>6. ASSUME NEW i \in 1 .. Len(r)
          PROVE  r[i] = IF i < k THEN s[i] ELSE s[i + 1]
      <4>1. CASE i < k
        BY <2>2, <3>1, <3>2, <3>4, <4>1
      <4>2. CASE i >= k
        <5>1. i - (k - 1) \in 1 .. Len(s) - k
          BY <2>2, <3>5, <4>2
        <5>2. r[i] = v[i - (k - 1)]
          BY <2>2, <3>1, <3>2, <3>4, <4>2
        <5> QED
          BY <2>2, <3>2, <3>5, <4>2, <5>1, <5>2
      <4> QED
        BY <3>5, <4>1, <4>2
    <3> QED
      BY <3>4, <3>5, <3>6
  <2> HIDE DEF r
  <2>5. IsInjective(r)
    BY <2>2, <2>4 DEF IsInjective
  <2>6. ASSUME NEW y, Contains(r, y)
        PROVE  Contains(s, y) /\ y # x
    <3>1. PICK i \in 1 .. Len(r) : r[i] = y
      BY <2>6 DEF Contains
    <3>2. PICK j \in 1 .. Len(s) : s[j] = y /\ j # k
      BY <2>2, <2>4, <3>1
    <3> QED
      BY <2>2, <3>2 DEF Contains, IsInjective
  <2>7. ASSUME NEW y, Contains(s, y), y # x
        PROVE  Contains(r, y)
    <3>1. PICK i \in 1 .. Len(s) : s[i] = y
      BY <2>7 DEF Contains
    <3>2. CASE i < k
      BY <2>2, <2>4, <3>1, <3>2 DEF Contains
    <3>3. CASE i > k
      <4>1. i - 1 \in 1 .. Len(r) /\ r[i - 1] = y
        BY <2>2, <2>4, <3>1, <3>3
      <4> QED
        BY <4>1 DEF Contains
    <3> QED
      BY <2>2, <2>7, <3>1, <3>2, <3>3
  <2> QED
    BY <2>3, <2>4, <2>5, <2>6, <2>7
<1> QED
  BY <1>1, <1>2

-----------------------------------------------------------------------------
(* The inductive invariant.                                                *)

\* The frames of t, and where the release of o stands, if the stacks are F.
FramesIn(F, t) == {F[t][i] : i \in DOMAIN F[t]}
StageIn(F, o) ==
  IF \E t \in Thread : \E f \in FramesIn(F, t) : f.obj = o
    THEN (CHOOSE f \in UNION {FramesIn(F, t) : t \in Thread} : f.obj = o).pc
    ELSE "none"
Stage(o) == StageIn(frames, o)

\* No wrapper is released twice at a time; only the last frame has patients.
DistinctIn(F) ==
  \A t, u \in Thread : \A i \in DOMAIN F[t], j \in DOMAIN F[u] :
    F[t][i].obj = F[u][j].obj => t = u /\ i = j
PatientsIn(F) ==
  \A t \in Thread : \A f \in FramesIn(F, t) :
    IsInjective(f.patients) /\ (f.pc # "release" => f.patients = <<>>)
FramesSound == DistinctIn(frames) /\ PatientsIn(frames)

Stages ==
  \A o \in Obj :
    /\ inst[o] = None => rc[o] = 0
    /\ Stage(o) # "none" => inst[o] # None /\ rc[o] = 0
    /\ Stage(o) \in {"recycle", "park"} => Clean(o)
    /\ Stage(o) \in {"destruct", "delete"} => inst[o].destruct
    /\ Stage(o) = "delete" =>
         inst[o].cpp_delete /\ cell[inst[o].addr] = "raw" /\ inst[o].addr \notin owned
    /\ Stage(o) = "park" => cell[o] # "live"

\* What a call knows about its wrapper, its owner and its pointer.
CallSound(t) ==
  LET c == op[t] IN
    /\ c.step \in {"construct", "keep_alive", "register"} =>
         c.obj \in Obj /\ inst[c.obj] # None /\ rc[c.obj] = 1
    /\ c.step = "construct" => inst[c.obj] = NewInst(c.type, c.obj)
    /\ c.step # "construct" =>
         c.pol \in {"take_ownership", "reference", "reference_internal"}
    /\ c.step \in {"lookup", "new"} => c.obj = None
    /\ c.step \in {"keep_alive", "register"} =>
         /\ inst[c.obj].addr = c.addr /\ inst[c.obj].type = c.type /\ c.addr # c.obj
    /\ c.step = "keep_alive" =>
         c.pol = "reference_internal" /\ ~inst[c.obj].clear_keep_alive
    /\ c.step \in {"lookup", "new"} /\ c.pol \in {"take_ownership", "reference"} =>
         c.addr \in owned
    /\ c.step \in {"lookup", "new"} /\ c.pol = "take_ownership" =>
         /\ \A x \in Obj : inst[x] # None /\ inst[x].addr = c.addr => rc[x] = 0
         /\ \A u \in Thread : op[u] # None /\ op[u].addr = c.addr => u = t
    /\ c.step \in {"lookup", "new", "keep_alive"} /\ c.pol = "reference_internal" =>
         /\ c.self \in hold[t] /\ inst[c.self] # None
         /\ inst[c.self].addr = c.addr /\ Field[inst[c.self].type] = c.type
Calls == \A t \in Thread : op[t] # None => CallSound(t)

Flags ==
  \A o \in Obj : inst[o] # None =>
    /\ inst[o].cpp_delete => inst[o].destruct /\ inst[o].addr \in Heap
    /\ inst[o].destruct /\ inst[o].addr # o => inst[o].cpp_delete
    /\ inst[o].addr \in Obj /\ inst[o].addr # o => ~inst[o].destruct
    /\ inst[o].addr = o /\ rc[o] > 0 => inst[o].destruct \/ Doing(o, {"construct"})

\* o is going to destruct its object, or is between that and operator delete.
Pending(o) ==
  /\ inst[o] # None /\ inst[o].destruct
  /\ rc[o] > 0 \/ Stage(o) \in {"recycle", "destruct", "delete"}
Cells ==
  /\ \A a \in owned : cell[a] = "live"
  /\ \A o \in Obj : cell[o] = "live" =>
       inst[o] # None /\ inst[o].addr = o /\ inst[o].destruct
  /\ \A o \in Obj : Pending(o) =>
       inst[o].addr \notin owned /\ (Stage(o) # "delete" => cell[inst[o].addr] = "live")
  /\ \A o, p \in Obj : Pending(o) /\ Pending(p) /\ inst[o].addr = inst[p].addr => o = p

\* A wrapper that does not own its object has a nurse of the enclosing class at
\* the same address, or refers to an object of the C++ side.
Encloses(s, o) ==
  inst[s] # None /\ inst[s].addr = inst[o].addr /\ Field[inst[s].type] = inst[o].type
Anchored ==
  \A o \in Obj :
    inst[o] # None /\ inst[o].addr # o /\ ~inst[o].destruct /\ Stage(o) # "release" =>
      \/ \E s \in Obj : Contains(keep_alive[o], s) /\ Encloses(s, o)
      \/ inst[o].addr \in Heap /\ (rc[o] > 0 => inst[o].addr \in owned)
      \/ Doing(o, {"keep_alive"})

Mapped ==
  \A a \in Addr :
    /\ IsInjective(inst_c2p[a])
    /\ \A x \in Obj : Contains(inst_c2p[a], x) <=>
         /\ inst[x] # None /\ inst[x].addr = a
         /\ ~Doing(x, {"keep_alive", "register"}) /\ Stage(x) # "release"

Nursing ==
  \A n \in Obj :
    /\ IsInjective(keep_alive[n])
    /\ keep_alive[n] # <<>> <=>
         inst[n] # None /\ inst[n].clear_keep_alive /\ Stage(n) # "release"

Pools ==
  \A t \in Thread, tp \in Pooled :
    /\ Len(pool[t][tp]) <= PoolCap /\ IsInjective(pool[t][tp])
    /\ \A o \in Obj : Contains(pool[t][tp], o) =>
         /\ inst[o] # None /\ rc[o] = 0 /\ inst[o].addr = o /\ cell[o] # "live"
         /\ ~inst[o].clear_keep_alive /\ Stage(o) = "none"
         /\ \A u \in Thread, tq \in Pooled :
              Contains(pool[u][tq], o) => u = t /\ tq = tp

IInv ==
  /\ TypeOK /\ FramesSound /\ Stages /\ Calls /\ Flags /\ Cells /\ Anchored
  /\ Mapped /\ Nursing /\ RefsAccounted /\ Pools /\ NoFailure
-----------------------------------------------------------------------------
(* The stacks of frames.                                                   *)

PC == {"recycle", "park", "destruct", "delete", "unmap", "release"}

\* The stage of a wrapper is where its frame is, if it has one.
LEMMA StageMeaning ==
  ASSUME NEW F \in [Thread -> Seq(Frame)], DistinctIn(F), NEW o \in Obj
  PROVE  /\ \A t \in Thread : \A f \in FramesIn(F, t) :
              f \in Frame /\ f.pc \in PC /\ (f.obj = o => StageIn(F, o) = f.pc)
         /\ StageIn(F, o) # "none" =>
              /\ StageIn(F, o) \in PC
              /\ \E t \in Thread : \E f \in FramesIn(F, t) :
                   f.obj = o /\ f.pc = StageIn(F, o)
<1> DEFINE all == UNION {FramesIn(F, t) : t \in Thread}
           f0 == CHOOSE f \in all : f.obj = o
<1>1. \A t \in Thread : \A f \in FramesIn(F, t) : f \in Frame /\ f.pc \in PC
  <2>1. \A t \in Thread : \A i \in DOMAIN F[t] : F[t][i] \in Frame
    OBVIOUS
  <2>2. \A f \in Frame : f.pc \in PC
    BY DEF Frame, PC
  <2> QED
    BY <2>1, <2>2 DEF FramesIn
<1>2. ASSUME NEW t \in Thread, NEW f \in FramesIn(F, t), f.obj = o
      PROVE  StageIn(F, o) = f.pc
  <2>1. f0 \in all /\ f0.obj = o
    BY <1>2
  <2>2. PICK u \in Thread : f0 \in FramesIn(F, u)
    BY <2>1
  <2> HIDE DEF f0
  <2>3. f0 = f
    BY <1>2, <2>1, <2>2 DEF FramesIn, DistinctIn
  <2> QED
    BY <1>2, <2>3 DEF StageIn, f0
<1>3. ASSUME StageIn(F, o) # "none"
      PROVE  \E t \in Thread : \E f \in FramesIn(F, t) : f.obj = o
  BY <1>3 DEF StageIn
<1> QED
  BY <1>1, <1>2, <1>3

LEMMA SameStage ==
  ASSUME NEW F \in [Thread -> Seq(Frame)], DistinctIn(F),
         NEW G \in [Thread -> Seq(Frame)], DistinctIn(G), NEW o \in Obj,
         \A t \in Thread : \A f :
           f.obj = o => (f \in FramesIn(F, t) <=> f \in FramesIn(G, t))
  PROVE  StageIn(F, o) = StageIn(G, o)
<1>1. CASE StageIn(F, o) # "none"
  <2>1. PICK t \in Thread :
          \E f \in FramesIn(F, t) : f.obj = o /\ f.pc = StageIn(F, o)
    BY <1>1, StageMeaning
  <2>2. PICK f \in FramesIn(G, t) : f.obj = o /\ f.pc = StageIn(F, o)
    BY <2>1
  <2> QED
    BY <2>2, StageMeaning
<1>2. CASE StageIn(F, o) = "none"
  <2>1. ASSUME StageIn(G, o) # "none"
        PROVE  FALSE
    <3>1. PICK t \in Thread :
            \E f \in FramesIn(G, t) : f.obj = o /\ f.pc = StageIn(G, o)
      BY <2>1, StageMeaning
    <3>2. PICK f \in FramesIn(F, t) : f.obj = o /\ f.pc = StageIn(G, o)
      BY <3>1
    <3>3. StageIn(F, o) = f.pc
      BY <3>2, StageMeaning
    <3> QED
      BY <1>2, <2>1, <3>2, <3>3
  <2> QED
    BY <1>2, <2>1
<1> QED
  BY <1>1, <1>2

\* A frame is pushed, popped, or replaced by another one of the same wrapper.
LEMMA Pushed ==
  ASSUME NEW F \in [Thread -> Seq(Frame)], DistinctIn(F),
         NEW t \in Thread, NEW g \in Frame, StageIn(F, g.obj) = "none",
         NEW G \in [Thread -> Seq(Frame)], G[t] = Append(F[t], g),
         \A u \in Thread : u # t => G[u] = F[u]
  PROVE  /\ DistinctIn(G)
         /\ \A u \in Thread : u # t => FramesIn(G, u) = FramesIn(F, u)
         /\ \A f : f \in FramesIn(G, t) <=> f \in FramesIn(F, t) \/ f = g
         /\ StageIn(G, g.obj) = g.pc
         /\ \A o \in Obj : o # g.obj => StageIn(G, o) = StageIn(F, o)
<1>1. g.obj \in Obj /\ g.pc \in PC
  BY DEF Frame, PC
<1>2. /\ \A u \in Thread \ {t} : G[u] = F[u]
      /\ Len(F[t]) \in Nat /\ DOMAIN F[t] = 1 .. Len(F[t])
      /\ DOMAIN G[t] = 1 .. Len(F[t]) + 1 /\ G[t][Len(F[t]) + 1] = g
      /\ \A i \in 1 .. Len(F[t]) : G[t][i] = F[t][i]
  <2>1. F[t] \in Seq(Frame) /\ G[t] \in Seq(Frame)
    OBVIOUS
  <2> QED
    BY <2>1
<1>3. \A u \in Thread : \A i \in DOMAIN F[u] : F[u][i].obj # g.obj
  <2>1. \A u \in Thread : \A f \in FramesIn(F, u) : f.obj # g.obj
    BY <1>1, StageMeaning DEF PC
  <2> QED
    BY <2>1 DEF FramesIn
<1>4. DistinctIn(G)
  <2>1. ASSUME NEW u \in Thread, NEW v \in Thread,
               NEW i \in DOMAIN G[u], NEW j \in DOMAIN G[v], G[u][i].obj = G[v][j].obj
        PROVE  u = v /\ i = j
    <3>1. i \in DOMAIN F[u] \/ (u = t /\ i = Len(F[t]) + 1)
      BY <1>2
    <3>2. j \in DOMAIN F[v] \/ (v = t /\ j = Len(F[t]) + 1)
      BY <1>2
    <3> QED
      <4>1. CASE u # t /\ v # t
        BY <1>2, <2>1, <3>1, <3>2, <4>1 DEF DistinctIn
      <4>2. CASE u = t /\ v # t
        BY <1>2, <1>3, <2>1, <3>1, <3>2, <4>2 DEF DistinctIn
      <4>3. CASE u # t /\ v = t
        BY <1>2, <1>3, <2>1, <3>1, <3>2, <4>3 DEF DistinctIn
      <4>4. CASE u = t /\ v = t
        BY <1>2, <1>3, <2>1, <3>1, <3>2, <4>4 DEF DistinctIn
      <4> QED
        BY <4>1, <4>2, <4>3, <4>4
  <2> QED
    BY <2>1 DEF DistinctIn
<1>5. \A u \in Thread : u # t => FramesIn(G, u) = FramesIn(F, u)
  BY <1>2 DEF FramesIn
<1>6. \A f : f \in FramesIn(G, t) <=> f \in FramesIn(F, t) \/ f = g
  <2>1. \A i \in DOMAIN G[t] : G[t][i] = g \/ (i \in DOMAIN F[t] /\ G[t][i] = F[t][i])
    BY <1>2
  <2>2. \A i \in DOMAIN F[t] : i \in DOMAIN G[t] /\ G[t][i] = F[t][i]
    BY <1>2
  <2>3. \E i \in DOMAIN G[t] : G[t][i] = g
    BY <1>2
  <2> QED
    BY <2>1, <2>2, <2>3 DEF FramesIn
<1>7. StageIn(G, g.obj) = g.pc
  <2> DEFINE x == g.obj
  <2>1. g \in FramesIn(G, t) /\ g.obj = x /\ x \in Obj
    BY <1>1, <1>6
  <2> HIDE DEF x
  <2>2. StageIn(G, x) = g.pc
    BY <1>2, <1>4, <2>1, StageMeaning
  <2> QED
    BY <2>2 DEF x
<1>8. ASSUME NEW o \in Obj, o # g.obj
      PROVE  StageIn(G, o) = StageIn(F, o)
  <2>1. \A u \in Thread : \A f :
          f.obj = o => (f \in FramesIn(F, u) <=> f \in FramesIn(G, u))
    BY <1>5, <1>6, <1>8
  <2> QED
    BY <1>2, <1>4, <2>1, SameStage
<1> QED
  BY <1>2, <1>4, <1>5, <1>6, <1>7, <1>8

\* The stack below the last frame.
LEMMA Fronts ==
  ASSUME NEW S, NEW s \in Seq(S), s # <<>>
  PROVE  Front(s) \in Seq(S) /\ Last(s) \in S /\ \A x \in S : Front(s) \o <<x>> \in Seq(S)
<1>1. Len(s) \in Nat \ {0} /\ Last(s) \in S
  BY DEF Last
<1>2. 1 \in Int /\ Len(s) - 1 \in Int /\ \A i \in 1 .. Len(s) - 1 : s[i] \in S
  BY <1>1
<1>3. SubSeq(s, 1, Len(s) - 1) \in Seq(S)
  BY <1>2, SubSeqProperties
<1>4. Front(s) \in Seq(S)
  BY <1>3 DEF Front
<1> QED
  BY <1>1, <1>4

Pop(F, G, t) ==
  /\ F \in [Thread -> Seq(Frame)] /\ DistinctIn(F)
  /\ t \in Thread /\ F[t] # <<>>
  /\ G \in [Thread -> Seq(Frame)] /\ G[t] = Front(F[t])
  /\ \A u \in Thread : u # t => G[u] = F[u]

LEMMA Popped ==
  ASSUME NEW F, NEW G, NEW t, Pop(F, G, t)
  PROVE  /\ DistinctIn(G)
         /\ Last(F[t]) \in FramesIn(F, t) /\ Last(F[t]) \in Frame
         /\ \A u \in Thread : u # t => FramesIn(G, u) = FramesIn(F, u)
         /\ \A f : f \in FramesIn(G, t) <=> f \in FramesIn(F, t) /\ f # Last(F[t])
         /\ StageIn(G, Last(F[t]).obj) = "none"
         /\ \A o \in Obj : o # Last(F[t]).obj => StageIn(G, o) = StageIn(F, o)
<1> USE DEF Pop
<1> DEFINE n == Len(F[t])  l == Last(F[t])
<1>1. /\ n \in Nat \ {0} /\ l = F[t][n] /\ l \in Frame /\ l.obj \in Obj
      /\ l \in FramesIn(F, t)
  <2>1. n \in Nat \ {0} /\ l = F[t][n] /\ l \in Frame /\ n \in DOMAIN F[t]
    BY DEF Last
  <2>2. l.obj \in Obj
    BY <2>1 DEF Frame
  <2>3. l \in FramesIn(F, t)
    BY <2>1 DEF FramesIn
  <2> QED
    BY <2>1, <2>2, <2>3
<1>2. /\ \A u \in Thread \ {t} : G[u] = F[u]
      /\ Len(G[t]) = n - 1 /\ DOMAIN G[t] = 1 .. n - 1 /\ DOMAIN F[t] = 1 .. n
      /\ \A i \in 1 .. n - 1 : G[t][i] = F[t][i]
  <2>1. \A i \in 1 .. n - 1 : F[t][i] \in Frame
    BY <1>1
  <2>2. n - 1 \in Nat /\ 1 \in Int /\ n - 1 \in Int
    BY <1>1
  <2>3. G[t] = SubSeq(F[t], 1, n - 1)
    BY DEF Front
  <2> DEFINE q == SubSeq(F[t], 1, n - 1)  m == n - 1
  <2> HIDE DEF n, m
  <2>4. /\ q \in Seq(Frame) /\ Len(q) = IF 1 <= m THEN m - 1 + 1 ELSE 0
        /\ \A i \in 1 .. m - 1 + 1 : q[i] = F[t][1 + i - 1]
    BY <2>1, <2>2, <2>3, SubSeqProperties DEF m
  <2> HIDE DEF q
  <2>5. q \in Seq(Frame) /\ Len(q) = m /\ \A i \in 1 .. m : q[i] = F[t][i]
    BY <2>2, <2>4 DEF m
  <2>6. G[t] = q
    BY <2>3 DEF q
  <2> QED
    BY <2>5, <2>6 DEF m, n
<1> HIDE DEF n, l
<1>3. DistinctIn(G)
  <2>1. ASSUME NEW u \in Thread, NEW i \in DOMAIN G[u]
        PROVE  i \in DOMAIN F[u] /\ G[u][i] = F[u][i]
    <3>1. CASE u = t
      BY <1>1, <1>2, <3>1
    <3>2. CASE u # t
      BY <1>2, <3>2
    <3> QED
      BY <3>1, <3>2
  <2> QED
    BY <2>1 DEF DistinctIn
<1>4. \A f \in FramesIn(F, t) : f = l \/ f \in FramesIn(G, t)
  BY <1>1, <1>2 DEF FramesIn, n
<1>5. FramesIn(G, t) \subseteq FramesIn(F, t)
  BY <1>1, <1>2 DEF FramesIn, n
<1>6. \A u \in Thread : \A f \in FramesIn(G, u) : f.obj # l.obj
  <2>1. ASSUME NEW u \in Thread, NEW i \in DOMAIN G[u]
        PROVE  G[u][i].obj # l.obj
    <3>1. i \in DOMAIN F[u] /\ G[u][i] = F[u][i] /\ ~(u = t /\ i = n)
      BY <1>1, <1>2
    <3> QED
      BY <1>1, <1>2, <3>1 DEF DistinctIn
  <2> QED
    BY <2>1 DEF FramesIn
<1>7. \A u \in Thread : u # t => FramesIn(G, u) = FramesIn(F, u)
  BY <1>2 DEF FramesIn
<1>8. \A f : f \in FramesIn(G, t) <=> f \in FramesIn(F, t) /\ f # l
  BY <1>4, <1>5, <1>6
<1>9. StageIn(G, l.obj) = "none"
  BY <1>6 DEF StageIn
<1>10. ASSUME NEW o \in Obj, o # l.obj
       PROVE  StageIn(G, o) = StageIn(F, o)
  <2>1. \A u \in Thread : \A f :
          f.obj = o => (f \in FramesIn(F, u) <=> f \in FramesIn(G, u))
    BY <1>7, <1>8, <1>10
  <2> QED
    BY <1>2, <1>3, <2>1, SameStage
<1> QED
  BY <1>1, <1>2, <1>3, <1>7, <1>8, <1>9, <1>10 DEF l

Move(F, G, t, g) ==
  /\ F \in [Thread -> Seq(Frame)] /\ DistinctIn(F)
  /\ t \in Thread /\ F[t] # <<>> /\ g \in Frame /\ g.obj = Last(F[t]).obj
  /\ G \in [Thread -> Seq(Frame)] /\ G[t] = Front(F[t]) \o <<g>>
  /\ \A u \in Thread : u # t => G[u] = F[u]

LEMMA Moved ==
  ASSUME NEW F, NEW G, NEW t, NEW g, Move(F, G, t, g)
  PROVE  /\ DistinctIn(G)
         /\ Last(F[t]) \in FramesIn(F, t) /\ Last(F[t]) \in Frame
         /\ \A u \in Thread : u # t => FramesIn(G, u) = FramesIn(F, u)
         /\ \A f : f \in FramesIn(G, t) <=>
              (f \in FramesIn(F, t) /\ f # Last(F[t])) \/ f = g
         /\ StageIn(G, g.obj) = g.pc
         /\ \A o \in Obj : o # g.obj => StageIn(G, o) = StageIn(F, o)
<1> USE DEF Move
<1> DEFINE H == [F EXCEPT ![t] = Front(F[t])]
<1>1. /\ H \in [Thread -> Seq(Frame)] /\ H[t] = Front(F[t])
      /\ \A u \in Thread : u # t => H[u] = F[u]
  BY Fronts
<1> HIDE DEF H
<1>2. /\ DistinctIn(H)
      /\ Last(F[t]) \in FramesIn(F, t) /\ Last(F[t]) \in Frame
      /\ \A u \in Thread : u # t => FramesIn(H, u) = FramesIn(F, u)
      /\ \A f : f \in FramesIn(H, t) <=> f \in FramesIn(F, t) /\ f # Last(F[t])
      /\ StageIn(H, Last(F[t]).obj) = "none"
      /\ \A o \in Obj : o # Last(F[t]).obj => StageIn(H, o) = StageIn(F, o)
  <2>1. Pop(F, H, t)
    BY <1>1 DEF Pop
  <2> QED
    BY <2>1, Popped
<1>3. /\ G[t] = Append(H[t], g)
      /\ \A u \in Thread : u # t => G[u] = H[u]
  <2>1. H[t] \in Seq(Frame)
    BY <1>1
  <2> QED
    BY <1>1, <2>1, AppendIsConcat
<1>4. /\ DistinctIn(G)
      /\ \A u \in Thread : u # t => FramesIn(G, u) = FramesIn(H, u)
      /\ \A f : f \in FramesIn(G, t) <=> f \in FramesIn(H, t) \/ f = g
      /\ StageIn(G, g.obj) = g.pc
      /\ \A o \in Obj : o # g.obj => StageIn(G, o) = StageIn(H, o)
  <2>1. StageIn(H, g.obj) = "none" /\ DistinctIn(H)
    BY <1>2
  <2> QED
    BY <1>1, <1>3, <2>1, Pushed
<1> QED
  BY <1>2, <1>4
-----------------------------------------------------------------------------
(* Counting references.                                                    *)

ReleasesIn(F, o) ==
  {r \in Thread \X Obj :
     \E f \in FramesIn(F, r[1]) : f.obj = r[2] /\ Contains(f.patients, o)}

\* A set grows by one element.
LEMMA OneMore ==
  ASSUME NEW A, IsFiniteSet(A), NEW B, NEW x, x \notin A,
         \A y : y \in B <=> y \in A \/ y = x
  PROVE  IsFiniteSet(B) /\ Cardinality(B) = Cardinality(A) + 1
<1>1. B = A \cup {x}
  OBVIOUS
<1> QED
  BY <1>1, FS_AddElement

\* The sets that RefsAccounted counts are finite; where it counts at least one
\* element, the count is positive.
LEMMA Counted ==
  ASSUME NEW A, IsFiniteSet(A)
  PROVE  /\ Cardinality(A) \in Nat
         /\ A = {} <=> Cardinality(A) = 0
         /\ \A x \in A : Cardinality(A) = 1 => A = {x}
<1>1. Cardinality(A) \in Nat /\ (A = {} <=> Cardinality(A) = 0)
  BY FS_CardinalityType, FS_EmptySet
<1>2. ASSUME NEW x \in A, Cardinality(A) = 1
      PROVE  A = {x}
  <2>1. IsFiniteSet(A \ {x}) /\ Cardinality(A \ {x}) = 0
    BY <1>2, FS_RemoveElement
  <2>2. A \ {x} = {}
    BY <2>1, FS_EmptySet
  <2> QED
    BY <2>2
<1> QED
  BY <1>1, <1>2

LEMMA FiniteCounts ==
  ASSUME NEW o \in Obj
  PROVE  /\ IsFiniteSet(Holders(o)) /\ IsFiniteSet(Nurses(o))
         /\ IsFiniteSet(Makers(o)) /\ IsFiniteSet(Releases(o))
<1>1. IsFiniteSet(Thread) /\ IsFiniteSet(Obj) /\ IsFiniteSet(Thread \X Obj)
  BY InstanceMapAssumption, FS_Product
<1>2. Holders(o) \subseteq Thread
  BY DEF Holders
<1>3. Nurses(o) \subseteq Obj
  BY DEF Nurses
<1>4. Makers(o) \subseteq Thread
  BY DEF Makers
<1>5. Releases(o) \subseteq Thread \X Obj
  BY DEF Releases
<1> QED
  BY <1>1, <1>2, <1>3, <1>4, <1>5, FS_Subset

\* A wrapper somebody refers to has a reference count; the only reference to the
\* wrapper that a call creates is the one of that call.
LEMMA Referenced ==
  ASSUME TypeOK, RefsAccounted, NEW o \in Obj
  PROVE  /\ \A t \in Thread : o \in hold[t] => rc[o] > 0
         /\ \A n \in Obj : Contains(keep_alive[n], o) => rc[o] > 0
         /\ \A t \in Thread : op[t] # None /\ op[t].obj = o => rc[o] > 0
         /\ \A t \in Thread : \A f \in Frames(t) :
              f.obj \in Obj /\ Contains(f.patients, o) => rc[o] > 0
<1> DEFINE h == Cardinality(Holders(o))   n == Cardinality(Nurses(o))
           m == Cardinality(Makers(o))    r == Cardinality(Releases(o))
<1>1. rc[o] = h + n + m + r
  BY DEF RefsAccounted
<1>2. /\ h \in Nat /\ n \in Nat /\ m \in Nat /\ r \in Nat
      /\ Holders(o) # {} => h # 0
      /\ Nurses(o) # {} => n # 0
      /\ Makers(o) # {} => m # 0
      /\ Releases(o) # {} => r # 0
  BY FiniteCounts, Counted
<1>3. Holders(o) # {} \/ Nurses(o) # {} \/ Makers(o) # {} \/ Releases(o) # {} => rc[o] > 0
  <2> HIDE DEF h, n, m, r
  <2> QED
    BY <1>1, <1>2
<1>4. ASSUME NEW t \in Thread, NEW f \in Frames(t), f.obj \in Obj, Contains(f.patients, o)
      PROVE  Releases(o) # {}
  <2>1. <<t, f.obj>> \in Releases(o)
    BY <1>4 DEF Releases
  <2> QED
    BY <2>1
<1> QED
  BY <1>3, <1>4 DEF Holders, Nurses, Makers

LEMMA Private ==
  ASSUME TypeOK, RefsAccounted, NEW t \in Thread, NEW o \in Obj,
         op[t] # None, op[t].obj = o, rc[o] = 1
  PROVE  /\ \A u \in Thread : o \notin hold[u]
         /\ \A n \in Obj : ~Contains(keep_alive[n], o)
         /\ \A u \in Thread : op[u] # None /\ op[u].obj = o => u = t
         /\ \A u \in Thread : \A f \in Frames(u) :
              f.obj \in Obj => ~Contains(f.patients, o)
<1> DEFINE h == Cardinality(Holders(o))   n == Cardinality(Nurses(o))
           m == Cardinality(Makers(o))    r == Cardinality(Releases(o))
<1>1. rc[o] = h + n + m + r
  BY DEF RefsAccounted
<1>2. t \in Makers(o)
  BY DEF Makers
<1>3. /\ h \in Nat /\ n \in Nat /\ m \in Nat /\ r \in Nat
      /\ Holders(o) # {} => h # 0
      /\ Nurses(o) # {} => n # 0
      /\ m # 0 /\ (m = 1 => Makers(o) = {t})
      /\ Releases(o) # {} => r # 0
  BY <1>2, FiniteCounts, Counted
<1>4. Holders(o) = {} /\ Nurses(o) = {} /\ Makers(o) = {t} /\ Releases(o) = {}
  <2> HIDE DEF h, n, m, r
  <2> QED
    BY <1>1, <1>3
<1>5. ASSUME NEW u \in Thread, NEW f \in Frames(u), f.obj \in Obj, Contains(f.patients, o)
      PROVE  FALSE
  <2>1. <<u, f.obj>> \in Releases(o)
    BY <1>5 DEF Releases
  <2> QED
    BY <1>4, <2>1
<1> QED
  BY <1>4, <1>5 DEF Holders, Nurses, Makers

\* Frames without patients release nothing.
LEMMA SameReleases ==
  ASSUME NEW F, NEW G, NEW o,
         \A t \in Thread : \A f :
           Contains(f.patients, o) => (f \in FramesIn(F, t) <=> f \in FramesIn(G, t))
  PROVE  ReleasesIn(F, o) = ReleasesIn(G, o)
<1>1. \A t \in Thread, n \in Obj :
        (\E f \in FramesIn(F, t) : f.obj = n /\ Contains(f.patients, o))
        <=> (\E f \in FramesIn(G, t) : f.obj = n /\ Contains(f.patients, o))
  OBVIOUS
<1> QED
  BY <1>1 DEF ReleasesIn
-----------------------------------------------------------------------------
(* What keeps the object of a wrapper alive.                               *)

\* A wrapper that a thread holds, that a nurse keeps or that a release has yet to
\* drop is alive, and no call is creating it.
LEMMA Held ==
  ASSUME IInv, NEW o \in Obj,
         \/ \E t \in Thread : o \in hold[t]
         \/ \E n \in Obj : Contains(keep_alive[n], o)
         \/ \E t \in Thread : \E f \in Frames(t) : f.obj \in Obj /\ Contains(f.patients, o)
  PROVE  /\ rc[o] > 0 /\ rc[o] \in Nat /\ inst[o] \in Instance /\ inst[o] # None
         /\ Stage(o) = "none"
         /\ \A t \in Thread : op[t] # None => op[t].obj # o
<1>1. TypeOK /\ RefsAccounted /\ Stages /\ Calls
  BY DEF IInv
<1>2. rc[o] > 0
  BY <1>1, Referenced
<1>3. rc[o] \in Nat /\ inst[o] # None /\ Stage(o) = "none" /\ inst[o] \in Instance
  BY <1>1, <1>2 DEF Stages, TypeOK
<1>4. ASSUME NEW t \in Thread, op[t] # None, op[t].obj = o
      PROVE  FALSE
  <2>1. op[t] \in CallState
    BY <1>1, <1>4 DEF TypeOK
  <2>2. op[t].step \in {"construct", "keep_alive", "register", "lookup", "new"}
    BY <2>1 DEF CallState
  <2>3. o # None
    BY InstanceMapAssumption
  <2>4. rc[o] = 1
    BY <1>1, <1>4, <2>2, <2>3 DEF Calls, CallSound
  <2> QED
    BY <1>1, <1>4, <2>4, Private
<1> QED
  BY <1>2, <1>3, <1>4

\* A wrapper that neither owns its object nor relies on the C++ side has a live
\* wrapper of the enclosing class at its address.
LEMMA Nurse ==
  ASSUME IInv, NEW y \in Obj, inst[y] # None, inst[y].addr # y, ~inst[y].destruct,
         Stage(y) # "release",
         ~(inst[y].addr \in Heap /\ (rc[y] > 0 => inst[y].addr \in owned))
  PROVE  \E s \in Obj : Encloses(s, y) /\ rc[s] > 0 /\ ~Doing(s, {"construct"})
<1>1. \/ \E s \in Obj : Contains(keep_alive[y], s) /\ Encloses(s, y)
      \/ Doing(y, {"keep_alive"})
  BY DEF IInv, Anchored
<1>2. CASE \E s \in Obj : Contains(keep_alive[y], s) /\ Encloses(s, y)
  BY <1>2, Held DEF Doing
<1>3. CASE Doing(y, {"keep_alive"})
  <2>1. PICK t \in Thread : op[t] # None /\ op[t].obj = y /\ op[t].step = "keep_alive"
    BY <1>3 DEF Doing
  <2>2. CallSound(t) /\ op[t] \in CallState /\ hold[t] \subseteq Obj
    BY <2>1 DEF IInv, Calls, TypeOK
  <2>3. op[t].self \in hold[t] /\ Encloses(op[t].self, y)
    BY <2>1, <2>2 DEF CallSound, Encloses
  <2> QED
    BY <2>2, <2>3, Held DEF Doing
<1> QED
  BY <1>1, <1>2, <1>3

\* The object of a live wrapper belongs to the C++ side or to a live wrapper: the
\* enclosing wrappers end at one that owns the object, since a class is not its own
\* first field.
LEMMA Rooted ==
  ASSUME IInv, NEW x \in Obj, inst[x] # None, rc[x] > 0, ~Doing(x, {"construct"})
  PROVE  \/ inst[x].addr \in owned
         \/ \E p \in Obj : Pending(p) /\ inst[p].addr = inst[x].addr /\ rc[p] > 0
<1> DEFINE Live == {y \in Obj : inst[y] # None /\ inst[y].addr = inst[x].addr
                               /\ rc[y] > 0 /\ ~Doing(y, {"construct"})}
<1>1. PICK rank \in [Type -> 0 .. Cardinality(Type)] :
        \A tp \in Type : Field[tp] # None => rank[tp] < rank[Field[tp]]
  BY InstanceMapAssumption
<1>2. Field \in [Type -> Type \cup {None}] /\ None \notin Type
      /\ 0 .. Cardinality(Type) \subseteq Nat
  BY InstanceMapAssumption, FS_CardinalityType
<1>3. \A y \in Obj : inst[y] # None => inst[y].type \in Type
  BY DEF IInv, TypeOK, Instance
<1> DEFINE R == {rank[inst[y].type] : y \in Live}
<1>4. R \in SUBSET Nat /\ R # {}
  BY <1>1, <1>2, <1>3
<1>5. PICK y \in Live : \A z \in Live : rank[inst[y].type] <= rank[inst[z].type]
  <2>1. Min(R) \in R /\ \A j \in R : Min(R) <= j
    BY <1>4, Least
  <2> QED
    BY <2>1
<1>6. CASE inst[y].destruct
  BY <1>5, <1>6 DEF Pending
<1>7. CASE ~inst[y].destruct
  <2>1. inst[y].addr # y
    BY <1>5, <1>7 DEF IInv, Flags
  <2>2. Stage(y) # "release"
    <3>1. rc[y] \in Nat /\ rc[y] # 0
      BY <1>5 DEF IInv, TypeOK
    <3> QED
      BY <3>1 DEF IInv, Stages
  <2>3. ASSUME inst[y].addr \notin owned
        PROVE  FALSE
    <3>1. PICK s \in Obj : Encloses(s, y) /\ rc[s] > 0 /\ ~Doing(s, {"construct"})
      BY <1>5, <1>7, <2>1, <2>2, <2>3, Nurse
    <3>2. s \in Live
      BY <1>5, <3>1 DEF Encloses
    <3>3. rank[inst[s].type] < rank[inst[y].type]
      BY <1>1, <1>2, <1>3, <1>5, <3>1 DEF Encloses
    <3>4. rank[inst[s].type] \in Nat /\ rank[inst[y].type] \in Nat
      BY <1>1, <1>2, <1>3, <1>5, <3>2
    <3> QED
      BY <1>5, <3>2, <3>3, <3>4
  <2> QED
    BY <1>5, <2>3
<1> QED
  BY <1>6, <1>7

\* An address inside a wrapper's own slot is in use only while that wrapper is alive
\* and constructed.
LEMMA Occupied ==
  ASSUME IInv, NEW x \in Obj, inst[x] # None, inst[x].addr \in Obj,
         \/ rc[x] > 0 /\ ~Doing(x, {"construct"})
         \/ inst[x].addr # x /\ Stage(x) # "release"
  PROVE  LET a == inst[x].addr IN
           inst[a] # None /\ inst[a].addr = a /\ rc[a] > 0 /\ inst[a].destruct
<1>1. owned \cap Obj = {} /\ Heap \cap Obj = {}
  BY InstanceMapAssumption DEF IInv, TypeOK
<1>2. ASSUME NEW y \in Obj, inst[y] # None, inst[y].addr = inst[x].addr,
             rc[y] > 0, ~Doing(y, {"construct"})
      PROVE  LET a == inst[x].addr IN
               inst[a] # None /\ inst[a].addr = a /\ rc[a] > 0 /\ inst[a].destruct
  <2>1. PICK p \in Obj : Pending(p) /\ inst[p].addr = inst[x].addr /\ rc[p] > 0
    BY <1>1, <1>2, Rooted
  <2>2. inst[p].addr = p
    BY <2>1 DEF IInv, Flags, Pending
  <2> QED
    BY <2>1, <2>2 DEF Pending
<1>3. CASE rc[x] > 0 /\ ~Doing(x, {"construct"})
  BY <1>2, <1>3
<1>4. CASE inst[x].addr # x /\ Stage(x) # "release"
  <2>1. ~inst[x].destruct
    BY <1>4 DEF IInv, Flags
  <2>2. PICK s \in Obj : Encloses(s, x) /\ rc[s] > 0 /\ ~Doing(s, {"construct"})
    BY <1>1, <1>4, <2>1, Nurse
  <2> QED
    BY <1>2, <2>2 DEF Encloses
<1> QED
  BY <1>3, <1>4

-----------------------------------------------------------------------------
(* Every action preserves the invariant.                                   *)

\* No two calls and no wrapper stand in the way of a new call that takes ownership;
\* a new call does not disturb one that does.
LEMMA PutStep ==
  ASSUME IInv, "none" \notin Policy,
         NEW t \in Thread, NEW a \in Addr, NEW tp \in Type,
         NEW pol, NEW self \in Obj \cup {None}, Put(t, a, tp, pol, self),
         pol \in {"take_ownership", "reference"} => a \in owned,
         pol = "take_ownership" =>
           /\ \A x \in Obj : inst[x] # None /\ inst[x].addr = a => rc[x] = 0
           /\ \A u \in Thread : op[u] # None => op[u].addr # a,
         pol = "reference_internal" =>
           /\ self \in hold[t] /\ inst[self] # None
           /\ inst[self].addr = a /\ Field[inst[self].type] = tp,
         \A u \in Thread : op[u] # None /\ op[u].step \in {"lookup", "new"}
                          /\ op[u].pol = "take_ownership" => op[u].addr # a
  PROVE  IInv'
<1> DEFINE c == [Call("lookup", tp, a) EXCEPT !.pol = pol, !.self = self]
<1>1. /\ pol \in Policy /\ pol \in {"take_ownership", "reference", "reference_internal"}
      /\ op[t] = None
  BY InstanceMapAssumption DEF Put, Idle
<1>2. /\ c \in CallState /\ c # None
      /\ c.step = "lookup" /\ c.type = tp /\ c.addr = a /\ c.pol = pol
      /\ c.self = self /\ c.obj = None
  BY <1>1, InstanceMapAssumption DEF Call, CallState
<1>3. /\ op' \in [Thread -> CallState \cup {None}]
      /\ op'[t] = c /\ \A u \in Thread : u # t => op'[u] = op[u]
  BY <1>2 DEF Put, IInv, TypeOK
<1> HIDE DEF c
<1>4. /\ inst' = inst /\ rc' = rc /\ inst_c2p' = inst_c2p /\ keep_alive' = keep_alive
      /\ cell' = cell /\ owned' = owned /\ pool' = pool /\ hold' = hold
      /\ frames' = frames /\ failed' = failed
  BY DEF Put
<1>5. None \notin Obj
  BY InstanceMapAssumption
<1>6. \A o \in Obj : \A S : Doing(o, S)' <=> Doing(o, S)
  BY <1>1, <1>2, <1>3, <1>5 DEF Doing
<1>7. TypeOK'
  BY <1>3, <1>4 DEF IInv, TypeOK
<1>8. FramesSound' /\ Stages'
  BY <1>4 DEF IInv, FramesSound, Stages, Stage, Clean, Internal
<1>9. Calls'
  <2>1. ASSUME NEW u \in Thread, op'[u] # None
        PROVE  CallSound(u)'
    <3>1. CASE u = t
      BY <1>1, <1>2, <1>3, <1>4, <3>1 DEF CallSound
    <3>2. CASE u # t
      <4>1. op[u] # None /\ op'[u] = op[u] /\ CallSound(u)
        BY <1>3, <2>1, <3>2 DEF IInv, Calls
      <4> QED
        BY <1>1, <1>2, <1>3, <1>4, <4>1 DEF CallSound, NewInst
    <3> QED
      BY <3>1, <3>2
  <2> QED
    BY <2>1 DEF Calls
<1>10. Flags' /\ Anchored'
  BY <1>4, <1>6 DEF IInv, Flags, Anchored, Encloses, Stage
<1>11. Cells'
  BY <1>4 DEF IInv, Cells, Pending, Stage
<1>12. Mapped' /\ Nursing'
  BY <1>4, <1>6 DEF IInv, Mapped, Nursing, Stage
<1>13. RefsAccounted'
  <2>1. ASSUME NEW o \in Obj
        PROVE  Makers(o)' = Makers(o)
    BY <1>1, <1>2, <1>3, <1>5 DEF Makers
  <2>2. ASSUME NEW o \in Obj
        PROVE  /\ Holders(o)' = Holders(o) /\ Nurses(o)' = Nurses(o)
               /\ Releases(o)' = Releases(o)
    BY <1>4 DEF Holders, Nurses, Releases, Frames
  <2> QED
    BY <1>4, <2>1, <2>2 DEF IInv, RefsAccounted
<1>14. Pools' /\ NoFailure'
  BY <1>4 DEF IInv, Pools, NoFailure, Stage
<1> QED
  BY <1>7, <1>8, <1>9, <1>10, <1>11, <1>12, <1>13, <1>14 DEF IInv

LEMMA PutOwnedStep ==
  ASSUME IInv, "none" \notin Policy, NEW t \in Thread, NEW a \in Heap, NEW tp \in Type,
         PutOwned(t, a, tp)
  PROVE  IInv'
<1>1. a \in Addr /\ a \in owned /\ Put(t, a, tp, "take_ownership", None)
  BY DEF PutOwned, Addr
<1>2. \A u \in Thread : op[u] # None => op[u].addr # a
  BY DEF PutOwned, Passing
<1>3. \A x \in Obj : inst[x] # None /\ inst[x].addr = a => rc[x] = 0
  <2>1. \A x \in Obj : rc[x] \in Nat
    BY DEF IInv, TypeOK
  <2> QED
    BY <2>1 DEF PutOwned, Wrappers
<1> QED
  BY <1>1, <1>2, <1>3, PutStep

LEMMA PutReferenceStep ==
  ASSUME IInv, "none" \notin Policy, NEW t \in Thread, NEW a \in Heap, NEW tp \in Type,
         PutReference(t, a, tp)
  PROVE  IInv'
<1>1. a \in Addr /\ a \in owned /\ Put(t, a, tp, "reference", None)
  BY DEF PutReference, Addr
<1>2. \A u \in Thread : op[u] # None /\ op[u].step \in {"lookup", "new"}
                     /\ op[u].pol = "take_ownership" => op[u].addr # a
  BY DEF PutReference, Passing
<1> QED
  BY <1>1, <1>2, PutStep

LEMMA PutFieldStep ==
  ASSUME IInv, "none" \notin Policy, NEW t \in Thread, NEW self \in Obj, NEW pol \in Policy,
         PutField(t, self, pol)
  PROVE  IInv'
<1> DEFINE a == inst[self].addr  tp == Field[inst[self].type]
<1>1. /\ self \in hold[t] /\ pol = "reference_internal" /\ tp # None
      /\ Put(t, a, tp, pol, self)
  BY DEF PutField
<1>2. rc[self] > 0 /\ rc[self] \in Nat /\ inst[self] \in Instance /\ inst[self] # None
  BY <1>1, Held
<1>3. a \in Addr /\ tp \in Type
  BY <1>1, <1>2, InstanceMapAssumption DEF Instance
<1>4. \A u \in Thread : op[u] # None /\ op[u].step \in {"lookup", "new"}
                     /\ op[u].pol = "take_ownership" => op[u].addr # a
  BY <1>2 DEF IInv, Calls, CallSound
<1> HIDE DEF a, tp
<1> QED
  BY <1>1, <1>2, <1>3, <1>4, PutStep DEF a, tp

\* PutRefused and PutMissed: without the policy none, a call that finds no wrapper
\* goes on to create one.
LEMMA PutMissedStep ==
  ASSUME IInv, "none" \notin Policy, NEW t \in Thread, PutMissed(t) \/ PutRefused(t)
  PROVE  IInv'
<1>1. At(t, "lookup") /\ op[t] \in CallState /\ CallSound(t)
  BY DEF PutMissed, PutRefused, At, IInv, Calls, TypeOK
<1>2. /\ op[t] # None /\ op[t].step = "lookup" /\ op[t].obj = None
      /\ op[t].pol # "none"
  BY <1>1 DEF At, CallSound
<1>3. /\ op' = [op EXCEPT ![t].step = "new"]
      /\ inst' = inst /\ rc' = rc /\ inst_c2p' = inst_c2p /\ keep_alive' = keep_alive
      /\ cell' = cell /\ owned' = owned /\ pool' = pool /\ hold' = hold
      /\ frames' = frames /\ failed' = failed
  BY <1>2 DEF PutMissed, PutRefused, Goto
<1>4. /\ op' \in [Thread -> CallState \cup {None}]
      /\ \A u \in Thread : u # t => op'[u] = op[u]
      /\ op'[t] \in CallState /\ op'[t] # None
      /\ op'[t].step = "new" /\ op'[t].type = op[t].type /\ op'[t].addr = op[t].addr
      /\ op'[t].pol = op[t].pol /\ op'[t].self = op[t].self /\ op'[t].obj = None
  <2>1. [op[t] EXCEPT !.step = "new"] \in CallState
    BY <1>1 DEF CallState
  <2>2. None \notin CallState
    BY InstanceMapAssumption
  <2>3. op \in [Thread -> CallState \cup {None}]
    BY DEF IInv, TypeOK
  <2> QED
    BY <1>1, <1>2, <1>3, <2>1, <2>2, <2>3 DEF CallState
<1>5. None \notin Obj
  BY InstanceMapAssumption
<1>6. \A o \in Obj : \A S : Doing(o, S)' <=> Doing(o, S)
  BY <1>2, <1>4, <1>5 DEF Doing
<1>7. TypeOK'
  BY <1>3, <1>4 DEF IInv, TypeOK
<1>8. FramesSound' /\ Stages'
  BY <1>3 DEF IInv, FramesSound, Stages, Stage, Clean, Internal
<1>9. Calls'
  <2>1. ASSUME NEW u \in Thread, op'[u] # None
        PROVE  CallSound(u)'
    <3>1. CASE u = t
      BY <1>1, <1>2, <1>3, <1>4, <3>1 DEF CallSound
    <3>2. CASE u # t
      <4>1. op[u] # None /\ op'[u] = op[u] /\ CallSound(u)
        BY <1>4, <2>1, <3>2 DEF IInv, Calls
      <4> QED
        BY <1>2, <1>3, <1>4, <4>1 DEF CallSound, NewInst
    <3> QED
      BY <3>1, <3>2
  <2> QED
    BY <2>1 DEF Calls
<1>10. Flags' /\ Anchored'
  BY <1>3, <1>6 DEF IInv, Flags, Anchored, Encloses, Stage
<1>11. Cells'
  BY <1>3 DEF IInv, Cells, Pending, Stage
<1>12. Mapped' /\ Nursing'
  BY <1>3, <1>6 DEF IInv, Mapped, Nursing, Stage
<1>13. RefsAccounted'
  <2>1. ASSUME NEW o \in Obj
        PROVE  Makers(o)' = Makers(o)
    BY <1>2, <1>4, <1>5 DEF Makers
  <2>2. ASSUME NEW o \in Obj
        PROVE  /\ Holders(o)' = Holders(o) /\ Nurses(o)' = Nurses(o)
               /\ Releases(o)' = Releases(o)
    BY <1>3 DEF Holders, Nurses, Releases, Frames
  <2> QED
    BY <1>3, <2>1, <2>2 DEF IInv, RefsAccounted
<1>14. Pools' /\ NoFailure'
  BY <1>3 DEF IInv, Pools, NoFailure, Stage
<1> QED
  BY <1>7, <1>8, <1>9, <1>10, <1>11, <1>12, <1>13, <1>14 DEF IInv

LEMMA CppNewStep ==
  ASSUME IInv, NEW a \in Heap, CppNew(a)
  PROVE  IInv'
<1>1. /\ a \in Addr /\ a \notin Obj /\ cell[a] = "free"
      /\ inst' = inst /\ rc' = rc /\ inst_c2p' = inst_c2p /\ keep_alive' = keep_alive
      /\ op' = op /\ pool' = pool /\ hold' = hold
      /\ frames' = frames /\ failed' = failed
  BY InstanceMapAssumption DEF CppNew, Addr
<1>2. /\ cell' \in [Addr -> {"free", "raw", "live"}]
      /\ cell'[a] = "live" /\ \A b \in Addr : b # a => cell'[b] = cell[b]
      /\ owned' = owned \cup {a} /\ owned \subseteq Heap
  BY <1>1 DEF CppNew, IInv, TypeOK
<1>3. \A o \in Obj : inst[o] # None => inst[o].addr \in Addr
  BY DEF IInv, TypeOK, Instance
<1>4. Obj \subseteq Addr /\ Heap \subseteq Addr
  BY DEF Addr
<1>5. TypeOK'
  BY <1>1, <1>2 DEF IInv, TypeOK
<1>6. FramesSound' /\ Stages'
  BY <1>1, <1>2, <1>3, <1>4 DEF IInv, FramesSound, Stages, Stage, Clean, Internal
<1>7. Calls'
  <2>1. ASSUME NEW u \in Thread, op[u] # None
        PROVE  CallSound(u)'
    <3>1. CallSound(u)
      BY <2>1 DEF IInv, Calls
    <3> QED
      BY <1>1, <1>2, <3>1 DEF CallSound, NewInst
  <2> QED
    BY <1>1, <2>1 DEF Calls
<1>8. Flags' /\ Anchored'
  BY <1>1, <1>2 DEF IInv, Flags, Anchored, Encloses, Stage, Doing
<1>9. Cells'
  BY <1>1, <1>2, <1>3, <1>4 DEF IInv, Cells, Pending, Stage, Stages
<1>10. Mapped' /\ Nursing'
  BY <1>1 DEF IInv, Mapped, Nursing, Stage, Doing
<1>11. RefsAccounted'
  BY <1>1 DEF IInv, RefsAccounted, Holders, Nurses, Makers, Releases, Frames
<1>12. Pools' /\ NoFailure'
  BY <1>1, <1>2, <1>4 DEF IInv, Pools, NoFailure, Stage
<1> QED
  BY <1>5, <1>6, <1>7, <1>8, <1>9, <1>10, <1>11, <1>12 DEF IInv

LEMMA CppDeleteStep ==
  ASSUME IInv, NEW a \in Heap, CppDelete(a)
  PROVE  IInv'
<1>1. /\ a \in Addr /\ a \notin Obj /\ a \in owned
      /\ inst' = inst /\ rc' = rc /\ inst_c2p' = inst_c2p /\ keep_alive' = keep_alive
      /\ op' = op /\ pool' = pool /\ hold' = hold
      /\ frames' = frames /\ failed' = failed
  BY InstanceMapAssumption DEF CppDelete, Addr
<1>2. /\ cell' \in [Addr -> {"free", "raw", "live"}]
      /\ cell'[a] = "free" /\ \A b \in Addr : b # a => cell'[b] = cell[b]
      /\ owned' = owned \ {a} /\ owned \subseteq Heap
  BY <1>1 DEF CppDelete, IInv, TypeOK
<1>3. \A o \in Obj : inst[o] # None => inst[o].addr \in Addr
  BY DEF IInv, TypeOK, Instance
<1>4. Obj \subseteq Addr /\ Heap \subseteq Addr
  BY DEF Addr
<1>5. /\ \A u \in Thread : op[u] # None => op[u].addr # a
      /\ \A x \in Obj : inst[x] # None /\ inst[x].addr = a => ~(rc[x] > 0)
  BY DEF CppDelete, Passing, Wrappers
<1>6. TypeOK'
  BY <1>1, <1>2 DEF IInv, TypeOK
<1>7. FramesSound' /\ Stages'
  <2>1. cell[a] = "live"
    BY <1>1 DEF IInv, Cells
  <2> QED
    BY <1>1, <1>2, <1>3, <1>4, <2>1 DEF IInv, FramesSound, Stages, Stage, Clean, Internal
<1>8. Calls'
  <2>1. ASSUME NEW u \in Thread, op[u] # None
        PROVE  CallSound(u)'
    <3>1. CallSound(u)
      BY <2>1 DEF IInv, Calls
    <3> QED
      BY <1>1, <1>2, <1>5, <2>1, <3>1 DEF CallSound, NewInst
  <2> QED
    BY <1>1, <2>1 DEF Calls
<1>9. Flags' /\ Anchored'
  BY <1>1, <1>2, <1>5 DEF IInv, Flags, Anchored, Encloses, Stage, Doing
<1>10. Cells'
  BY <1>1, <1>2, <1>3, <1>4 DEF IInv, Cells, Pending, Stage, Stages
<1>11. Mapped' /\ Nursing'
  BY <1>1 DEF IInv, Mapped, Nursing, Stage, Doing
<1>12. RefsAccounted'
  BY <1>1 DEF IInv, RefsAccounted, Holders, Nurses, Makers, Releases, Frames
<1>13. Pools' /\ NoFailure'
  BY <1>1, <1>2, <1>4 DEF IInv, Pools, NoFailure, Stage
<1> QED
  BY <1>6, <1>7, <1>8, <1>9, <1>10, <1>11, <1>12, <1>13 DEF IInv

\* A thread obtains a reference to a live wrapper that no call is creating.
LEMMA ReceiveStep ==
  ASSUME IInv, NEW t \in Thread, NEW o \in Obj, rc[o] > 0,
         \A u \in Thread : op[u] # None => op[u].obj # o,
         Receive(t, o),
         \/ op' = op
         \/ op[t] # None /\ op[t].obj = None /\ op' = [op EXCEPT ![t] = None],
         UNCHANGED <<inst, inst_c2p, keep_alive, cell, owned, pool, frames, failed>>
  PROVE  IInv'
<1>1. /\ inst' = inst /\ inst_c2p' = inst_c2p /\ keep_alive' = keep_alive
      /\ cell' = cell /\ owned' = owned /\ pool' = pool /\ frames' = frames
      /\ failed' = failed
  OBVIOUS
<1>2. /\ hold' \in [Thread -> SUBSET Obj]
      /\ hold'[t] = hold[t] \cup {o} /\ \A u \in Thread : u # t => hold'[u] = hold[u]
  BY DEF Receive, IInv, TypeOK
<1>3. /\ rc' \in [Obj -> Nat] /\ rc[o] \in Nat
      /\ \A p \in Obj : p # o => rc'[p] = rc[p]
      /\ rc'[o] = IF o \in hold[t] THEN rc[o] ELSE rc[o] + 1
      /\ \A p \in Obj : (rc'[p] > 0 <=> rc[p] > 0) /\ (rc'[p] = 0 <=> rc[p] = 0)
  BY DEF Receive, IInv, TypeOK
<1>4. /\ op' \in [Thread -> CallState \cup {None}]
      /\ \A u \in Thread : op'[u] # None => op[u] # None /\ op'[u] = op[u]
      /\ \A u \in Thread : op'[u] = op[u] \/ (u = t /\ op[t] # None /\ op[t].obj = None)
      /\ None \notin Obj
  BY InstanceMapAssumption DEF IInv, TypeOK
<1>5. \A p \in Obj : \A S : Doing(p, S)' <=> Doing(p, S)
  BY <1>4 DEF Doing
<1>6. TypeOK'
  BY <1>1, <1>2, <1>3, <1>4 DEF IInv, TypeOK
<1>7. FramesSound' /\ Stages'
  BY <1>1, <1>3 DEF IInv, FramesSound, Stages, Stage, Clean, Internal
<1>8. Calls'
  <2>1. ASSUME NEW u \in Thread, op'[u] # None
        PROVE  CallSound(u)'
    <3>1. CallSound(u) /\ op'[u] = op[u] /\ op[u] # None /\ op[u].obj # o
      BY <1>4, <2>1 DEF IInv, Calls
    <3> QED
      BY <1>1, <1>2, <1>3, <1>4, <3>1 DEF CallSound, NewInst
  <2> QED
    BY <2>1 DEF Calls
<1>9. Flags' /\ Anchored'
  BY <1>1, <1>3, <1>5 DEF IInv, Flags, Anchored, Encloses, Stage
<1>10. Cells'
  BY <1>1, <1>3 DEF IInv, Cells, Pending, Stage
<1>11. Mapped' /\ Nursing'
  BY <1>1, <1>5 DEF IInv, Mapped, Nursing, Stage
<1>12. RefsAccounted'
  <2>1. ASSUME NEW p \in Obj
        PROVE  /\ Makers(p)' = Makers(p) /\ Nurses(p)' = Nurses(p)
               /\ Releases(p)' = Releases(p)
    BY <1>1, <1>4 DEF Makers, Nurses, Releases, Frames
  <2>2. ASSUME NEW p \in Obj, p # o \/ o \in hold[t]
        PROVE  Holders(p)' = Holders(p) /\ rc'[p] = rc[p]
    BY <1>2, <1>3, <2>2 DEF Holders
  <2>3. ASSUME o \notin hold[t]
        PROVE  /\ Cardinality(Holders(o))' = Cardinality(Holders(o)) + 1
               /\ rc'[o] = rc[o] + 1
    <3>1. t \notin Holders(o) /\ \A u : u \in Holders(o)' <=> u \in Holders(o) \/ u = t
      BY <1>2, <2>3 DEF Holders
    <3> QED
      BY <1>3, <2>3, <3>1, FiniteCounts, OneMore
  <2>4. /\ Cardinality(Holders(o)) \in Nat /\ Cardinality(Nurses(o)) \in Nat
        /\ Cardinality(Makers(o)) \in Nat /\ Cardinality(Releases(o)) \in Nat
    BY FiniteCounts, Counted
  <2> QED
    BY <2>1, <2>2, <2>3, <2>4 DEF IInv, RefsAccounted
<1>13. Pools' /\ NoFailure'
  BY <1>1, <1>3 DEF IInv, Pools, NoFailure, Stage
<1> QED
  BY <1>6, <1>7, <1>8, <1>9, <1>10, <1>11, <1>12, <1>13 DEF IInv

LEMMA ShareStep ==
  ASSUME IInv, NEW t \in Thread, NEW u \in Thread, NEW o \in Obj, Share(t, u, o)
  PROVE  IInv'
<1>1. /\ o \in hold[t] /\ Receive(u, o) /\ op' = op
      /\ UNCHANGED <<inst, inst_c2p, keep_alive, cell, owned, pool, frames, failed>>
  BY DEF Share
<1>2. rc[o] > 0 /\ \A v \in Thread : op[v] # None => op[v].obj # o
  BY <1>1, Held
<1> QED
  BY <1>1, <1>2, ReceiveStep

\* A lookup finds no wrapper that a constructor is still at work on: its address is
\* only in use after that.
LEMMA PutFoundStep ==
  ASSUME IInv, NEW t \in Thread, PutFound(t)
  PROVE  IInv'
<1> DEFINE c == op[t]
           hits == Matches(c.addr, c.type)
           i == CHOOSE k \in hits : \A j \in hits : k <= j
           o == inst_c2p[c.addr][i]
<1>1. /\ c # None /\ c.step = "lookup" /\ hits # {} /\ Receive(t, o)
      /\ op' = [op EXCEPT ![t] = None]
      /\ UNCHANGED <<inst, inst_c2p, keep_alive, cell, owned, pool, frames, failed>>
  BY DEF PutFound, At
<1>2. c \in CallState /\ CallSound(t) /\ c.addr \in Addr /\ c.obj = None
  <2>1. c \in CallState /\ CallSound(t)
    BY <1>1 DEF IInv, TypeOK, Calls
  <2> QED
    BY <1>1, <2>1 DEF CallState, CallSound
<1>3. inst_c2p[c.addr] \in Seq(Obj)
  BY <1>2 DEF IInv, TypeOK
<1>4. i \in hits
  <2>1. hits \in SUBSET Nat
    BY <1>3 DEF Matches
  <2>2. Min(hits) \in hits /\ \A j \in hits : Min(hits) <= j
    BY <1>1, <2>1, Least
  <2> HIDE DEF hits
  <2> QED
    BY <2>2
<1> HIDE DEF i
<1>5. o \in Obj /\ rc[o] > 0 /\ Contains(inst_c2p[c.addr], o)
  <2>1. i \in DOMAIN inst_c2p[c.addr] /\ rc[inst_c2p[c.addr][i]] > 0
    BY <1>4 DEF Matches
  <2> QED
    BY <1>3, <2>1 DEF Contains
<1> HIDE DEF o
<1>6. /\ inst[o] # None /\ inst[o].addr = c.addr
      /\ ~Doing(o, {"keep_alive", "register"})
  BY <1>2, <1>5 DEF IInv, Mapped
<1>7. ~Doing(o, {"construct"})
  <2>1. SUFFICES ASSUME NEW u \in Thread, op[u] # None, op[u].obj = o,
                        op[u].step = "construct"
                 PROVE  FALSE
    BY DEF Doing
  <2>2. CallSound(u) /\ inst[o] = NewInst(op[u].type, o)
    BY <2>1 DEF IInv, Calls, CallSound
  <2>3. c.addr = o
    BY <1>6, <2>2 DEF NewInst
  <2>4. o \notin owned
    <3>1. owned \subseteq Heap
      BY DEF IInv, TypeOK
    <3> QED
      BY <1>5, <3>1, InstanceMapAssumption
  <2>5. c.pol = "reference_internal" /\ c.self \in hold[t] /\ c.self \in Obj
        /\ inst[c.self] # None /\ inst[c.self].addr = o
    BY <1>1, <1>2, <2>3, <2>4 DEF CallSound, IInv, TypeOK
  <2>6. inst[o].destruct
    <3>1. PICK x \in Obj : x \in hold[t] /\ inst[x] # None /\ inst[x].addr = o
      BY <2>5
    <3>2. rc[x] > 0 /\ ~Doing(x, {"construct"})
      BY <3>1, Held DEF Doing
    <3> QED
      BY <1>5, <3>1, <3>2, Occupied
  <2> QED
    BY <2>2, <2>6 DEF NewInst
<1>8. ASSUME NEW u \in Thread, op[u] # None, op[u].obj = o
      PROVE  FALSE
  <2>1. op[u] \in CallState /\ CallSound(u)
    BY <1>8 DEF IInv, TypeOK, Calls
  <2>2. op[u].step \in {"lookup", "new"}
    BY <1>6, <1>7, <1>8, <2>1 DEF CallState, Doing
  <2> QED
    BY <1>5, <1>8, <2>1, <2>2, InstanceMapAssumption DEF CallSound
<1> HIDE DEF c
<1>9. op[t] # None /\ op[t].obj = None
  BY <1>1, <1>2 DEF c
<1> QED
  BY <1>1, <1>5, <1>8, <1>9, ReceiveStep DEF o

\* Py_DECREF: F are the stacks before a new frame is pushed; the thread gives up one
\* reference to o, as a holder, as the maker of o or by releasing it as a patient.
LEMMA DecRefStep ==
  ASSUME IInv, NEW t \in Thread, NEW o \in Obj, rc[o] > 0,
         NEW F \in [Thread -> Seq(Frame)], DistinctIn(F), PatientsIn(F),
         \A x \in Obj : StageIn(F, x) = Stage(x),
         \A u \in Thread : u # t => F[u] = frames[u],
         DecRef(t, o, F[t]),
         hold' \in [Thread -> SUBSET Obj], op' \in [Thread -> CallState \cup {None}],
         \A u \in Thread : op'[u] # None =>
           op[u] # None /\ op'[u] = op[u] /\ op[u].obj # o /\ hold'[u] = hold[u],
         \A x \in Obj : \A S : x # o \/ rc[o] # 1 => (Doing(x, S)' <=> Doing(x, S)),
         ~Doing(o, {"keep_alive", "register"}),
         \A p \in Obj :
           Cardinality(Holders(p))' + Cardinality(Makers(p))' + Cardinality(ReleasesIn(F, p))
           = Cardinality(Holders(p)) + Cardinality(Makers(p)) + Cardinality(Releases(p))
             - (IF p = o THEN 1 ELSE 0),
         UNCHANGED <<inst, inst_c2p, keep_alive, cell, owned, pool, failed>>
  PROVE  IInv'
<1>1. /\ inst' = inst /\ inst_c2p' = inst_c2p /\ keep_alive' = keep_alive
      /\ cell' = cell /\ owned' = owned /\ pool' = pool /\ failed' = failed
  OBVIOUS
<1>2. /\ rc' \in [Obj -> Nat] /\ rc[o] \in Nat /\ rc'[o] = rc[o] - 1
      /\ \A p \in Obj : p # o => rc'[p] = rc[p]
      /\ \A p \in Obj : rc[p] \in Nat /\ rc'[p] \in Nat
      /\ (rc'[o] = 0 <=> rc[o] = 1)
  BY DEF DecRef, IInv, TypeOK
<1>3. inst[o] # None /\ inst[o] \in Instance /\ Stage(o) = "none"
  BY <1>2 DEF IInv, Stages, TypeOK
<1> DEFINE d == Dealloc(o)
<1>4. /\ d \in Frame /\ d.obj = o /\ d.patients = <<>>
      /\ d.pc \in {"recycle", "destruct", "unmap"}
      /\ d.pc = "recycle" => Clean(o)
      /\ d.pc = "destruct" => inst[o].destruct
      /\ inst[o].destruct => d.pc \in {"recycle", "destruct"}
  BY DEF Dealloc, Frame
<1>5. /\ frames' \in [Thread -> Seq(Frame)]
      /\ \A u \in Thread : u # t => frames'[u] = F[u]
      /\ frames'[t] = IF rc[o] = 1 THEN Append(F[t], d) ELSE F[t]
  <2>1. F[t] \in Seq(Frame) /\ Append(F[t], d) \in Seq(Frame)
    BY <1>4
  <2> QED
    BY <2>1 DEF DecRef, IInv, TypeOK
<1> HIDE DEF d
<1>6. /\ DistinctIn(frames') /\ PatientsIn(frames')
      /\ \A x \in Obj : x # o => StageIn(frames', x) = Stage(x)
      /\ StageIn(frames', o) = IF rc[o] = 1 THEN d.pc ELSE "none"
      /\ \A p \in Obj : ReleasesIn(frames', p) = ReleasesIn(F, p)
  <2>1. CASE rc[o] = 1
    <3>1. StageIn(F, d.obj) = "none"
      BY <1>3, <1>4
    <3>2. /\ DistinctIn(frames')
          /\ \A u \in Thread : u # t => FramesIn(frames', u) = FramesIn(F, u)
          /\ \A f : f \in FramesIn(frames', t) <=> f \in FramesIn(F, t) \/ f = d
          /\ StageIn(frames', d.obj) = d.pc
          /\ \A x \in Obj : x # d.obj => StageIn(frames', x) = StageIn(F, x)
      BY <1>4, <1>5, <2>1, <3>1, Pushed
    <3>3. PatientsIn(frames')
      <4>1. IsInjective(d.patients)
        BY <1>4, Emptied
      <4> QED
        BY <1>4, <3>2, <4>1 DEF PatientsIn
    <3>4. ASSUME NEW p \in Obj
          PROVE  ReleasesIn(frames', p) = ReleasesIn(F, p)
      <4>1. ~Contains(d.patients, p)
        BY <1>4 DEF Contains
      <4>2. \A u \in Thread : \A f : Contains(f.patients, p) =>
              (f \in FramesIn(frames', u) <=> f \in FramesIn(F, u))
        BY <3>2, <4>1
      <4> QED
        BY <4>2, SameReleases
    <3> QED
      BY <1>4, <2>1, <3>2, <3>3, <3>4
  <2>2. CASE rc[o] # 1
    <3>1. frames' = F
      BY <1>5, <2>2
    <3> QED
      BY <1>3, <2>2, <3>1
  <2> QED
    BY <2>1, <2>2
<1>7. TypeOK'
  BY <1>1, <1>2, <1>5 DEF IInv, TypeOK
<1>8. FramesSound' /\ Stages'
  <2>1. FramesSound'
    BY <1>6 DEF FramesSound
  <2>2. ASSUME NEW x \in Obj, x # o
        PROVE  /\ inst'[x] = None => rc'[x] = 0
               /\ Stage(x)' # "none" => inst'[x] # None /\ rc'[x] = 0
               /\ Stage(x)' \in {"recycle", "park"} => Clean(x)'
               /\ Stage(x)' \in {"destruct", "delete"} => inst'[x].destruct
               /\ Stage(x)' = "delete" => inst'[x].cpp_delete
                    /\ cell'[inst'[x].addr] = "raw" /\ inst'[x].addr \notin owned'
               /\ Stage(x)' = "park" => cell'[x] # "live"
    BY <1>1, <1>2, <1>6, <2>2 DEF IInv, Stages, Stage, Clean, Internal
  <2>3. /\ inst'[o] # None
        /\ Stage(o)' # "none" => rc'[o] = 0
        /\ Stage(o)' \in {"recycle", "park"} => Clean(o)'
        /\ Stage(o)' \in {"destruct", "delete"} => inst'[o].destruct
        /\ Stage(o)' # "delete" /\ Stage(o)' # "park"
    BY <1>1, <1>2, <1>3, <1>4, <1>6 DEF Stage, Clean, Internal
  <2> QED
    BY <2>1, <2>2, <2>3 DEF Stages
<1>9. Calls'
  <2>1. ASSUME NEW u \in Thread, op'[u] # None
        PROVE  CallSound(u)'
    <3>1. CallSound(u) /\ op'[u] = op[u] /\ op[u].obj # o /\ hold'[u] = hold[u]
      BY <2>1 DEF IInv, Calls
    <3>2. \A v \in Thread : op'[v] # None => op'[v] = op[v] /\ op[v] # None
      OBVIOUS
    <3>3. /\ \A x \in Obj : rc[x] = 0 => rc'[x] = 0
          /\ \A x \in Obj : x = op[u].obj => rc'[x] = rc[x]
      BY <1>2, <3>1
    <3> QED
      BY <1>1, <3>1, <3>2, <3>3 DEF CallSound, NewInst
  <2> QED
    BY <2>1 DEF Calls
<1>10. Flags' /\ Anchored'
  <2>1. \A p \in Obj : rc'[p] > 0 => rc[p] > 0 /\ (p # o \/ rc[o] # 1)
    BY <1>2
  <2>2. Flags'
    BY <1>1, <2>1 DEF IInv, Flags
  <2>3. \A x \in Obj : Doing(x, {"keep_alive"}) => Doing(x, {"keep_alive"})'
    <3>1. Doing(o, {"keep_alive"}) => Doing(o, {"keep_alive", "register"})
      BY DEF Doing
    <3> QED
      BY <3>1
  <2>4. \A x \in Obj : Stage(x)' # "release" => Stage(x) # "release"
    BY <1>3, <1>6 DEF Stage
  <2> QED
    BY <1>1, <2>1, <2>2, <2>3, <2>4 DEF IInv, Anchored, Encloses
<1>11. Cells'
  <2>1. \A x \in Obj : Pending(x)' => Pending(x) /\ (Stage(x) = "delete" => Stage(x)' = "delete")
    BY <1>1, <1>2, <1>3, <1>6 DEF Pending, Stage
  <2> QED
    BY <1>1, <2>1 DEF IInv, Cells
<1>12. Mapped' /\ Nursing'
  <2>1. \A x \in Obj : Stage(x)' = "release" <=> Stage(x) = "release"
    BY <1>3, <1>4, <1>6 DEF Stage
  <2>2. Doing(o, {"keep_alive", "register"})' <=> Doing(o, {"keep_alive", "register"})
    <3>1. ~Doing(o, {"keep_alive", "register"})'
      BY DEF Doing
    <3> QED
      BY <3>1
  <2>3. \A x \in Obj :
          Doing(x, {"keep_alive", "register"})' <=> Doing(x, {"keep_alive", "register"})
    BY <2>2
  <2> QED
    BY <1>1, <2>1, <2>3 DEF IInv, Mapped, Nursing
<1>13. RefsAccounted'
  <2>1. ASSUME NEW p \in Obj
        PROVE  Nurses(p)' = Nurses(p) /\ Releases(p)' = ReleasesIn(F, p)
    <3>1. Releases(p)' = ReleasesIn(frames', p)
      BY DEF Releases, ReleasesIn, Frames, FramesIn
    <3> QED
      BY <1>1, <1>6, <3>1 DEF Nurses
  <2>2. ASSUME NEW p \in Obj
        PROVE  rc'[p] = Cardinality(Holders(p))' + Cardinality(Nurses(p))'
                      + Cardinality(Makers(p))' + Cardinality(Releases(p))'
    <3> DEFINE h == Cardinality(Holders(p))   n == Cardinality(Nurses(p))
               m == Cardinality(Makers(p))    r == Cardinality(Releases(p))
               h1 == Cardinality(Holders(p))' m1 == Cardinality(Makers(p))'
               r1 == Cardinality(ReleasesIn(F, p))
    <3>1. h \in Nat /\ n \in Nat /\ m \in Nat /\ r \in Nat
      BY FiniteCounts, Counted
    <3>2. h1 \in Nat /\ m1 \in Nat /\ r1 \in Nat
      <4>1. Holders(p)' \subseteq Thread /\ Makers(p)' \subseteq Thread
            /\ ReleasesIn(F, p) \subseteq Thread \X Obj
        BY DEF Holders, Makers, ReleasesIn
      <4>2. IsFiniteSet(Thread) /\ IsFiniteSet(Thread \X Obj)
        BY InstanceMapAssumption, FS_Product
      <4>3. /\ IsFiniteSet(Holders(p)') /\ IsFiniteSet(Makers(p)')
            /\ IsFiniteSet(ReleasesIn(F, p))
        BY <4>1, <4>2, FS_Subset
      <4> QED
        BY <4>3, Counted
    <3>3. rc[p] = h + n + m + r
      BY DEF IInv, RefsAccounted
    <3>4. h1 + m1 + r1 = h + m + r - (IF p = o THEN 1 ELSE 0)
      OBVIOUS
    <3>5. rc'[p] = rc[p] - (IF p = o THEN 1 ELSE 0)
      BY <1>2
    <3> HIDE DEF h, n, m, r, h1, m1, r1
    <3>6. rc'[p] = h1 + n + m1 + r1
      BY <3>1, <3>2, <3>3, <3>4, <3>5
    <3> QED
      BY <2>1, <3>6 DEF h1, n, m1, r1
  <2> QED
    BY <2>2 DEF RefsAccounted
<1>14. Pools' /\ NoFailure'
  <2>1. \A tu \in Thread, tp \in Pooled, x \in Obj : Contains(pool[tu][tp], x) => x # o
    BY <1>2 DEF IInv, Pools
  <2> QED
    BY <1>1, <1>2, <1>6, <2>1 DEF IInv, Pools, NoFailure, Stage
<1> QED
  BY <1>7, <1>8, <1>9, <1>10, <1>11, <1>12, <1>13, <1>14 DEF IInv

LEMMA DropStep ==
  ASSUME IInv, NEW t \in Thread, NEW o \in Obj, Drop(t, o)
  PROVE  IInv'
<1>1. /\ op[t] = None /\ frames[t] = <<>> /\ o \in hold[t]
      /\ hold' = [hold EXCEPT ![t] = @ \ {o}]
      /\ DecRef(t, o, <<>>) /\ op' = op /\ keep_alive' = keep_alive
      /\ UNCHANGED <<inst, inst_c2p, keep_alive, cell, owned, pool, failed>>
  BY DEF Drop, Idle
<1>2. rc[o] > 0 /\ Stage(o) = "none" /\ \A u \in Thread : op[u] # None => op[u].obj # o
  BY <1>1, Held
<1>3. /\ frames \in [Thread -> Seq(Frame)] /\ DistinctIn(frames) /\ PatientsIn(frames)
      /\ op \in [Thread -> CallState \cup {None}]
  BY DEF IInv, TypeOK, FramesSound
<1>4. /\ hold' \in [Thread -> SUBSET Obj]
      /\ hold'[t] = hold[t] \ {o} /\ \A u \in Thread : u # t => hold'[u] = hold[u]
  BY <1>1 DEF IInv, TypeOK
<1>5. ASSUME NEW p \in Obj
      PROVE  Cardinality(Holders(p))' + Cardinality(Makers(p))'
               + Cardinality(ReleasesIn(frames, p))
             = Cardinality(Holders(p)) + Cardinality(Makers(p)) + Cardinality(Releases(p))
               - (IF p = o THEN 1 ELSE 0)
  <2>1. Makers(p)' = Makers(p)
    BY <1>1 DEF Makers
  <2>2. Releases(p) = ReleasesIn(frames, p)
    BY DEF Releases, ReleasesIn, Frames, FramesIn
  <2>3. /\ Cardinality(Holders(p)) \in Nat /\ Cardinality(Makers(p)) \in Nat
        /\ Cardinality(Releases(p)) \in Nat
    BY FiniteCounts, Counted
  <2>4. CASE p # o
    <3>1. Holders(p)' = Holders(p)
      BY <1>4, <2>4 DEF Holders
    <3> QED
      BY <2>1, <2>2, <2>3, <2>4, <3>1
  <2>5. CASE p = o
    <3>1. t \notin Holders(o)' /\ \A u : u \in Holders(o) <=> u \in Holders(o)' \/ u = t
      BY <1>1, <1>4 DEF Holders
    <3>2. Holders(o)' \subseteq Holders(o)
      BY <3>1
    <3>3. IsFiniteSet(Holders(o)')
      BY <3>2, FiniteCounts, FS_Subset
    <3>4. Cardinality(Holders(o)') \in Nat
          /\ Cardinality(Holders(o)) = Cardinality(Holders(o)') + 1
      BY <3>1, <3>3, OneMore, Counted
    <3> QED
      BY <2>1, <2>2, <2>3, <2>5, <3>4
  <2> QED
    BY <2>4, <2>5
<1>6. \A u \in Thread : op'[u] # None =>
        op[u] # None /\ op'[u] = op[u] /\ op[u].obj # o /\ hold'[u] = hold[u]
  BY <1>1, <1>2, <1>4
<1>7. \A x \in Obj : \A S : Doing(x, S)' <=> Doing(x, S)
  BY <1>1 DEF Doing
<1>8. ~Doing(o, {"keep_alive", "register"})
  BY <1>2 DEF Doing
<1>9. DecRef(t, o, frames[t]) /\ \A x \in Obj : StageIn(frames, x) = Stage(x)
  BY <1>1 DEF Stage
<1> QED
  BY <1>1, <1>2, <1>3, <1>4, <1>5, <1>6, <1>7, <1>8, <1>9, DecRefStep

LEMMA ConstructFailsStep ==
  ASSUME IInv, NEW t \in Thread, ConstructFails(t)
  PROVE  IInv'
<1> DEFINE o == op[t].obj
<1>1. /\ op[t] # None /\ op[t].step = "construct" /\ frames[t] = <<>>
      /\ op' = [op EXCEPT ![t] = None]
      /\ DecRef(t, o, <<>>) /\ hold' = hold
      /\ UNCHANGED <<inst, inst_c2p, keep_alive, cell, owned, pool, failed>>
  BY DEF ConstructFails, At
<1>2. o \in Obj /\ rc[o] = 1
  BY <1>1 DEF IInv, Calls, CallSound
<1>3. \A u \in Thread : op[u] # None /\ op[u].obj = o => u = t
  BY <1>1, <1>2, Private DEF IInv
<1>4. /\ frames \in [Thread -> Seq(Frame)] /\ DistinctIn(frames) /\ PatientsIn(frames)
      /\ op \in [Thread -> CallState \cup {None}] /\ hold' \in [Thread -> SUBSET Obj]
  BY <1>1 DEF IInv, TypeOK, FramesSound
<1>5. /\ op' \in [Thread -> CallState \cup {None}]
      /\ op'[t] = None /\ \A u \in Thread : u # t => op'[u] = op[u]
  BY <1>1, <1>4
<1>6. ASSUME NEW p \in Obj
      PROVE  Cardinality(Holders(p))' + Cardinality(Makers(p))'
               + Cardinality(ReleasesIn(frames, p))
             = Cardinality(Holders(p)) + Cardinality(Makers(p)) + Cardinality(Releases(p))
               - (IF p = o THEN 1 ELSE 0)
  <2>1. Holders(p)' = Holders(p)
    BY <1>1 DEF Holders
  <2>2. Releases(p) = ReleasesIn(frames, p)
    BY DEF Releases, ReleasesIn, Frames, FramesIn
  <2>3. /\ Cardinality(Holders(p)) \in Nat /\ Cardinality(Makers(p)) \in Nat
        /\ Cardinality(Releases(p)) \in Nat
    BY FiniteCounts, Counted
  <2>4. CASE p # o
    <3>1. Makers(p)' = Makers(p)
      BY <1>5, <2>4 DEF Makers
    <3> QED
      BY <2>1, <2>2, <2>3, <2>4, <3>1
  <2>5. CASE p = o
    <3>1. t \notin Makers(p)' /\ \A u : u \in Makers(p) <=> u \in Makers(p)' \/ u = t
      BY <1>1, <1>5, <2>5 DEF Makers
    <3>2. Makers(p)' \subseteq Makers(p)
      BY <3>1
    <3>3. IsFiniteSet(Makers(p)')
      BY <3>2, FiniteCounts, FS_Subset
    <3>4. Cardinality(Makers(p)') \in Nat
          /\ Cardinality(Makers(p)) = Cardinality(Makers(p)') + 1
      BY <3>1, <3>3, OneMore, Counted
    <3> QED
      BY <2>1, <2>2, <2>3, <2>5, <3>4
  <2> QED
    BY <2>4, <2>5
<1>7. \A u \in Thread : op'[u] # None =>
        op[u] # None /\ op'[u] = op[u] /\ op[u].obj # o /\ hold'[u] = hold[u]
  BY <1>1, <1>3, <1>5
<1>8. \A x \in Obj : \A S : x # o \/ rc[o] # 1 => (Doing(x, S)' <=> Doing(x, S))
  BY <1>2, <1>5 DEF Doing
<1>9. ~Doing(o, {"keep_alive", "register"})
  BY <1>1, <1>3 DEF Doing
<1>10. /\ DecRef(t, o, frames[t]) /\ \A x \in Obj : StageIn(frames, x) = Stage(x)
       /\ rc[o] > 0
  BY <1>1, <1>2 DEF Stage
<1> HIDE DEF o
<1> QED
  BY <1>1, <1>2, <1>4, <1>5, <1>6, <1>7, <1>8, <1>9, <1>10, DecRefStep

LEMMA ReleasePatientStep ==
  ASSUME IInv, NEW t \in Thread, ReleasePatient(t)
  PROVE  IInv'
<1> DEFINE l == Last(frames[t])
           o == Head(l.patients)
           g == [l EXCEPT !.patients = Tail(@)]
           F == [frames EXCEPT ![t] = Front(frames[t]) \o <<g>>]
<1>1. /\ frames[t] # <<>> /\ l.pc = "release" /\ l.patients # <<>>
      /\ DecRef(t, o, Front(frames[t]) \o <<g>>) /\ hold' = hold /\ op' = op
      /\ UNCHANGED <<inst, inst_c2p, keep_alive, cell, owned, pool, failed>>
  BY DEF ReleasePatient, In
<1>2. /\ frames \in [Thread -> Seq(Frame)] /\ DistinctIn(frames) /\ PatientsIn(frames)
      /\ op \in [Thread -> CallState \cup {None}] /\ hold' \in [Thread -> SUBSET Obj]
  BY <1>1 DEF IInv, TypeOK, FramesSound
<1>3. /\ l \in FramesIn(frames, t) /\ l \in Frame
      /\ l.obj \in Obj /\ l.patients \in Seq(Obj) /\ IsInjective(l.patients)
  <2>1. l = frames[t][Len(frames[t])] /\ Len(frames[t]) \in DOMAIN frames[t] /\ l \in Frame
    BY <1>1, <1>2 DEF Last
  <2>2. l \in FramesIn(frames, t)
    BY <2>1 DEF FramesIn
  <2>3. IsInjective(l.patients)
    BY <1>2, <2>2 DEF PatientsIn
  <2> QED
    BY <2>1, <2>2, <2>3 DEF Frame
<1>4. /\ Tail(l.patients) \in Seq(Obj) /\ o \in Obj /\ Contains(l.patients, o)
      /\ IsInjective(Tail(l.patients))
      /\ \A y : Contains(Tail(l.patients), y) <=> Contains(l.patients, y) /\ y # o
  <2> HIDE DEF l
  <2> QED
    BY <1>1, <1>3, Tailed
<1>5. /\ g \in Frame /\ g.obj = l.obj /\ g.pc = l.pc /\ g.patients = Tail(l.patients)
  <2> HIDE DEF l
  <2> QED
    BY <1>3, <1>4 DEF Frame
<1>6. /\ F \in [Thread -> Seq(Frame)] /\ F[t] = Front(frames[t]) \o <<g>>
      /\ \A u \in Thread : u # t => F[u] = frames[u]
  <2> HIDE DEF g
  <2>1. Front(frames[t]) \o <<g>> \in Seq(Frame)
    BY <1>1, <1>2, <1>5, Fronts
  <2> QED
    BY <1>2, <2>1
<1> HIDE DEF g, F, o
<1>7. /\ DistinctIn(F)
      /\ \A u \in Thread : u # t => FramesIn(F, u) = FramesIn(frames, u)
      /\ \A f : f \in FramesIn(F, t) <=> (f \in FramesIn(frames, t) /\ f # l) \/ f = g
      /\ StageIn(F, g.obj) = g.pc
      /\ \A x \in Obj : x # g.obj => StageIn(F, x) = StageIn(frames, x)
  <2>1. Move(frames, F, t, g)
    BY <1>1, <1>2, <1>5, <1>6 DEF Move
  <2> QED
    BY <2>1, Moved
<1>8. \A x \in Obj : StageIn(F, x) = Stage(x)
  <2>1. StageIn(frames, l.obj) = l.pc
    BY <1>2, <1>3, StageMeaning
  <2> QED
    BY <1>3, <1>5, <1>7, <2>1 DEF Stage
<1>9. PatientsIn(F)
  BY <1>1, <1>2, <1>4, <1>5, <1>7 DEF PatientsIn
<1>10. rc[o] > 0 /\ \A u \in Thread : op[u] # None => op[u].obj # o
  <2>1. l \in Frames(t)
    BY <1>3 DEF Frames, FramesIn
  <2> HIDE DEF l
  <2> QED
    BY <1>3, <1>4, <2>1, Held
<1> HIDE DEF l
<1>11. /\ <<t, l.obj>> \in Releases(o) /\ <<t, l.obj>> \notin ReleasesIn(F, o)
       /\ \A p \in Obj : \A r : r # <<t, l.obj>> \/ p # o =>
            (r \in Releases(p) <=> r \in ReleasesIn(F, p))
  <2>1. \A f \in FramesIn(frames, t) : f.obj = l.obj => f = l
    BY <1>2, <1>3 DEF DistinctIn, FramesIn
  <2>2. \A f \in FramesIn(F, t) : f.obj = l.obj => f = g
    BY <1>7, <2>1
  <2>3. <<t, l.obj>> \in Releases(o)
    BY <1>3, <1>4 DEF Releases, Frames, FramesIn
  <2>4. <<t, l.obj>> \notin ReleasesIn(F, o)
    BY <1>4, <1>5, <2>2 DEF ReleasesIn
  <2>5. ASSUME NEW p \in Obj, NEW u \in Thread, NEW n \in Obj, u # t \/ n # l.obj \/ p # o
        PROVE  (\E f \in FramesIn(frames, u) : f.obj = n /\ Contains(f.patients, p))
               <=> (\E f \in FramesIn(F, u) : f.obj = n /\ Contains(f.patients, p))
    <3>1. CASE u # t
      BY <1>7, <3>1
    <3>2. CASE u = t /\ n # l.obj
      BY <1>5, <1>7, <3>2
    <3>3. CASE u = t /\ n = l.obj /\ p # o
      BY <1>3, <1>4, <1>5, <1>7, <2>1, <2>2, <3>3
    <3> QED
      BY <2>5, <3>1, <3>2, <3>3
  <2>6. ASSUME NEW p \in Obj, NEW r, r # <<t, l.obj>> \/ p # o
        PROVE  r \in Releases(p) <=> r \in ReleasesIn(F, p)
    <3>1. CASE r \in Thread \X Obj
      <4>1. PICK u \in Thread, n \in Obj : r = <<u, n>>
        BY <3>1
      <4>2. u # t \/ n # l.obj \/ p # o
        BY <2>6, <4>1
      <4> QED
        BY <2>5, <4>1, <4>2 DEF Releases, ReleasesIn, Frames, FramesIn
    <3>2. CASE r \notin Thread \X Obj
      BY <3>2 DEF Releases, ReleasesIn
    <3> QED
      BY <3>1, <3>2
  <2> QED
    BY <2>3, <2>4, <2>6
<1>12. ASSUME NEW p \in Obj
       PROVE  Cardinality(Holders(p))' + Cardinality(Makers(p))' + Cardinality(ReleasesIn(F, p))
              = Cardinality(Holders(p)) + Cardinality(Makers(p)) + Cardinality(Releases(p))
                - (IF p = o THEN 1 ELSE 0)
  <2>1. Holders(p)' = Holders(p) /\ Makers(p)' = Makers(p)
    BY <1>1 DEF Holders, Makers
  <2>2. /\ Cardinality(Holders(p)) \in Nat /\ Cardinality(Makers(p)) \in Nat
        /\ Cardinality(Releases(p)) \in Nat /\ IsFiniteSet(Releases(p))
    BY FiniteCounts, Counted
  <2>3. CASE p # o
    <3>1. Releases(p) = ReleasesIn(F, p)
      BY <1>11, <2>3
    <3> QED
      BY <2>1, <2>2, <2>3, <3>1
  <2>4. CASE p = o
    <3>1. /\ <<t, l.obj>> \notin ReleasesIn(F, p)
          /\ \A r : r \in Releases(p) <=> r \in ReleasesIn(F, p) \/ r = <<t, l.obj>>
      BY <1>11, <2>4
    <3>2. ReleasesIn(F, p) \subseteq Releases(p)
      BY <3>1
    <3>3. IsFiniteSet(ReleasesIn(F, p))
      BY <2>2, <3>2, FS_Subset
    <3>4. Cardinality(ReleasesIn(F, p)) \in Nat
          /\ Cardinality(Releases(p)) = Cardinality(ReleasesIn(F, p)) + 1
      BY <3>1, <3>3, OneMore, Counted
    <3> QED
      BY <2>1, <2>2, <2>4, <3>4
  <2> QED
    BY <2>3, <2>4
<1>13. /\ \A u \in Thread : op'[u] # None =>
            op[u] # None /\ op'[u] = op[u] /\ op[u].obj # o /\ hold'[u] = hold[u]
       /\ \A x \in Obj : \A S : Doing(x, S)' <=> Doing(x, S)
       /\ ~Doing(o, {"keep_alive", "register"})
       /\ op' \in [Thread -> CallState \cup {None}]
       /\ DecRef(t, o, F[t])
  BY <1>1, <1>2, <1>6, <1>10 DEF Doing, g, o, l
<1> QED
  BY <1>1, <1>2, <1>4, <1>6, <1>7, <1>8, <1>9, <1>10, <1>12, <1>13, DecRefStep

\* A wrapper that nothing refers to.
LEMMA Unreferenced ==
  ASSUME IInv, NEW o \in Obj, rc[o] = 0
  PROVE  /\ \A t \in Thread : o \notin hold[t]
         /\ \A n \in Obj : ~Contains(keep_alive[n], o)
         /\ \A t \in Thread : op[t] # None => op[t].obj # o
         /\ Makers(o) = {}
<1>1. ~(rc[o] > 0) /\ TypeOK /\ RefsAccounted
  BY DEF IInv
<1>2. /\ \A t \in Thread : o \notin hold[t]
      /\ \A n \in Obj : ~Contains(keep_alive[n], o)
      /\ \A t \in Thread : op[t] # None => op[t].obj # o
  BY <1>1, Referenced
<1> QED
  BY <1>2 DEF Makers

\* The record of a wrapper with a C++ object at address a.
LEMMA NewInstSound ==
  ASSUME NEW tp \in Type, NEW a \in Addr
  PROVE  /\ NewInst(tp, a) \in Instance /\ NewInst(tp, a) # None
         /\ NewInst(tp, a).addr = a /\ NewInst(tp, a).type = tp
         /\ ~NewInst(tp, a).destruct /\ ~NewInst(tp, a).cpp_delete
         /\ ~NewInst(tp, a).clear_keep_alive
<1>1. NewInst(tp, a) \in Instance
  BY DEF NewInst, Instance
<1>2. None \notin Instance
  BY InstanceMapAssumption
<1>3. /\ NewInst(tp, a).addr = a /\ NewInst(tp, a).type = tp
      /\ ~NewInst(tp, a).destruct /\ ~NewInst(tp, a).cpp_delete
      /\ ~NewInst(tp, a).clear_keep_alive
  BY DEF NewInst
<1> QED
  BY <1>1, <1>2, <1>3

\* A slot becomes a wrapper with internal storage, whose constructor is called.
LEMMA CreatedStep ==
  ASSUME IInv, NEW t \in Thread, NEW tp \in Type, NEW o \in Obj,
         op[t] = None, rc[o] = 0, Stage(o) = "none", keep_alive[o] = <<>>,
         cell[o] # "live",
         inst' = [inst EXCEPT ![o] = NewInst(tp, o)],
         rc' = [rc EXCEPT ![o] = 1],
         op' = [op EXCEPT ![t] = [Call("construct", tp, o) EXCEPT !.obj = o]],
         inst_c2p' \in [Addr -> Seq(Obj)],
         pool' \in [Thread -> [Pooled -> Seq(Obj)]],
         UNCHANGED <<keep_alive, cell, owned, hold, frames, failed>>,
         Mapped', Pools'
  PROVE  IInv'
<1> DEFINE c == [Call("construct", tp, o) EXCEPT !.obj = o]
<1>1. /\ keep_alive' = keep_alive /\ cell' = cell /\ owned' = owned /\ hold' = hold
      /\ frames' = frames /\ failed' = failed
      /\ inst \in [Obj -> Instance \cup {None}] /\ rc \in [Obj -> Nat]
      /\ op \in [Thread -> CallState \cup {None}]
      /\ owned \subseteq Heap /\ Heap \cap Obj = {}
  BY InstanceMapAssumption DEF IInv, TypeOK
<1>2. /\ NewInst(tp, o) \in Instance /\ NewInst(tp, o) # None
      /\ NewInst(tp, o).addr = o
      /\ ~NewInst(tp, o).destruct /\ ~NewInst(tp, o).cpp_delete
      /\ ~NewInst(tp, o).clear_keep_alive
  BY NewInstSound DEF Addr
<1>3. /\ inst' \in [Obj -> Instance \cup {None}] /\ inst'[o] = NewInst(tp, o)
      /\ inst'[o] # None /\ inst'[o].addr = o
      /\ ~inst'[o].destruct /\ ~inst'[o].cpp_delete /\ ~inst'[o].clear_keep_alive
      /\ \A p \in Obj : p # o => inst'[p] = inst[p]
  BY <1>1, <1>2
<1>4. /\ rc' \in [Obj -> Nat] /\ rc'[o] = 1 /\ \A p \in Obj : p # o => rc'[p] = rc[p]
  BY <1>1
<1>5. /\ c \in CallState /\ c # None
      /\ c.step = "construct" /\ c.type = tp /\ c.addr = o /\ c.obj = o
  BY InstanceMapAssumption DEF Call, CallState, Addr
<1>6. /\ op' \in [Thread -> CallState \cup {None}]
      /\ op'[t] = c /\ \A u \in Thread : u # t => op'[u] = op[u]
  BY <1>1, <1>5
<1> HIDE DEF c
<1>7. /\ \A u \in Thread : o \notin hold[u]
      /\ \A n \in Obj : ~Contains(keep_alive[n], o)
      /\ \A u \in Thread : op[u] # None => op[u].obj # o
      /\ Makers(o) = {}
  BY Unreferenced
<1>8. \A x \in Obj : \A S : x # o => (Doing(x, S)' <=> Doing(x, S))
  BY <1>5, <1>6 DEF Doing
<1>9. TypeOK'
  BY <1>1, <1>3, <1>4, <1>6 DEF IInv, TypeOK
<1>10. FramesSound' /\ Stages'
  BY <1>1, <1>3, <1>4 DEF IInv, FramesSound, Stages, Stage, Clean, Internal
<1>11. Calls'
  <2>1. ASSUME NEW u \in Thread, op'[u] # None
        PROVE  CallSound(u)'
    <3>1. CASE u = t
      BY <1>3, <1>4, <1>5, <1>6, <3>1 DEF CallSound
    <3>2. CASE u # t
      <4>1. op[u] # None /\ op'[u] = op[u] /\ CallSound(u) /\ op[u].obj # o
        BY <1>6, <1>7, <2>1, <3>2 DEF IInv, Calls
      <4>2. op[u].addr \in owned => op[u].addr # o
        BY <1>1
      <4>3. op[u].self \in hold[u] => op[u].self \in Obj /\ op[u].self # o
        BY <1>7 DEF IInv, TypeOK
      <4>4. op[u].obj \in Obj => inst'[op[u].obj] = inst[op[u].obj]
                               /\ rc'[op[u].obj] = rc[op[u].obj]
        BY <1>3, <1>4, <4>1
      <4>5. /\ op[u].step \in {"lookup", "new"} /\ op[u].pol = "take_ownership" =>
               \A x \in Obj : inst'[x] # None /\ inst'[x].addr = op[u].addr => rc'[x] = 0
            /\ op[u].step \in {"lookup", "new"} /\ op[u].pol = "take_ownership" =>
               \A v \in Thread : op'[v] # None /\ op'[v].addr = op[u].addr => v = u
        <5>1. SUFFICES ASSUME op[u].step \in {"lookup", "new"}, op[u].pol = "take_ownership"
                       PROVE  /\ \A x \in Obj : inst'[x] # None /\ inst'[x].addr = op[u].addr
                                                 => rc'[x] = 0
                              /\ \A v \in Thread : op'[v] # None /\ op'[v].addr = op[u].addr
                                                   => v = u
          OBVIOUS
        <5>2. /\ op[u].addr # o
              /\ \A x \in Obj : inst[x] # None /\ inst[x].addr = op[u].addr => rc[x] = 0
              /\ \A v \in Thread : op[v] # None /\ op[v].addr = op[u].addr => v = u
          BY <4>1, <4>2, <5>1 DEF CallSound
        <5> QED
          BY <1>3, <1>4, <1>5, <1>6, <5>2
      <4>6. op[u].step \in {"lookup", "new", "keep_alive"} /\ op[u].pol = "reference_internal"
              => inst'[op[u].self] = inst[op[u].self]
        BY <1>3, <4>1, <4>3 DEF CallSound
      <4> QED
        BY <1>1, <4>1, <4>4, <4>5, <4>6 DEF CallSound
    <3> QED
      BY <3>1, <3>2
  <2> QED
    BY <2>1 DEF Calls
<1>12. Flags'
  <2>1. Doing(o, {"construct"})'
    BY <1>5, <1>6 DEF Doing
  <2> QED
    BY <1>3, <1>4, <1>8, <2>1 DEF IInv, Flags
<1>13. Cells'
  <2>1. \A x \in Obj : Pending(x)' => x # o /\ Pending(x)
    BY <1>1, <1>3, <1>4 DEF Pending, Stage
  <2> QED
    BY <1>1, <1>3, <1>4, <2>1 DEF IInv, Cells, Stage
<1>14. Anchored'
  <2>1. ASSUME NEW y \in Obj, inst'[y] # None, inst'[y].addr # y, ~inst'[y].destruct,
               Stage(y)' # "release"
        PROVE  \/ \E s \in Obj : Contains(keep_alive'[y], s) /\ Encloses(s, y)'
               \/ inst'[y].addr \in Heap /\ (rc'[y] > 0 => inst'[y].addr \in owned')
               \/ Doing(y, {"keep_alive"})'
    <3>1. y # o /\ inst'[y] = inst[y] /\ rc'[y] = rc[y] /\ Stage(y) # "release"
      BY <1>1, <1>3, <1>4, <2>1 DEF Stage
    <3>2. \/ \E s \in Obj : Contains(keep_alive[y], s) /\ Encloses(s, y)
          \/ inst[y].addr \in Heap /\ (rc[y] > 0 => inst[y].addr \in owned)
          \/ Doing(y, {"keep_alive"})
      BY <2>1, <3>1 DEF IInv, Anchored
    <3>3. \A s \in Obj : Contains(keep_alive[y], s) /\ Encloses(s, y) => Encloses(s, y)'
      BY <1>3, <1>7, <3>1 DEF Encloses
    <3> QED
      BY <1>1, <1>8, <3>1, <3>2, <3>3
  <2> QED
    BY <2>1 DEF Anchored
<1>15. Nursing'
  BY <1>1, <1>3, Emptied DEF IInv, Nursing, Stage
<1>16. RefsAccounted'
  <2>1. ASSUME NEW p \in Obj
        PROVE  /\ Holders(p)' = Holders(p) /\ Nurses(p)' = Nurses(p)
               /\ Releases(p)' = Releases(p)
    BY <1>1 DEF Holders, Nurses, Releases, Frames
  <2>2. \A p \in Obj : p # o => Makers(p)' = Makers(p)
    BY <1>5, <1>6 DEF Makers
  <2>3. Cardinality(Makers(o)') = Cardinality(Makers(o)) + 1
    <3>1. t \notin Makers(o) /\ \A u : u \in Makers(o)' <=> u \in Makers(o) \/ u = t
      BY <1>5, <1>6, <1>7 DEF Makers
    <3> QED
      BY <3>1, FiniteCounts, OneMore
  <2>4. /\ Cardinality(Holders(o)) \in Nat /\ Cardinality(Nurses(o)) \in Nat
        /\ Cardinality(Makers(o)) \in Nat /\ Cardinality(Releases(o)) \in Nat
    BY FiniteCounts, Counted
  <2>5. rc'[o] = Cardinality(Holders(o)) + Cardinality(Nurses(o))
               + (Cardinality(Makers(o)) + 1) + Cardinality(Releases(o))
    BY <1>4, <2>4 DEF IInv, RefsAccounted
  <2> QED
    BY <1>4, <2>1, <2>2, <2>3, <2>5 DEF IInv, RefsAccounted
<1> QED
  BY <1>1, <1>9, <1>10, <1>11, <1>12, <1>13, <1>14, <1>15, <1>16 DEF IInv, NoFailure

LEMMA NewPooledStep ==
  ASSUME IInv, NEW t \in Thread, NEW tp \in Type, NewPooled(t, tp)
  PROVE  IInv'
<1> DEFINE s == pool[t][tp]
           o == Last(s)
<1>1. /\ op[t] = None /\ tp \in Pooled /\ s # <<>>
      /\ pool' = [pool EXCEPT ![t][tp] = Front(@)]
      /\ inst' = [inst EXCEPT ![o] = NewInst(tp, o)]
      /\ rc' = [rc EXCEPT ![o] = 1]
      /\ op' = [op EXCEPT ![t] = [Call("construct", tp, o) EXCEPT !.obj = o]]
      /\ inst_c2p' = inst_c2p
      /\ UNCHANGED <<keep_alive, cell, owned, hold, frames, failed>>
  BY DEF NewPooled, Idle
<1>2. pool \in [Thread -> [Pooled -> Seq(Obj)]] /\ s \in Seq(Obj) /\ IsInjective(s)
  BY <1>1 DEF IInv, TypeOK, Pools
<1>3. /\ Front(s) \in Seq(Obj) /\ o \in Obj /\ Contains(s, o)
      /\ IsInjective(Front(s)) /\ Len(Front(s)) <= Len(s)
      /\ \A y : Contains(Front(s), y) <=> Contains(s, y) /\ y # o
  <2> HIDE DEF s
  <2> QED
    BY <1>1, <1>2, Fronted
<1>4. /\ inst[o] # None /\ rc[o] = 0 /\ inst[o].addr = o /\ cell[o] # "live"
      /\ ~inst[o].clear_keep_alive /\ Stage(o) = "none"
      /\ \A u \in Thread, tq \in Pooled : Contains(pool[u][tq], o) => u = t /\ tq = tp
  BY <1>1, <1>3 DEF IInv, Pools
<1>5. keep_alive[o] = <<>>
  BY <1>3, <1>4 DEF IInv, Nursing
<1>6. /\ pool' \in [Thread -> [Pooled -> Seq(Obj)]] /\ pool'[t][tp] = Front(s)
      /\ \A u \in Thread, tq \in Pooled : u # t \/ tq # tp => pool'[u][tq] = pool[u][tq]
  BY <1>1, <1>2, <1>3
<1>7. NewInst(tp, o) # None /\ NewInst(tp, o).addr = o
  <2> HIDE DEF o
  <2> QED
    BY <1>3, NewInstSound DEF Addr
<1>8. /\ inst'[o] = NewInst(tp, o) /\ \A p \in Obj : p # o => inst'[p] = inst[p]
      /\ \A p \in Obj : p # o => rc'[p] = rc[p]
      /\ frames' = frames /\ cell' = cell
  BY <1>1, <1>3 DEF IInv, TypeOK
<1>9. \A u \in Thread : u # t => op'[u] = op[u]
  BY <1>1 DEF IInv, TypeOK
<1>10. op'[t].step = "construct" /\ op'[t].obj = o
  BY <1>1 DEF IInv, TypeOK, Call
<1>11. \A u \in Thread : op[u] # None => op[u].obj # o
  BY <1>3, <1>4, Unreferenced
<1> HIDE DEF s, o
<1>12. Mapped'
  <2>1. \A x \in Obj :
          Doing(x, {"keep_alive", "register"})' <=> Doing(x, {"keep_alive", "register"})
    BY <1>1, <1>9, <1>10 DEF Doing
  <2>2. \A x \in Obj : \A a \in Addr :
          inst'[x] # None /\ inst'[x].addr = a <=> inst[x] # None /\ inst[x].addr = a
    BY <1>4, <1>7, <1>8
  <2> QED
    BY <1>1, <1>8, <2>1, <2>2 DEF IInv, Mapped, Stage
<1>13. Pools'
  <2>1. ASSUME NEW u \in Thread, NEW tq \in Pooled
        PROVE  /\ Len(pool'[u][tq]) <= PoolCap /\ IsInjective(pool'[u][tq])
               /\ \A x \in Obj :
                    Contains(pool'[u][tq], x) => Contains(pool[u][tq], x) /\ x # o
    <3>1. CASE u = t /\ tq = tp
      <4>1. Len(s) <= PoolCap /\ Len(s) \in Nat /\ Len(Front(s)) \in Nat
        BY <1>1, <1>2, <1>3 DEF IInv, Pools, s
      <4>2. PoolCap \in Nat
        BY InstanceMapAssumption
      <4> QED
        BY <1>3, <1>6, <3>1, <4>1, <4>2 DEF s
    <3>2. CASE u # t \/ tq # tp
      BY <1>4, <1>6, <3>2 DEF IInv, Pools
    <3> QED
      BY <3>1, <3>2
  <2> QED
    BY <1>8, <2>1 DEF IInv, Pools, Stage
<1>14. inst_c2p' \in [Addr -> Seq(Obj)]
  BY <1>1 DEF IInv, TypeOK
<1> QED
  BY <1>1, <1>3, <1>4, <1>5, <1>6, <1>12, <1>13, <1>14, CreatedStep DEF o

LEMMA NewInternalStep ==
  ASSUME IInv, NEW t \in Thread, NEW tp \in Type, NEW o \in Obj, NewInternal(t, tp, o)
  PROVE  IInv'
<1>1. /\ op[t] = None /\ inst[o] = None
      /\ inst' = [inst EXCEPT ![o] = NewInst(tp, o)]
      /\ rc' = [rc EXCEPT ![o] = 1]
      /\ op' = [op EXCEPT ![t] = [Call("construct", tp, o) EXCEPT !.obj = o]]
      /\ UNCHANGED <<keep_alive, cell, owned, hold, frames>> /\ pool' = pool
  BY DEF NewInternal, Idle
<1>2. o \in Addr /\ inst_c2p \in [Addr -> Seq(Obj)] /\ pool \in [Thread -> [Pooled -> Seq(Obj)]]
  BY DEF Addr, IInv, TypeOK
<1>3. rc[o] = 0 /\ Stage(o) = "none" /\ keep_alive[o] = <<>> /\ cell[o] # "live"
  BY <1>1 DEF IInv, Stages, Nursing, Cells
<1>4. inst_c2p[o] = <<>>
  <2>1. ASSUME NEW x \in Obj, Contains(inst_c2p[o], x)
        PROVE  FALSE
    <3>1. inst[x] # None /\ inst[x].addr = o /\ Stage(x) # "release"
      BY <1>2, <2>1 DEF IInv, Mapped
    <3>2. inst[x].addr # x
      BY <1>1, <3>1
    <3>3. inst[o] # None
      BY <3>1, <3>2, Occupied
    <3> QED
      BY <1>1, <3>3
  <2>2. inst_c2p[o] \in Seq(Obj)
    BY <1>2
  <2> QED
    BY <2>1, <2>2, Emptied
<1>5. inst_c2p' = [inst_c2p EXCEPT ![o] = <<o>>] /\ failed' = failed
  BY <1>4 DEF NewInternal
<1>6. /\ inst_c2p' \in [Addr -> Seq(Obj)] /\ inst_c2p'[o] = <<o>>
      /\ \A a \in Addr : a # o => inst_c2p'[a] = inst_c2p[a]
  BY <1>2, <1>5
<1>7. NewInst(tp, o) # None /\ NewInst(tp, o).addr = o
  BY NewInstSound DEF Addr
<1>8. /\ inst'[o] = NewInst(tp, o) /\ \A p \in Obj : p # o => inst'[p] = inst[p]
      /\ \A p \in Obj : p # o => rc'[p] = rc[p]
      /\ frames' = frames /\ cell' = cell
  BY <1>1 DEF IInv, TypeOK
<1>9. \A u \in Thread : u # t => op'[u] = op[u]
  BY <1>1 DEF IInv, TypeOK
<1>10. op'[t].step = "construct" /\ op'[t].obj = o
  BY <1>1 DEF IInv, TypeOK, Call
<1>11. \A u \in Thread : op[u] # None => op[u].obj # o
  BY <1>3, Unreferenced
<1>12. Mapped'
  <2>1. \A x \in Obj :
          Doing(x, {"keep_alive", "register"})' <=> Doing(x, {"keep_alive", "register"})
    BY <1>1, <1>9, <1>10 DEF Doing
  <2>2. ~Doing(o, {"keep_alive", "register"})
    BY <1>11 DEF Doing
  <2>3. \A y : Contains(<<o>>, y) <=> y = o
    BY DEF Contains
  <2>4. IsInjective(<<o>>)
    BY DEF IsInjective
  <2>5. \A y \in Obj : ~Contains(inst_c2p[o], y)
    BY <1>4 DEF Contains
  <2>6. ASSUME NEW a \in Addr, NEW x \in Obj
        PROVE  Contains(inst_c2p'[a], x) <=>
                 /\ inst'[x] # None /\ inst'[x].addr = a
                 /\ ~Doing(x, {"keep_alive", "register"})' /\ Stage(x)' # "release"
    <3>1. Stage(x)' = Stage(x)
      BY <1>8 DEF Stage
    <3>2. Contains(inst_c2p[a], x) <=>
            /\ inst[x] # None /\ inst[x].addr = a
            /\ ~Doing(x, {"keep_alive", "register"}) /\ Stage(x) # "release"
      BY DEF IInv, Mapped
    <3>3. CASE x = o
      BY <1>1, <1>3, <1>6, <1>7, <1>8, <2>1, <2>2, <2>3, <3>1, <3>2, <3>3
    <3>4. CASE x # o /\ a = o
      BY <1>6, <1>8, <2>1, <2>3, <2>5, <3>1, <3>2, <3>4
    <3>5. CASE x # o /\ a # o
      BY <1>6, <1>8, <2>1, <3>1, <3>2, <3>5
    <3> QED
      BY <3>3, <3>4, <3>5
  <2>7. \A a \in Addr : IsInjective(inst_c2p'[a])
    BY <1>6, <2>4 DEF IInv, Mapped
  <2> QED
    BY <2>6, <2>7 DEF Mapped
<1>13. Pools'
  <2>1. \A u \in Thread, tq \in Pooled, x \in Obj : Contains(pool[u][tq], x) => x # o
    BY <1>1 DEF IInv, Pools
  <2> QED
    BY <1>1, <1>8, <2>1 DEF IInv, Pools, Stage
<1> QED
  BY <1>1, <1>2, <1>3, <1>5, <1>6, <1>12, <1>13, CreatedStep

\* nb_type_put allocates a wrapper for a pointer: it takes the object away from the
\* C++ side, refers to it, or has a call that holds the enclosing object.
LEMMA PutNewStep ==
  ASSUME IInv, NEW t \in Thread, NEW o \in Obj, PutNew(t, o)
  PROVE  IInv'
<1> DEFINE c == op[t]
           own == c.pol = "take_ownership"
           N == [NewInst(c.type, c.addr) EXCEPT
                   !.destruct = c.pol \notin {"reference", "reference_internal"},
                   !.cpp_delete = own]
           d == [c EXCEPT !.obj = o,
                   !.step = IF c.pol = "reference_internal" THEN "keep_alive" ELSE "register"]
<1>1. /\ c # None /\ c.step = "new" /\ inst[o] = None
      /\ inst' = [inst EXCEPT ![o] = N]
      /\ owned' = IF own THEN owned \ {c.addr} ELSE owned
      /\ op' = [op EXCEPT ![t] = d] /\ rc' = [rc EXCEPT ![o] = 1]
      /\ inst_c2p' = inst_c2p /\ keep_alive' = keep_alive /\ cell' = cell /\ pool' = pool
      /\ hold' = hold /\ frames' = frames /\ failed' = failed
  BY DEF PutNew, At
<1>2. /\ inst \in [Obj -> Instance \cup {None}] /\ rc \in [Obj -> Nat]
      /\ op \in [Thread -> CallState \cup {None}] /\ hold \in [Thread -> SUBSET Obj]
      /\ owned \subseteq Heap /\ Heap \cap Obj = {} /\ None \notin Obj
  BY InstanceMapAssumption DEF IInv, TypeOK
<1>3. /\ c \in CallState /\ c.type \in Type /\ c.addr \in Addr
      /\ c.self \in Obj \cup {None} /\ CallSound(t)
  BY <1>1, <1>2 DEF IInv, Calls, CallState
<1>4. /\ c.pol \in {"take_ownership", "reference", "reference_internal"} /\ c.obj = None
      /\ c.pol \in {"take_ownership", "reference"} => c.addr \in owned
      /\ own => /\ \A x \in Obj : inst[x] # None /\ inst[x].addr = c.addr => rc[x] = 0
                /\ \A u \in Thread : op[u] # None /\ op[u].addr = c.addr => u = t
      /\ c.pol = "reference_internal" =>
           /\ c.self \in hold[t] /\ inst[c.self] # None
           /\ inst[c.self].addr = c.addr /\ Field[inst[c.self].type] = c.type
  BY <1>1, <1>3 DEF CallSound
<1>5. rc[o] = 0 /\ Stage(o) = "none" /\ keep_alive[o] = <<>> /\ cell[o] # "live"
  BY <1>1 DEF IInv, Stages, Nursing, Cells
<1>6. c.addr # o
  <2>1. ASSUME c.pol = "reference_internal", c.addr = o
        PROVE  FALSE
    <3>1. c.self \in Obj /\ inst[c.self] # None /\ inst[c.self].addr = o
      BY <1>2, <1>4, <2>1
    <3>2. rc[c.self] > 0 /\ ~Doing(c.self, {"construct"})
      BY <1>4, <2>1, <3>1, Held DEF Doing
    <3>3. inst[o] # None
      BY <3>1, <3>2, Occupied
    <3> QED
      BY <1>1, <3>3
  <2> QED
    BY <1>2, <1>4, <2>1
<1>7. /\ N \in Instance /\ N # None /\ N.addr = c.addr /\ N.type = c.type
      /\ (N.destruct <=> own) /\ (N.cpp_delete <=> own) /\ ~N.clear_keep_alive
  <2>1. /\ N \in Instance /\ N.addr = c.addr /\ N.type = c.type
        /\ (N.destruct <=> own) /\ (N.cpp_delete <=> own) /\ ~N.clear_keep_alive
    BY <1>3, <1>4 DEF NewInst, Instance
  <2>2. None \notin Instance
    BY InstanceMapAssumption
  <2> QED
    BY <2>1, <2>2
<1>8. /\ d \in CallState /\ d # None
      /\ d.step \in {"keep_alive", "register"}
      /\ (d.step = "keep_alive" <=> c.pol = "reference_internal")
      /\ d.obj = o /\ d.addr = c.addr /\ d.type = c.type /\ d.pol = c.pol /\ d.self = c.self
  <2>1. /\ d \in CallState
        /\ d.step \in {"keep_alive", "register"}
        /\ (d.step = "keep_alive" <=> c.pol = "reference_internal")
        /\ d.obj = o /\ d.addr = c.addr /\ d.type = c.type /\ d.pol = c.pol
        /\ d.self = c.self
    BY <1>3 DEF CallState
  <2>2. None \notin CallState
    BY InstanceMapAssumption
  <2> QED
    BY <2>1, <2>2
<1> HIDE DEF N, d
<1>9. /\ inst' \in [Obj -> Instance \cup {None}] /\ inst'[o] = N
      /\ \A p \in Obj : p # o => inst'[p] = inst[p]
      /\ rc' \in [Obj -> Nat] /\ rc'[o] = 1 /\ \A p \in Obj : p # o => rc'[p] = rc[p]
      /\ op' \in [Thread -> CallState \cup {None}] /\ op'[t] = d
      /\ \A u \in Thread : u # t => op'[u] = op[u]
      /\ owned' \subseteq owned /\ \A a \in owned : a \in owned' <=> ~(own /\ a = c.addr)
  BY <1>1, <1>2, <1>7, <1>8
<1>10. /\ \A u \in Thread : o \notin hold[u]
       /\ \A n \in Obj : ~Contains(keep_alive[n], o)
       /\ \A u \in Thread : op[u] # None => op[u].obj # o
       /\ Makers(o) = {}
  BY <1>5, Unreferenced
<1>11. /\ \A x \in Obj : \A S : x # o => (Doing(x, S)' <=> Doing(x, S))
       /\ Doing(o, {"keep_alive", "register"})'
       /\ c.pol = "reference_internal" => Doing(o, {"keep_alive"})'
  <2>1. \A x \in Obj : op[t].obj # x
    BY <1>2, <1>4
  <2> QED
    BY <1>8, <1>9, <2>1 DEF Doing
<1>12. \A x \in Obj : Stage(x)' = Stage(x)
  BY <1>1 DEF Stage
<1>13. TypeOK'
  BY <1>1, <1>2, <1>9 DEF IInv, TypeOK
<1>14. FramesSound' /\ Stages'
  BY <1>1, <1>5, <1>7, <1>9, <1>12 DEF IInv, FramesSound, Stages, Clean, Internal
<1>15. Calls'
  <2>1. ASSUME NEW u \in Thread, op'[u] # None
        PROVE  CallSound(u)'
    <3>1. CASE u = t
      <4>1. c.pol = "reference_internal" => c.self # o /\ inst'[c.self] = inst[c.self]
        BY <1>2, <1>4, <1>9, <1>10
      <4> QED
        BY <1>1, <1>4, <1>6, <1>7, <1>8, <1>9, <3>1, <4>1 DEF CallSound
    <3>2. CASE u # t
      <4>1. op[u] # None /\ op'[u] = op[u] /\ CallSound(u) /\ op[u].obj # o
        BY <1>9, <1>10, <2>1, <3>2 DEF IInv, Calls
      <4>2. op[u].obj \in Obj => inst'[op[u].obj] = inst[op[u].obj]
                               /\ rc'[op[u].obj] = rc[op[u].obj]
        BY <1>9, <4>1
      <4>3. op[u].self \in hold[u] => inst'[op[u].self] = inst[op[u].self]
        BY <1>2, <1>9, <1>10
      <4>4. op[u].addr \in owned => op[u].addr \in owned'
        BY <1>4, <1>9, <3>2, <4>1
      <4>5. /\ op[u].step \in {"lookup", "new"} /\ op[u].pol = "take_ownership" =>
               \A x \in Obj : inst'[x] # None /\ inst'[x].addr = op[u].addr => rc'[x] = 0
            /\ op[u].step \in {"lookup", "new"} /\ op[u].pol = "take_ownership" =>
               \A v \in Thread : op'[v] # None /\ op'[v].addr = op[u].addr => v = u
        <5>1. SUFFICES ASSUME op[u].step \in {"lookup", "new"}, op[u].pol = "take_ownership"
                       PROVE  /\ \A x \in Obj : inst'[x] # None /\ inst'[x].addr = op[u].addr
                                                 => rc'[x] = 0
                              /\ \A v \in Thread : op'[v] # None /\ op'[v].addr = op[u].addr
                                                   => v = u
          OBVIOUS
        <5>2. /\ \A x \in Obj : inst[x] # None /\ inst[x].addr = op[u].addr => rc[x] = 0
              /\ \A v \in Thread : op[v] # None /\ op[v].addr = op[u].addr => v = u
          BY <4>1, <5>1 DEF CallSound
        <5>3. c.addr # op[u].addr
          BY <1>1, <3>2, <5>2
        <5> QED
          BY <1>7, <1>8, <1>9, <5>2, <5>3
      <4> QED
        BY <1>1, <4>1, <4>2, <4>3, <4>4, <4>5 DEF CallSound
    <3> QED
      BY <3>1, <3>2
  <2> QED
    BY <2>1 DEF Calls
<1>16. Flags'
  <2>1. ASSUME NEW x \in Obj, inst'[x] # None
        PROVE  /\ inst'[x].cpp_delete => inst'[x].destruct /\ inst'[x].addr \in Heap
               /\ inst'[x].destruct /\ inst'[x].addr # x => inst'[x].cpp_delete
               /\ inst'[x].addr \in Obj /\ inst'[x].addr # x => ~inst'[x].destruct
               /\ inst'[x].addr = x /\ rc'[x] > 0 =>
                    inst'[x].destruct \/ Doing(x, {"construct"})'
    <3>1. CASE x = o
      BY <1>2, <1>4, <1>6, <1>7, <1>9, <3>1
    <3>2. CASE x # o
      BY <1>9, <1>11, <2>1, <3>2 DEF IInv, Flags
    <3> QED
      BY <3>1, <3>2
  <2> QED
    BY <2>1 DEF Flags
<1>17. Cells'
  <2>1. \A x \in Obj : Pending(x)' => (x # o /\ Pending(x)) \/ (x = o /\ own)
    BY <1>7, <1>9, <1>12 DEF Pending
  <2>2. \A a \in owned' : cell'[a] = "live"
    BY <1>1, <1>9 DEF IInv, Cells
  <2>3. \A x \in Obj : cell'[x] = "live" =>
          inst'[x] # None /\ inst'[x].addr = x /\ inst'[x].destruct
    BY <1>1, <1>5, <1>9 DEF IInv, Cells
  <2>4. own => cell[c.addr] = "live" /\ c.addr \notin owned'
              /\ \A x \in Obj : Pending(x) => inst[x].addr # c.addr
    BY <1>4, <1>9 DEF IInv, Cells
  <2>5. ASSUME NEW x \in Obj, Pending(x)'
        PROVE  inst'[x].addr \notin owned'
               /\ (Stage(x)' # "delete" => cell'[inst'[x].addr] = "live")
    <3>1. CASE x = o
      BY <1>1, <1>7, <1>9, <2>1, <2>4, <2>5, <3>1
    <3>2. CASE x # o
      BY <1>1, <1>9, <1>12, <2>1, <2>5, <3>2 DEF IInv, Cells
    <3> QED
      BY <3>1, <3>2
  <2>6. ASSUME NEW x \in Obj, NEW y \in Obj, Pending(x)', Pending(y)',
               inst'[x].addr = inst'[y].addr
        PROVE  x = y
    <3>1. CASE x # o /\ y # o
      BY <1>9, <2>1, <2>6, <3>1 DEF IInv, Cells
    <3>2. CASE x = o \/ y = o
      BY <1>7, <1>9, <2>1, <2>4, <2>6, <3>2
    <3> QED
      BY <3>1, <3>2
  <2> QED
    BY <2>2, <2>3, <2>5, <2>6 DEF Cells
<1>18. Anchored'
  <2>1. ASSUME NEW y \in Obj, inst'[y] # None, inst'[y].addr # y, ~inst'[y].destruct,
               Stage(y)' # "release"
        PROVE  \/ \E s \in Obj : Contains(keep_alive'[y], s) /\ Encloses(s, y)'
               \/ inst'[y].addr \in Heap /\ (rc'[y] > 0 => inst'[y].addr \in owned')
               \/ Doing(y, {"keep_alive"})'
    <3>1. CASE y = o
      BY <1>2, <1>4, <1>7, <1>9, <1>11, <2>1, <3>1
    <3>2. CASE y # o
      <4>1. inst'[y] = inst[y] /\ rc'[y] = rc[y] /\ Stage(y) # "release"
        BY <1>9, <1>12, <2>1, <3>2
      <4>2. \/ \E s \in Obj : Contains(keep_alive[y], s) /\ Encloses(s, y)
            \/ inst[y].addr \in Heap /\ (rc[y] > 0 => inst[y].addr \in owned)
            \/ Doing(y, {"keep_alive"})
        BY <2>1, <4>1 DEF IInv, Anchored
      <4>3. \A s \in Obj : Contains(keep_alive[y], s) /\ Encloses(s, y) => Encloses(s, y)'
        BY <1>9, <1>10, <4>1 DEF Encloses
      <4>4. own /\ inst[y].addr = c.addr => ~(rc[y] > 0)
        BY <1>4, <2>1, <4>1
      <4> QED
        BY <1>1, <1>9, <1>11, <3>2, <4>1, <4>2, <4>3, <4>4
    <3> QED
      BY <3>1, <3>2
  <2> QED
    BY <2>1 DEF Anchored
<1>19. Mapped'
  <2>1. \A a \in Addr : \A x \in Obj : x # o =>
          (Contains(inst_c2p'[a], x) <=>
            /\ inst'[x] # None /\ inst'[x].addr = a
            /\ ~Doing(x, {"keep_alive", "register"})' /\ Stage(x)' # "release")
    BY <1>1, <1>9, <1>11, <1>12 DEF IInv, Mapped
  <2>2. \A a \in Addr : ~Contains(inst_c2p'[a], o)
    BY <1>1 DEF IInv, Mapped
  <2> QED
    BY <1>1, <1>11, <2>1, <2>2 DEF IInv, Mapped
<1>20. Nursing'
  BY <1>1, <1>5, <1>7, <1>9, <1>12 DEF IInv, Nursing
<1>21. RefsAccounted'
  <2>1. ASSUME NEW p \in Obj
        PROVE  /\ Holders(p)' = Holders(p) /\ Nurses(p)' = Nurses(p)
               /\ Releases(p)' = Releases(p)
    BY <1>1 DEF Holders, Nurses, Releases, Frames
  <2>2. \A p \in Obj : p # o => Makers(p)' = Makers(p)
    BY <1>2, <1>4, <1>8, <1>9 DEF Makers
  <2>3. Cardinality(Makers(o)') = Cardinality(Makers(o)) + 1
    <3>1. t \notin Makers(o) /\ \A u : u \in Makers(o)' <=> u \in Makers(o) \/ u = t
      BY <1>8, <1>9, <1>10 DEF Makers
    <3> QED
      BY <3>1, FiniteCounts, OneMore
  <2>4. /\ Cardinality(Holders(o)) \in Nat /\ Cardinality(Nurses(o)) \in Nat
        /\ Cardinality(Makers(o)) \in Nat /\ Cardinality(Releases(o)) \in Nat
    BY FiniteCounts, Counted
  <2>5. rc'[o] = Cardinality(Holders(o)) + Cardinality(Nurses(o))
               + (Cardinality(Makers(o)) + 1) + Cardinality(Releases(o))
    BY <1>5, <1>9, <2>4 DEF IInv, RefsAccounted
  <2> QED
    BY <1>9, <2>1, <2>2, <2>3, <2>5 DEF IInv, RefsAccounted
<1>22. Pools'
  <2>1. \A u \in Thread, tq \in Pooled, x \in Obj : Contains(pool[u][tq], x) => x # o
    BY <1>1 DEF IInv, Pools
  <2> QED
    BY <1>1, <1>9, <1>12, <2>1 DEF IInv, Pools
<1> QED
  BY <1>1, <1>13, <1>14, <1>15, <1>16, <1>17, <1>18, <1>19, <1>20, <1>21, <1>22
  DEF IInv, NoFailure

\* A call that created o ends and hands its reference to its thread.
Hand(t, o) ==
  /\ op[t] # None /\ op[t].obj = o /\ rc[o] = 1
  /\ op' = [op EXCEPT ![t] = None]
  /\ hold' = [hold EXCEPT ![t] = @ \cup {o}]
  /\ rc' = rc /\ keep_alive' = keep_alive /\ frames' = frames

LEMMA HandedOver ==
  ASSUME IInv, NEW t \in Thread, NEW o \in Obj, Hand(t, o)
  PROVE  /\ RefsAccounted' /\ Stage(o) = "none"
         /\ op' \in [Thread -> CallState \cup {None}] /\ hold' \in [Thread -> SUBSET Obj]
         /\ \A x \in Obj : Stage(x)' = Stage(x)
         /\ \A x \in Obj : \A S : Doing(x, S)' <=> Doing(x, S) /\ x # o
         /\ \A S : Doing(o, S) <=> op[t].step \in S
         /\ \A u \in Thread : op'[u] # None =>
              /\ u # t /\ op[u] # None /\ op'[u] = op[u] /\ op[u].obj # o
              /\ hold'[u] = hold[u] /\ o \notin hold[u]
<1>1. /\ op \in [Thread -> CallState \cup {None}] /\ hold \in [Thread -> SUBSET Obj]
      /\ rc \in [Obj -> Nat] /\ TypeOK /\ RefsAccounted /\ Stages
  BY DEF IInv, TypeOK
<1>2. /\ op[t] # None /\ op[t].obj = o /\ rc[o] = 1
      /\ op' \in [Thread -> CallState \cup {None}] /\ op'[t] = None
      /\ \A u \in Thread : u # t => op'[u] = op[u]
      /\ hold' \in [Thread -> SUBSET Obj] /\ hold'[t] = hold[t] \cup {o}
      /\ \A u \in Thread : u # t => hold'[u] = hold[u]
      /\ rc' = rc /\ keep_alive' = keep_alive /\ frames' = frames
  BY <1>1 DEF Hand
<1>3. /\ \A u \in Thread : o \notin hold[u]
      /\ \A u \in Thread : op[u] # None /\ op[u].obj = o => u = t
  BY <1>1, <1>2, Private
<1>4. Stage(o) = "none" /\ \A x \in Obj : Stage(x)' = Stage(x)
  BY <1>1, <1>2 DEF Stages, Stage
<1>5. /\ \A x \in Obj : \A S : Doing(x, S)' <=> Doing(x, S) /\ x # o
      /\ \A S : Doing(o, S) <=> op[t].step \in S
  BY <1>2, <1>3 DEF Doing
<1>6. ASSUME NEW p \in Obj
      PROVE  /\ Nurses(p)' = Nurses(p) /\ Releases(p)' = Releases(p)
             /\ p # o => Holders(p)' = Holders(p) /\ Makers(p)' = Makers(p)
  BY <1>2 DEF Holders, Nurses, Releases, Frames, Makers
<1>7. /\ Cardinality(Holders(o)') = Cardinality(Holders(o)) + 1
      /\ Cardinality(Makers(o)) = Cardinality(Makers(o)') + 1
      /\ Cardinality(Makers(o)') \in Nat
  <2>1. t \notin Holders(o) /\ \A u : u \in Holders(o)' <=> u \in Holders(o) \/ u = t
    BY <1>2, <1>3 DEF Holders
  <2>2. t \notin Makers(o)' /\ \A u : u \in Makers(o) <=> u \in Makers(o)' \/ u = t
    BY <1>2 DEF Makers
  <2>3. Makers(o)' \subseteq Makers(o)
    BY <2>2
  <2>4. IsFiniteSet(Makers(o)')
    BY <2>3, FiniteCounts, FS_Subset
  <2> QED
    BY <2>1, <2>2, <2>4, FiniteCounts, Counted, OneMore
<1>8. /\ Cardinality(Holders(o)) \in Nat /\ Cardinality(Nurses(o)) \in Nat
      /\ Cardinality(Makers(o)) \in Nat /\ Cardinality(Releases(o)) \in Nat
  BY FiniteCounts, Counted
<1>9. rc'[o] = Cardinality(Holders(o)') + Cardinality(Nurses(o))
             + Cardinality(Makers(o)') + Cardinality(Releases(o))
  BY <1>1, <1>2, <1>7, <1>8 DEF RefsAccounted
<1>10. RefsAccounted'
  BY <1>1, <1>2, <1>6, <1>9 DEF RefsAccounted
<1> QED
  BY <1>2, <1>3, <1>4, <1>5, <1>10

LEMMA ConstructedStep ==
  ASSUME IInv, NEW t \in Thread, Constructed(t)
  PROVE  IInv'
<1> DEFINE o == op[t].obj
<1>1. /\ op[t] # None /\ op[t].step = "construct"
      /\ cell' = [cell EXCEPT ![o] = "live"] /\ inst' = [inst EXCEPT ![o].destruct = TRUE]
      /\ inst_c2p' = inst_c2p /\ owned' = owned /\ pool' = pool /\ failed' = failed
      /\ UNCHANGED <<rc, keep_alive, frames>>
  BY DEF Constructed, At
<1>2. /\ inst \in [Obj -> Instance \cup {None}] /\ cell \in [Addr -> {"free", "raw", "live"}]
      /\ owned \subseteq Heap /\ Heap \cap Obj = {} /\ None \notin Instance /\ rc \in [Obj -> Nat]
      /\ hold \in [Thread -> SUBSET Obj]
  BY InstanceMapAssumption DEF IInv, TypeOK
<1>3. op[t] \in CallState /\ CallSound(t)
  BY <1>1 DEF IInv, TypeOK, Calls
<1>4. /\ o \in Obj /\ o \in Addr /\ inst[o] # None /\ rc[o] = 1
      /\ inst[o] = NewInst(op[t].type, o) /\ op[t].type \in Type
  BY <1>1, <1>3 DEF CallSound, CallState, Addr
<1>5. inst[o] \in Instance /\ inst[o].addr = o /\ ~inst[o].cpp_delete /\ ~inst[o].clear_keep_alive
  <2> HIDE DEF o
  <2> QED
    BY <1>4, NewInstSound
<1>6. Hand(t, o)
  BY <1>1, <1>4 DEF Constructed, Hand
<1> HIDE DEF o
<1>7. /\ inst' \in [Obj -> Instance \cup {None}] /\ inst'[o] # None
      /\ inst'[o].destruct /\ inst'[o].addr = o /\ ~inst'[o].cpp_delete
      /\ ~inst'[o].clear_keep_alive /\ inst'[o].type = inst[o].type
      /\ \A p \in Obj : p # o => inst'[p] = inst[p]
      /\ cell' \in [Addr -> {"free", "raw", "live"}] /\ cell'[o] = "live"
      /\ \A a \in Addr : a # o => cell'[a] = cell[a]
  <2>1. inst'[o] = [inst[o] EXCEPT !.destruct = TRUE] /\ \A p \in Obj : p # o => inst'[p] = inst[p]
    BY <1>1, <1>2, <1>4
  <2>2. inst'[o] \in Instance /\ inst'[o].destruct /\ inst'[o].addr = o /\ ~inst'[o].cpp_delete
        /\ ~inst'[o].clear_keep_alive /\ inst'[o].type = inst[o].type
    BY <1>5, <2>1 DEF Instance
  <2> QED
    BY <1>1, <1>2, <1>4, <2>1, <2>2
<1>8. /\ RefsAccounted' /\ Stage(o) = "none"
      /\ op' \in [Thread -> CallState \cup {None}] /\ hold' \in [Thread -> SUBSET Obj]
      /\ \A x \in Obj : Stage(x)' = Stage(x)
      /\ \A x \in Obj : \A S : Doing(x, S)' <=> Doing(x, S) /\ x # o
      /\ \A S : Doing(o, S) <=> op[t].step \in S
      /\ \A u \in Thread : op'[u] # None =>
           /\ u # t /\ op[u] # None /\ op'[u] = op[u] /\ op[u].obj # o
           /\ hold'[u] = hold[u] /\ o \notin hold[u]
  BY <1>4, <1>6, HandedOver
<1>9. /\ rc' = rc /\ keep_alive' = keep_alive /\ frames' = frames
      /\ \A a \in Heap : a \in Addr /\ a # o
      /\ \A x \in Obj : x \in Addr
  BY <1>1, <1>2, <1>4 DEF Addr
<1>10. \A x \in Obj :
         /\ inst'[x] # None <=> inst[x] # None
         /\ inst[x] # None =>
              /\ inst'[x].addr = inst[x].addr /\ inst'[x].type = inst[x].type
              /\ inst'[x].clear_keep_alive <=> inst[x].clear_keep_alive
  BY <1>4, <1>5, <1>7
<1>11. TypeOK'
  BY <1>1, <1>7, <1>8, <1>9 DEF IInv, TypeOK
<1>12. \A x \in Obj : inst[x] # None /\ x # o /\ inst[x].destruct => inst[x].addr # o
  BY <1>4 DEF IInv, Flags
<1>13. FramesSound' /\ Stages'
  <2>1. ASSUME NEW x \in Obj
        PROVE  /\ inst'[x] = None => rc'[x] = 0
               /\ Stage(x)' # "none" => inst'[x] # None /\ rc'[x] = 0
               /\ Stage(x)' \in {"recycle", "park"} => Clean(x)'
               /\ Stage(x)' \in {"destruct", "delete"} => inst'[x].destruct
               /\ Stage(x)' = "delete" =>
                    inst'[x].cpp_delete /\ cell'[inst'[x].addr] = "raw"
                    /\ inst'[x].addr \notin owned'
               /\ Stage(x)' = "park" => cell'[x] # "live"
    <3>1. CASE x = o
      BY <1>4, <1>7, <1>8, <1>9, <3>1
    <3>2. CASE x # o
      <4>1. inst[x] # None => inst[x].addr \in Addr
        BY <1>2 DEF Instance
      <4>2. Stage(x) = "delete" => cell'[inst[x].addr] = cell[inst[x].addr]
        BY <1>7, <1>12, <3>2, <4>1 DEF IInv, Stages
      <4> QED
        BY <1>1, <1>7, <1>8, <1>9, <3>2, <4>2 DEF IInv, Stages, Clean, Internal
    <3> QED
      BY <3>1, <3>2
  <2> QED
    BY <1>9, <2>1 DEF IInv, FramesSound, Stages
<1>14. Calls'
  <2>1. ASSUME NEW u \in Thread, op'[u] # None
        PROVE  CallSound(u)'
    <3>1. /\ u # t /\ op[u] # None /\ op'[u] = op[u] /\ op[u].obj # o /\ CallSound(u)
          /\ hold'[u] = hold[u] /\ o \notin hold[u]
      BY <1>8, <2>1 DEF IInv, Calls
    <3>2. op[u].obj \in Obj => inst'[op[u].obj] = inst[op[u].obj]
      BY <1>7, <3>1
    <3>3. op[u].self \in hold[u] => inst'[op[u].self] = inst[op[u].self]
      BY <1>2, <1>7, <3>1
    <3>4. \A v \in Thread : op'[v] # None => op[v] # None /\ op'[v].addr = op[v].addr
      BY <1>8
    <3> QED
      BY <1>1, <1>9, <1>10, <3>1, <3>2, <3>3, <3>4 DEF CallSound
  <2> QED
    BY <2>1 DEF Calls
<1>15. Flags'
  <2>1. \A x \in Obj : x # o => inst'[x] = inst[x] /\ (Doing(x, {"construct"})' <=> Doing(x, {"construct"}))
    BY <1>7, <1>8
  <2> QED
    BY <1>7, <1>9, <2>1 DEF IInv, Flags
<1>16. Cells'
  <2>1. \A x \in Obj : Pending(x)' => x = o \/ (Pending(x) /\ inst[x].addr # o)
    BY <1>7, <1>8, <1>9, <1>12 DEF Pending
  <2>2. /\ \A a \in owned' : cell'[a] = "live"
        /\ \A x \in Obj : cell'[x] = "live" =>
             inst'[x] # None /\ inst'[x].addr = x /\ inst'[x].destruct
    BY <1>1, <1>2, <1>7, <1>9 DEF IInv, Cells
  <2>3. ASSUME NEW x \in Obj, Pending(x)'
        PROVE  inst'[x].addr \notin owned'
               /\ (Stage(x)' # "delete" => cell'[inst'[x].addr] = "live")
    <3>1. CASE x = o
      BY <1>1, <1>2, <1>4, <1>7, <3>1
    <3>2. CASE x # o
      <4>1. Pending(x) /\ inst[x].addr # o /\ inst[x].addr \in Addr
        BY <1>2, <2>1, <2>3, <3>2 DEF Pending, Instance
      <4> QED
        BY <1>1, <1>7, <1>8, <3>2, <4>1 DEF IInv, Cells
    <3> QED
      BY <3>1, <3>2
  <2>4. ASSUME NEW x \in Obj, NEW y \in Obj, Pending(x)', Pending(y)',
               inst'[x].addr = inst'[y].addr
        PROVE  x = y
    BY <1>7, <2>1, <2>4 DEF IInv, Cells
  <2> QED
    BY <2>2, <2>3, <2>4 DEF Cells
<1>17. Anchored'
  <2>1. ASSUME NEW y \in Obj, inst'[y] # None, inst'[y].addr # y, ~inst'[y].destruct,
               Stage(y)' # "release"
        PROVE  \/ \E s \in Obj : Contains(keep_alive'[y], s) /\ Encloses(s, y)'
               \/ inst'[y].addr \in Heap /\ (rc'[y] > 0 => inst'[y].addr \in owned')
               \/ Doing(y, {"keep_alive"})'
    <3>1. y # o /\ inst'[y] = inst[y] /\ Stage(y) # "release"
      BY <1>7, <1>8, <2>1
    <3>2. \/ \E s \in Obj : Contains(keep_alive[y], s) /\ Encloses(s, y)
          \/ inst[y].addr \in Heap /\ (rc[y] > 0 => inst[y].addr \in owned)
          \/ Doing(y, {"keep_alive"})
      BY <2>1, <3>1 DEF IInv, Anchored
    <3>3. \A s \in Obj : Encloses(s, y) => Encloses(s, y)'
      BY <1>10, <3>1 DEF Encloses
    <3> QED
      BY <1>1, <1>8, <1>9, <3>1, <3>2, <3>3
  <2> QED
    BY <2>1 DEF Anchored
<1>18. Mapped'
  <2>1. \A x \in Obj :
          Doing(x, {"keep_alive", "register"})' <=> Doing(x, {"keep_alive", "register"})
    BY <1>1, <1>8
  <2>2. \A x \in Obj, a \in Addr :
          inst'[x] # None /\ inst'[x].addr = a <=> inst[x] # None /\ inst[x].addr = a
    BY <1>10
  <2> QED
    BY <1>1, <1>8, <2>1, <2>2 DEF IInv, Mapped
<1>19. Nursing'
  BY <1>8, <1>9, <1>10 DEF IInv, Nursing
<1>20. Pools'
  <2>1. \A u \in Thread, tq \in Pooled, x \in Obj : Contains(pool[u][tq], x) => x # o
    BY <1>4 DEF IInv, Pools
  <2> QED
    BY <1>1, <1>7, <1>8, <1>9, <2>1 DEF IInv, Pools
<1> QED
  BY <1>1, <1>8, <1>11, <1>13, <1>14, <1>15, <1>16, <1>17, <1>18, <1>19, <1>20
  DEF IInv, NoFailure

\* inst_register never meets an entry of the wrapper.
LEMMA PutRegisterStep ==
  ASSUME IInv, NEW t \in Thread, PutRegister(t)
  PROVE  IInv'
<1> DEFINE o == op[t].obj
           a == op[t].addr
<1>1. /\ op[t] # None /\ op[t].step = "register"
      /\ inst' = inst /\ cell' = cell /\ owned' = owned /\ pool' = pool
      /\ UNCHANGED <<rc, keep_alive, frames>>
  BY DEF PutRegister, At
<1>2. op[t] \in CallState /\ CallSound(t) /\ inst_c2p \in [Addr -> Seq(Obj)]
  BY <1>1 DEF IInv, TypeOK, Calls
<1>3. /\ o \in Obj /\ a \in Addr /\ inst[o] # None /\ rc[o] = 1 /\ inst[o].addr = a
  BY <1>1, <1>2 DEF CallSound, CallState
<1>4. ~Contains(inst_c2p[a], o)
  <2>1. Doing(o, {"keep_alive", "register"})
    BY <1>1 DEF Doing
  <2> HIDE DEF o, a
  <2> QED
    BY <1>3, <2>1 DEF IInv, Mapped
<1>5. /\ inst_c2p' = [inst_c2p EXCEPT ![a] = Append(@, o)] /\ failed' = failed
      /\ Hand(t, o)
  BY <1>1, <1>3, <1>4 DEF PutRegister, Hand
<1> HIDE DEF o, a
<1>6. /\ Append(inst_c2p[a], o) \in Seq(Obj) /\ IsInjective(Append(inst_c2p[a], o))
      /\ \A y : Contains(Append(inst_c2p[a], o), y) <=> Contains(inst_c2p[a], y) \/ y = o
  <2>1. inst_c2p[a] \in Seq(Obj) /\ IsInjective(inst_c2p[a])
    BY <1>2, <1>3 DEF IInv, Mapped
  <2> QED
    BY <1>3, <1>4, <2>1, Appended
<1>7. /\ inst_c2p' \in [Addr -> Seq(Obj)]
      /\ inst_c2p'[a] = Append(inst_c2p[a], o)
      /\ \A b \in Addr : b # a => inst_c2p'[b] = inst_c2p[b]
  BY <1>2, <1>3, <1>5, <1>6
<1>8. /\ RefsAccounted' /\ Stage(o) = "none"
      /\ op' \in [Thread -> CallState \cup {None}] /\ hold' \in [Thread -> SUBSET Obj]
      /\ \A x \in Obj : Stage(x)' = Stage(x)
      /\ \A x \in Obj : \A S : Doing(x, S)' <=> Doing(x, S) /\ x # o
      /\ \A S : Doing(o, S) <=> op[t].step \in S
      /\ \A u \in Thread : op'[u] # None =>
           /\ u # t /\ op[u] # None /\ op'[u] = op[u] /\ op[u].obj # o
           /\ hold'[u] = hold[u] /\ o \notin hold[u]
  BY <1>3, <1>5, HandedOver
<1>9. /\ rc' = rc /\ keep_alive' = keep_alive /\ frames' = frames
      /\ \A x \in Obj : Pending(x)' <=> Pending(x)
      /\ \A x, s \in Obj : Encloses(s, x)' <=> Encloses(s, x)
  BY <1>1, <1>8 DEF Pending, Encloses
<1>10. \A x \in Obj : /\ Doing(x, {"construct"})' <=> Doing(x, {"construct"})
                      /\ Doing(x, {"keep_alive"})' <=> Doing(x, {"keep_alive"})
  BY <1>1, <1>8
<1>11. TypeOK'
  BY <1>1, <1>5, <1>7, <1>8, <1>9 DEF IInv, TypeOK
<1>12. FramesSound' /\ Stages' /\ Flags' /\ Cells' /\ Nursing' /\ Pools'
  BY <1>1, <1>8, <1>9, <1>10
  DEF IInv, FramesSound, Stages, Clean, Internal, Flags, Cells, Nursing, Pools
<1>13. Anchored'
  BY <1>1, <1>8, <1>9, <1>10 DEF IInv, Anchored
<1>14. Calls'
  <2>1. ASSUME NEW u \in Thread, op'[u] # None
        PROVE  CallSound(u)'
    <3>1. /\ op[u] # None /\ op'[u] = op[u] /\ CallSound(u) /\ hold'[u] = hold[u]
      BY <1>8, <2>1 DEF IInv, Calls
    <3>2. \A v \in Thread : op'[v] # None => op[v] # None /\ op'[v].addr = op[v].addr
      BY <1>8
    <3> QED
      BY <1>1, <1>9, <3>1, <3>2 DEF CallSound
  <2> QED
    BY <2>1 DEF Calls
<1>15. Mapped'
  <2>1. ASSUME NEW b \in Addr, NEW x \in Obj
        PROVE  Contains(inst_c2p'[b], x) <=>
                 /\ inst'[x] # None /\ inst'[x].addr = b
                 /\ ~Doing(x, {"keep_alive", "register"})' /\ Stage(x)' # "release"
    <3>1. Contains(inst_c2p[b], x) <=>
            /\ inst[x] # None /\ inst[x].addr = b
            /\ ~Doing(x, {"keep_alive", "register"}) /\ Stage(x) # "release"
      BY DEF IInv, Mapped
    <3>2. Contains(inst_c2p'[b], x) <=> Contains(inst_c2p[b], x) \/ (x = o /\ b = a)
      BY <1>6, <1>7
    <3>3. CASE x = o
      BY <1>1, <1>3, <1>8, <3>1, <3>2, <3>3
    <3>4. CASE x # o
      BY <1>1, <1>8, <3>1, <3>2, <3>4
    <3> QED
      BY <3>3, <3>4
  <2>2. \A b \in Addr : IsInjective(inst_c2p'[b])
    BY <1>6, <1>7 DEF IInv, Mapped
  <2> QED
    BY <2>1, <2>2 DEF Mapped
<1> QED
  BY <1>5, <1>8, <1>11, <1>12, <1>13, <1>14, <1>15 DEF IInv, NoFailure

LEMMA Stuttered ==
  ASSUME IInv, UNCHANGED vars
  PROVE  IInv'
<1>1. /\ inst' = inst /\ rc' = rc /\ inst_c2p' = inst_c2p /\ keep_alive' = keep_alive
      /\ cell' = cell /\ owned' = owned /\ pool' = pool /\ hold' = hold /\ op' = op
      /\ frames' = frames /\ failed' = failed
  BY DEF vars
<1>2. TypeOK' /\ FramesSound' /\ NoFailure'
  BY <1>1 DEF IInv, TypeOK, FramesSound, NoFailure
<1>3. /\ \A x \in Obj : Stage(x)' = Stage(x) /\ (Pending(x)' <=> Pending(x))
      /\ \A x \in Obj : \A S : Doing(x, S)' <=> Doing(x, S)
      /\ \A s, x \in Obj : Encloses(s, x)' <=> Encloses(s, x)
  BY <1>1 DEF Stage, Pending, Doing, Encloses
<1>4. Stages' /\ Flags' /\ Cells' /\ Anchored'
  BY <1>1, <1>3 DEF IInv, Stages, Clean, Internal, Flags, Cells, Anchored
<1>5. Calls'
  BY <1>1 DEF IInv, Calls, CallSound
<1>6. Mapped' /\ Nursing' /\ Pools'
  BY <1>1, <1>3 DEF IInv, Mapped, Nursing, Pools
<1>7. RefsAccounted'
  BY <1>1 DEF IInv, RefsAccounted, Holders, Nurses, Makers, Releases, Frames
<1> QED
  BY <1>2, <1>4, <1>5, <1>6, <1>7 DEF IInv

\* A thread that holds both wrappers, or a call that creates the nurse, adds a
\* patient to the list of a nurse.
LEMMA AddedStep ==
  ASSUME IInv, NEW t \in Thread, NEW nurse \in Obj, NEW patient \in hold[t],
         ~Contains(keep_alive[nurse], patient), nurse # patient,
         keep_alive' = [keep_alive EXCEPT ![nurse] = Append(@, patient)],
         rc' = [rc EXCEPT ![patient] = @ + 1],
         inst' = [inst EXCEPT ![nurse].clear_keep_alive = TRUE],
         inst_c2p' = inst_c2p, cell' = cell, owned' = owned, pool' = pool, hold' = hold,
         frames' = frames, failed' = failed,
         \/ nurse \in hold[t] /\ op' = op
         \/ /\ op[t] # None /\ op[t].step = "keep_alive"
            /\ op[t].obj = nurse /\ op[t].self = patient
            /\ op' = [op EXCEPT ![t].step = "register"]
  PROVE  IInv'
<1>1. /\ inst \in [Obj -> Instance \cup {None}] /\ rc \in [Obj -> Nat]
      /\ op \in [Thread -> CallState \cup {None}] /\ hold \in [Thread -> SUBSET Obj]
      /\ keep_alive \in [Obj -> Seq(Obj)] /\ owned \subseteq Heap /\ patient \in Obj
      /\ None \notin Instance /\ None \notin CallState
  BY InstanceMapAssumption DEF IInv, TypeOK
<1>2. rc[patient] > 0 /\ \A u \in Thread : op[u] # None => op[u].obj # patient
  BY <1>1, Held
<1>3. /\ inst[nurse] # None /\ rc[nurse] > 0 /\ Stage(nurse) = "none"
      /\ \A u \in Thread : op[u] # None /\ op[u].obj = nurse =>
           u = t /\ op[u].step = "keep_alive" /\ op'[u].step = "register"
  <2>1. CASE nurse \in hold[t]
    BY <1>1, <2>1, Held
  <2>2. CASE /\ op[t] # None /\ op[t].step = "keep_alive" /\ op[t].obj = nurse
             /\ op' = [op EXCEPT ![t].step = "register"]
    <3>1. inst[nurse] # None /\ rc[nurse] = 1
      BY <2>2 DEF IInv, Calls, CallSound
    <3>2. \A u \in Thread : op[u] # None /\ op[u].obj = nurse => u = t
      BY <2>2, <3>1, Private DEF IInv
    <3>3. Stage(nurse) = "none"
      BY <3>1 DEF IInv, Stages
    <3>4. op'[t].step = "register"
      <4>1. op[t] \in CallState
        BY <1>1, <2>2
      <4> QED
        BY <1>1, <2>2, <4>1 DEF CallState
    <3> QED
      BY <2>2, <3>1, <3>2, <3>3, <3>4
  <2> QED
    BY <2>1, <2>2
<1>4. /\ op' \in [Thread -> CallState \cup {None}]
      /\ \A u \in Thread : /\ op'[u] # None <=> op[u] # None
                           /\ op[u] # None /\ op[u].obj # nurse => op'[u] = op[u]
                           /\ op[u] # None =>
                                /\ op'[u].obj = op[u].obj /\ op'[u].addr = op[u].addr
                                /\ op'[u].type = op[u].type /\ op'[u].pol = op[u].pol
  <2>1. CASE op' = op
    BY <1>1, <2>1
  <2>2. CASE /\ op[t] # None /\ op[t].obj = nurse
             /\ op' = [op EXCEPT ![t].step = "register"]
    <3>1. op[t] \in CallState /\ op'[t] = [op[t] EXCEPT !.step = "register"]
          /\ \A u \in Thread : u # t => op'[u] = op[u]
      BY <1>1, <2>2
    <3>2. /\ op'[t] \in CallState /\ op'[t].obj = op[t].obj /\ op'[t].addr = op[t].addr
          /\ op'[t].type = op[t].type /\ op'[t].pol = op[t].pol
      BY <3>1 DEF CallState
    <3>3. op' \in [Thread -> CallState \cup {None}]
      BY <1>1, <2>2, <3>1, <3>2
    <3> QED
      BY <1>1, <2>2, <3>1, <3>2, <3>3
  <2> QED
    BY <2>1, <2>2
<1>5. /\ inst' \in [Obj -> Instance \cup {None}]
      /\ inst'[nurse].clear_keep_alive
      /\ \A x \in Obj :
           /\ x # nurse => inst'[x] = inst[x]
           /\ inst'[x] # None <=> inst[x] # None
           /\ inst[x] # None =>
                /\ inst'[x].addr = inst[x].addr /\ inst'[x].type = inst[x].type
                /\ inst'[x].destruct = inst[x].destruct
                /\ inst'[x].cpp_delete = inst[x].cpp_delete
  <2>1. inst[nurse] \in Instance /\ inst'[nurse] = [inst[nurse] EXCEPT !.clear_keep_alive = TRUE]
        /\ \A x \in Obj : x # nurse => inst'[x] = inst[x]
    BY <1>1, <1>3
  <2>2. /\ inst'[nurse] \in Instance /\ inst'[nurse].clear_keep_alive
        /\ inst'[nurse].addr = inst[nurse].addr /\ inst'[nurse].type = inst[nurse].type
        /\ inst'[nurse].destruct = inst[nurse].destruct
        /\ inst'[nurse].cpp_delete = inst[nurse].cpp_delete
    <3>1. \A i \in Instance : LET j == [i EXCEPT !.clear_keep_alive = TRUE] IN
            /\ j \in Instance /\ j.clear_keep_alive /\ j.addr = i.addr /\ j.type = i.type
            /\ j.destruct = i.destruct /\ j.cpp_delete = i.cpp_delete
      BY DEF Instance
    <3> QED
      BY <2>1, <3>1
  <2> QED
    BY <1>1, <1>3, <2>1, <2>2
<1>6. /\ rc' \in [Obj -> Nat] /\ rc'[patient] = rc[patient] + 1
      /\ \A x \in Obj : /\ x # patient => rc'[x] = rc[x]
                        /\ rc'[x] > 0 <=> rc[x] > 0
                        /\ rc'[x] = 0 <=> rc[x] = 0
  BY <1>1, <1>2
<1>7. /\ keep_alive' \in [Obj -> Seq(Obj)] /\ keep_alive'[nurse] # <<>>
      /\ \A x \in Obj : x # nurse => keep_alive'[x] = keep_alive[x]
      /\ \A y : Contains(keep_alive'[nurse], y) <=>
                  Contains(keep_alive[nurse], y) \/ y = patient
      /\ \A x \in Obj : IsInjective(keep_alive'[x])
  <2>1. keep_alive[nurse] \in Seq(Obj) /\ \A x \in Obj : IsInjective(keep_alive[x])
    BY <1>1 DEF IInv, Nursing
  <2>2. /\ Append(keep_alive[nurse], patient) \in Seq(Obj)
        /\ IsInjective(Append(keep_alive[nurse], patient))
        /\ \A y : Contains(Append(keep_alive[nurse], patient), y) <=>
                    Contains(keep_alive[nurse], y) \/ y = patient
    BY <1>1, <2>1, Appended
  <2>3. keep_alive' \in [Obj -> Seq(Obj)]
        /\ keep_alive'[nurse] = Append(keep_alive[nurse], patient)
        /\ \A x \in Obj : x # nurse => keep_alive'[x] = keep_alive[x]
    BY <1>1, <2>2
  <2>4. keep_alive'[nurse] # <<>>
    BY <1>1, <2>2, <2>3, Emptied
  <2> QED
    BY <2>1, <2>2, <2>3, <2>4
<1>8. /\ \A x \in Obj : Stage(x)' = Stage(x)
      /\ \A x \in Obj : Doing(x, {"construct"})' <=> Doing(x, {"construct"})
      /\ \A x \in Obj : Doing(x, {"keep_alive", "register"})' <=>
                        Doing(x, {"keep_alive", "register"})
      /\ \A x \in Obj : x # nurse => (Doing(x, {"keep_alive"})' <=> Doing(x, {"keep_alive"}))
  BY <1>3, <1>4 DEF Stage, Doing
<1>9. /\ \A x \in Obj : Pending(x)' <=> Pending(x)
      /\ \A s, x \in Obj : Encloses(s, x)' <=> Encloses(s, x)
  BY <1>5, <1>6, <1>8 DEF Pending, Encloses
<1>10. TypeOK'
  BY <1>4, <1>5, <1>6, <1>7 DEF IInv, TypeOK
<1>11. FramesSound' /\ Stages'
  <2>1. \A x \in Obj : Stage(x) # "none" => x # nurse
    BY <1>3
  <2> QED
    BY <1>5, <1>6, <1>8, <2>1 DEF IInv, FramesSound, Stages, Clean, Internal
<1>12. Calls'
  <2>1. ASSUME NEW u \in Thread, op'[u] # None
        PROVE  CallSound(u)'
    <3>1. /\ op[u] # None /\ CallSound(u) /\ op[u].obj # patient
          /\ op'[u].obj = op[u].obj /\ op'[u].addr = op[u].addr
          /\ op'[u].type = op[u].type /\ op'[u].pol = op[u].pol
      BY <1>2, <1>4, <2>1 DEF IInv, Calls
    <3>2. op[u].obj \in Obj => rc'[op[u].obj] = rc[op[u].obj]
      BY <1>6, <3>1
    <3>3. CASE op[u].obj = nurse
      BY <1>3, <1>5, <3>1, <3>2, <3>3 DEF CallSound
    <3>4. CASE op[u].obj # nurse
      <4>1. op'[u] = op[u]
        BY <1>4, <3>1, <3>4
      <4>2. op[u].obj \in Obj => inst'[op[u].obj] = inst[op[u].obj]
        BY <1>5, <3>4
      <4>3. op[u].self \in hold[u] => op[u].self \in Obj
        BY <1>1
      <4>4. /\ \A v \in Thread : op'[v] # None => op[v] # None /\ op'[v].addr = op[v].addr
            /\ \A x \in Obj : inst'[x] # None => inst[x] # None /\ inst'[x].addr = inst[x].addr
        BY <1>4, <1>5
      <4>5. /\ op[u].step \in {"lookup", "new"} /\ op[u].pol = "take_ownership" =>
               \A x \in Obj : inst'[x] # None /\ inst'[x].addr = op[u].addr => rc'[x] = 0
            /\ op[u].step \in {"lookup", "new"} /\ op[u].pol = "take_ownership" =>
               \A v \in Thread : op'[v] # None /\ op'[v].addr = op[u].addr => v = u
        BY <1>6, <3>1, <4>4 DEF CallSound
      <4>6. op[u].self \in Obj /\ inst[op[u].self] # None =>
              /\ inst'[op[u].self] # None
              /\ inst'[op[u].self].addr = inst[op[u].self].addr
              /\ inst'[op[u].self].type = inst[op[u].self].type
        BY <1>5
      <4> QED
        BY <3>1, <3>2, <4>1, <4>2, <4>3, <4>5, <4>6 DEF CallSound
    <3> QED
      BY <3>3, <3>4
  <2> QED
    BY <2>1 DEF Calls
<1>13. Flags'
  BY <1>5, <1>6, <1>8 DEF IInv, Flags
<1>14. Cells'
  <2>1. \A x \in Obj : Pending(x) => inst'[x].addr = inst[x].addr
    BY <1>5 DEF Pending
  <2> QED
    BY <1>5, <1>8, <1>9, <2>1 DEF IInv, Cells
<1>15. Anchored'
  <2>1. ASSUME NEW y \in Obj, inst'[y] # None, inst'[y].addr # y, ~inst'[y].destruct,
               Stage(y)' # "release"
        PROVE  \/ \E s \in Obj : Contains(keep_alive'[y], s) /\ Encloses(s, y)'
               \/ inst'[y].addr \in Heap /\ (rc'[y] > 0 => inst'[y].addr \in owned')
               \/ Doing(y, {"keep_alive"})'
    <3>1. \/ \E s \in Obj : Contains(keep_alive[y], s) /\ Encloses(s, y)
          \/ inst[y].addr \in Heap /\ (rc[y] > 0 => inst[y].addr \in owned)
          \/ Doing(y, {"keep_alive"})
      BY <1>5, <1>8, <2>1 DEF IInv, Anchored
    <3>2. CASE \E s \in Obj : Contains(keep_alive[y], s) /\ Encloses(s, y)
      BY <1>7, <1>9, <3>2
    <3>3. CASE inst[y].addr \in Heap /\ (rc[y] > 0 => inst[y].addr \in owned)
      BY <1>5, <1>6, <2>1, <3>3
    <3>4. CASE Doing(y, {"keep_alive"})
      <4>1. CASE y # nurse
        BY <1>8, <3>4, <4>1
      <4>2. CASE y = nurse
        <5>1. op[t] # None /\ op[t].step = "keep_alive" /\ op[t].obj = nurse
          BY <1>3, <3>4, <4>2 DEF Doing
        <5>2. op[t].self = patient
          BY <1>1, <5>1, Held
        <5>3. CallSound(t)
          BY <5>1 DEF IInv, Calls
        <5>4. Encloses(patient, nurse)
          BY <5>1, <5>2, <5>3 DEF CallSound, Encloses
        <5> QED
          BY <1>1, <1>7, <1>9, <4>2, <5>4
      <4> QED
        BY <4>1, <4>2
    <3> QED
      BY <3>1, <3>2, <3>3, <3>4
  <2> QED
    BY <2>1 DEF Anchored
<1>16. Mapped'
  BY <1>5, <1>8 DEF IInv, Mapped
<1>17. Nursing'
  BY <1>3, <1>5, <1>7, <1>8 DEF IInv, Nursing
<1>18. RefsAccounted'
  <2>1. ASSUME NEW p \in Obj
        PROVE  /\ Holders(p)' = Holders(p) /\ Releases(p)' = Releases(p)
               /\ Makers(p)' = Makers(p)
               /\ p # patient => Nurses(p)' = Nurses(p)
    BY <1>4, <1>7 DEF Holders, Nurses, Releases, Frames, Makers
  <2>2. Cardinality(Nurses(patient)') = Cardinality(Nurses(patient)) + 1
    <3>1. nurse \notin Nurses(patient)
          /\ \A n : n \in Nurses(patient)' <=> n \in Nurses(patient) \/ n = nurse
      BY <1>7 DEF Nurses
    <3> QED
      BY <1>1, <3>1, FiniteCounts, OneMore
  <2>3. /\ Cardinality(Holders(patient)) \in Nat /\ Cardinality(Nurses(patient)) \in Nat
        /\ Cardinality(Makers(patient)) \in Nat /\ Cardinality(Releases(patient)) \in Nat
    BY <1>1, FiniteCounts, Counted
  <2>4. rc'[patient] = Cardinality(Holders(patient)) + Cardinality(Nurses(patient)')
                     + Cardinality(Makers(patient)) + Cardinality(Releases(patient))
    BY <1>1, <1>6, <2>2, <2>3 DEF IInv, RefsAccounted
  <2> QED
    BY <1>1, <1>6, <2>1, <2>4 DEF IInv, RefsAccounted
<1>19. Pools'
  <2>1. \A u \in Thread, tq \in Pooled, x \in Obj :
          Contains(pool[u][tq], x) => x # nurse /\ x # patient
    BY <1>2, <1>3, <1>6 DEF IInv, Pools
  <2> QED
    BY <1>5, <1>6, <1>8, <2>1 DEF IInv, Pools
<1> QED
  BY <1>10, <1>11, <1>12, <1>13, <1>14, <1>15, <1>16, <1>17, <1>18, <1>19
  DEF IInv, NoFailure

LEMMA PutKeepAliveStep ==
  ASSUME IInv, NEW t \in Thread, PutKeepAlive(t)
  PROVE  IInv'
<1>1. /\ op[t] # None /\ op[t].step = "keep_alive"
      /\ AddPatient(op[t].obj, op[t].self) /\ op' = [op EXCEPT ![t].step = "register"]
      /\ inst_c2p' = inst_c2p /\ cell' = cell /\ owned' = owned /\ pool' = pool
      /\ hold' = hold /\ frames' = frames /\ failed' = failed
  BY DEF PutKeepAlive, At, Goto
<1>2. CallSound(t) /\ op[t].self \in hold[t] /\ op[t].obj \in Obj
      /\ ~inst[op[t].obj].clear_keep_alive /\ hold[t] \subseteq Obj
  BY <1>1 DEF IInv, Calls, CallSound, TypeOK
<1>3. keep_alive[op[t].obj] = <<>>
  BY <1>2 DEF IInv, Nursing
<1>4. ~Contains(keep_alive[op[t].obj], op[t].self)
  BY <1>3 DEF Contains
<1>5. op[t].obj # op[t].self
  BY <1>1, <1>2, Held
<1> QED
  BY <1>1, <1>2, <1>4, <1>5, AddedStep DEF AddPatient

LEMMA KeepAliveStep ==
  ASSUME IInv, NEW t \in Thread, NEW nurse \in Obj, NEW patient \in Obj,
         KeepAlive(t, nurse, patient)
  PROVE  IInv'
<1>1. CASE Contains(keep_alive[nurse], patient)
  BY <1>1, Stuttered DEF KeepAlive, AddPatient, vars
<1>2. CASE ~Contains(keep_alive[nurse], patient)
  BY <1>2, AddedStep DEF KeepAlive, AddPatient
<1> QED
  BY <1>1, <1>2

\* inst_dealloc goes from one step to the next; before it releases patients, its
\* frame has none.
LEMMA Continued ==
  ASSUME IInv, NEW t \in Thread, frames[t] # <<>>, Last(frames[t]).pc # "release",
         NEW pc \in PC \ {"release"}, Continue(t, pc), NEW o, o = Self(t)
  PROVE  /\ o \in Obj /\ Stage(o) = Last(frames[t]).pc
         /\ inst[o] \in Instance /\ inst[o] # None /\ rc[o] = 0
         /\ frames' \in [Thread -> Seq(Frame)] /\ FramesSound'
         /\ Stage(o)' = pc
         /\ \A x \in Obj : x # o => Stage(x)' = Stage(x)
         /\ \A p : Releases(p)' = Releases(p)
<1> DEFINE l == Last(frames[t])
           g == [l EXCEPT !.pc = pc]
<1>1. frames \in [Thread -> Seq(Frame)] /\ DistinctIn(frames) /\ PatientsIn(frames)
      /\ frames[t] \in Seq(Frame)
  BY DEF IInv, TypeOK, FramesSound
<1>2. l \in Frame /\ l \in FramesIn(frames, t)
  <2>1. Len(frames[t]) \in DOMAIN frames[t] /\ l \in Frame
    BY <1>1, Fronts DEF Last
  <2> QED
    BY <2>1 DEF FramesIn, Last
<1>3. l.patients = <<>> /\ l.obj \in Obj
  BY <1>1, <1>2 DEF PatientsIn, Frame
<1>4. g \in Frame /\ g.obj = l.obj /\ g.pc = pc /\ g.patients = <<>>
  BY <1>2, <1>3 DEF Frame, PC
<1>5. /\ frames' \in [Thread -> Seq(Frame)] /\ frames'[t] = Front(frames[t]) \o <<g>>
      /\ \A u \in Thread : u # t => frames'[u] = frames[u]
  <2>1. Front(frames[t]) \o <<g>> \in Seq(Frame)
    BY <1>1, <1>4, Fronts
  <2> QED
    BY <1>1, <2>1 DEF Continue
<1> HIDE DEF g
<1>6. Move(frames, frames', t, g)
  BY <1>1, <1>4, <1>5 DEF Move
<1>7. /\ DistinctIn(frames')
      /\ \A u \in Thread : u # t => FramesIn(frames', u) = FramesIn(frames, u)
      /\ \A f : f \in FramesIn(frames', t) <=> (f \in FramesIn(frames, t) /\ f # l) \/ f = g
      /\ StageIn(frames', o) = pc
      /\ \A x \in Obj : x # o => StageIn(frames', x) = StageIn(frames, x)
  BY <1>4, <1>6, Moved DEF Self
<1>8. PatientsIn(frames')
  BY <1>1, <1>4, <1>7, Emptied DEF PatientsIn
<1>9. Stage(o) = l.pc /\ o \in Obj
  BY <1>1, <1>2, <1>3, StageMeaning DEF Stage, Self
<1>10. l.pc # "none"
  BY <1>2 DEF Frame
<1>11. inst[o] # None /\ rc[o] = 0 /\ inst[o] \in Instance
  BY <1>9, <1>10 DEF IInv, Stages, TypeOK
<1>12. ASSUME NEW p
       PROVE  Releases(p)' = Releases(p)
  <2>1. ~Contains(<<>>, p)
    BY DEF Contains
  <2>2. \A u \in Thread : \A f : Contains(f.patients, p) =>
          (f \in FramesIn(frames, u) <=> f \in FramesIn(frames', u))
    BY <1>3, <1>4, <1>7, <2>1
  <2>3. ReleasesIn(frames, p) = ReleasesIn(frames', p)
    BY <2>2, SameReleases
  <2> QED
    BY <2>3 DEF Releases, ReleasesIn, Frames, FramesIn
<1> QED
  BY <1>5, <1>7, <1>8, <1>9, <1>11, <1>12 DEF Stage, FramesSound

\* Such a step changes at most the C++ memory and the flag that asks for destruction.
LEMMA AdvancedStep ==
  ASSUME IInv, NEW t \in Thread, frames[t] # <<>>, Last(frames[t]).pc # "release",
         NEW pc \in PC \ {"release"}, Continue(t, pc), NEW o, o = Self(t),
         inst' \in [Obj -> Instance \cup {None}],
         cell' \in [Addr -> {"free", "raw", "live"}],
         inst'[o] # None, inst'[o].addr = inst[o].addr,
         inst'[o].type = inst[o].type,
         inst'[o].clear_keep_alive <=> inst[o].clear_keep_alive,
         inst[o].addr # o => inst'[o] = inst[o],
         \A x \in Obj : x # o => inst'[x] = inst[x],
         \A x \in Obj : cell'[x] = "live" => cell[x] = "live",
         UNCHANGED <<rc, inst_c2p, keep_alive, owned, pool, hold, op, failed>>,
         Stages', Flags', Cells'
  PROVE  IInv'
<1>1. /\ o \in Obj /\ Stage(o) = Last(frames[t]).pc /\ Last(frames[t]).pc # "none"
      /\ inst[o] \in Instance /\ inst[o] # None /\ rc[o] = 0
      /\ frames' \in [Thread -> Seq(Frame)] /\ FramesSound'
      /\ \A x \in Obj : x # o => Stage(x)' = Stage(x)
      /\ Stage(o) # "release" /\ Stage(o)' # "release"
      /\ \A p : Releases(p)' = Releases(p)
  <2>1. Last(frames[t]).pc # "none"
    <3>1. frames[t] \in Seq(Frame)
      BY DEF IInv, TypeOK
    <3>2. Last(frames[t]) \in Frame
      BY <3>1, Fronts
    <3> QED
      BY <3>2 DEF Frame
  <2> QED
    BY <2>1, Continued
<1>2. /\ rc' = rc /\ inst_c2p' = inst_c2p /\ keep_alive' = keep_alive /\ owned' = owned
      /\ pool' = pool /\ hold' = hold /\ op' = op /\ failed' = failed
  OBVIOUS
<1>3. /\ inst'[o] # None /\ inst'[o].addr = inst[o].addr
      /\ inst'[o].type = inst[o].type
      /\ inst'[o].clear_keep_alive <=> inst[o].clear_keep_alive
      /\ inst[o].addr # o => inst'[o] = inst[o]
      /\ \A x \in Obj : x # o => inst'[x] = inst[x]
  OBVIOUS
<1>4. /\ \A x \in Obj : /\ inst'[x] # None <=> inst[x] # None
                        /\ inst'[x] # None =>
                             /\ inst'[x].addr = inst[x].addr /\ inst'[x].type = inst[x].type
                             /\ inst'[x].clear_keep_alive <=> inst[x].clear_keep_alive
      /\ \A x \in Obj : Stage(x) # "release" <=> Stage(x)' # "release"
      /\ \A x \in Obj : \A S : Doing(x, S)' <=> Doing(x, S)
      /\ \A s, x \in Obj : Encloses(s, x)' <=> Encloses(s, x)
  BY <1>1, <1>2, <1>3 DEF Doing, Encloses
<1>5. TypeOK'
  BY <1>1, <1>2 DEF IInv, TypeOK
<1>6. Calls'
  <2>1. ASSUME NEW u \in Thread, op[u] # None
        PROVE  CallSound(u)'
    <3>1. CallSound(u) /\ hold[u] \subseteq Obj
      BY <2>1 DEF IInv, Calls, TypeOK
    <3>2. op[u].obj \in Obj /\ rc[op[u].obj] = 1 => inst'[op[u].obj] = inst[op[u].obj]
      BY <1>1, <1>3
    <3>3. op[u].self \in hold[u] /\ inst[op[u].self] # None =>
            /\ inst'[op[u].self] # None
            /\ inst'[op[u].self].addr = inst[op[u].self].addr
            /\ inst'[op[u].self].type = inst[op[u].self].type
      BY <1>4, <3>1
    <3>4. /\ op[u].step \in {"lookup", "new"} /\ op[u].pol = "take_ownership" =>
             \A x \in Obj : inst'[x] # None /\ inst'[x].addr = op[u].addr => rc'[x] = 0
      BY <1>2, <1>4, <3>1 DEF CallSound
    <3> QED
      BY <1>2, <3>1, <3>2, <3>3, <3>4 DEF CallSound
  <2> QED
    BY <1>2, <2>1 DEF Calls
<1>7. Anchored'
  <2>1. \A y \in Obj : inst'[y] # None /\ inst'[y].addr # y => inst'[y] = inst[y]
    BY <1>3, <1>4
  <2> QED
    BY <1>2, <1>4, <2>1 DEF IInv, Anchored
<1>8. Mapped' /\ Nursing'
  BY <1>2, <1>4 DEF IInv, Mapped, Nursing
<1>9. RefsAccounted'
  <2>1. ASSUME NEW p \in Obj
        PROVE  /\ Holders(p)' = Holders(p) /\ Nurses(p)' = Nurses(p)
               /\ Makers(p)' = Makers(p)
    BY <1>2 DEF Holders, Nurses, Makers
  <2> QED
    BY <1>1, <1>2, <2>1 DEF IInv, RefsAccounted
<1>10. Pools'
  <2>1. \A u \in Thread, tq \in Pooled, x \in Obj : Contains(pool[u][tq], x) => x # o
    BY <1>1 DEF IInv, Pools
  <2> QED
    BY <1>1, <1>2, <1>3, <2>1 DEF IInv, Pools
<1> QED
  BY <1>1, <1>2, <1>5, <1>6, <1>7, <1>8, <1>9, <1>10 DEF IInv, NoFailure

LEMMA RecycleStep ==
  ASSUME IInv, NEW t \in Thread, Recycle(t)
  PROVE  IInv'
<1> SUFFICES ASSUME NEW o, o = Self(t)
             PROVE  IInv'
  OBVIOUS
<1>1. /\ frames[t] # <<>> /\ Last(frames[t]).pc = "recycle" /\ Continue(t, "park")
      /\ Destructor(o)
      /\ UNCHANGED <<inst, rc, inst_c2p, keep_alive, owned, pool, hold, op, failed>>
  BY DEF Recycle, In
<1>2. "park" \in PC \ {"release"}
  BY DEF PC
<1>3. /\ o \in Obj /\ Stage(o) = "recycle" /\ Stage(o)' = "park"
      /\ inst[o] \in Instance /\ inst[o] # None /\ rc[o] = 0
      /\ \A x \in Obj : x # o => Stage(x)' = Stage(x)
  BY <1>1, <1>2, Continued
<1>4. inst \in [Obj -> Instance \cup {None}] /\ cell \in [Addr -> {"free", "raw", "live"}]
      /\ owned \subseteq Heap /\ Heap \cap Obj = {}
      /\ (\A x \in Obj : x \in Addr) /\ (\A a \in Heap : a \in Addr)
  BY InstanceMapAssumption DEF IInv, TypeOK, Addr
<1>5. Clean(o) /\ inst[o].addr = o
  BY <1>3 DEF IInv, Stages, Clean, Internal
<1>6. /\ cell' \in [Addr -> {"free", "raw", "live"}] /\ cell'[o] # "live"
      /\ \A a \in Addr : a # o => cell'[a] = cell[a]
  <2>1. ~inst[o].destruct => cell[o] # "live"
    BY <1>3 DEF IInv, Cells
  <2> QED
    BY <1>1, <1>3, <1>4, <1>5, <2>1 DEF Destructor
<1>7. inst' = inst /\ rc' = rc /\ owned' = owned /\ keep_alive' = keep_alive /\ op' = op
  BY <1>1
<1>8. \A x \in Obj : inst[x] # None /\ x # o /\ inst[x].destruct =>
        inst[x].addr # o /\ inst[x].addr \in Addr
  BY <1>3, <1>4 DEF IInv, Flags, Instance
<1>9. Stages'
  <2>1. ASSUME NEW x \in Obj, Stage(x)' = "delete"
        PROVE  inst'[x].cpp_delete /\ cell'[inst'[x].addr] = "raw" /\ inst'[x].addr \notin owned'
    BY <1>3, <1>6, <1>7, <1>8, <2>1 DEF IInv, Stages
  <2>2. ASSUME NEW x \in Obj, Stage(x)' = "park"
        PROVE  cell'[x] # "live"
    BY <1>3, <1>4, <1>6, <2>2 DEF IInv, Stages
  <2>3. \A x \in Obj : Clean(x)' <=> Clean(x)
    BY <1>7 DEF Clean, Internal
  <2> QED
    BY <1>3, <1>5, <1>7, <2>1, <2>2, <2>3 DEF IInv, Stages
<1>10. Flags'
  <2>1. \A x \in Obj : \A S : Doing(x, S)' <=> Doing(x, S)
    BY <1>7 DEF Doing
  <2> QED
    BY <1>7, <2>1 DEF IInv, Flags
<1>11. Cells'
  <2>1. \A x \in Obj : Pending(x)' => x # o /\ Pending(x) /\ inst[x].addr # o /\ inst[x].addr \in Addr
    BY <1>3, <1>7, <1>8 DEF Pending
  <2>2. \A a \in owned' : cell'[a] = "live"
    BY <1>3, <1>4, <1>6, <1>7 DEF IInv, Cells
  <2>3. \A x \in Obj : cell'[x] = "live" =>
          inst'[x] # None /\ inst'[x].addr = x /\ inst'[x].destruct
    BY <1>4, <1>6, <1>7 DEF IInv, Cells
  <2>4. \A x \in Obj : Pending(x)' =>
          inst'[x].addr \notin owned' /\ (Stage(x)' # "delete" => cell'[inst'[x].addr] = "live")
    BY <1>3, <1>6, <1>7, <2>1 DEF IInv, Cells
  <2>5. \A x, y \in Obj : Pending(x)' /\ Pending(y)' /\ inst'[x].addr = inst'[y].addr => x = y
    BY <1>7, <2>1 DEF IInv, Cells
  <2> QED
    BY <2>2, <2>3, <2>4, <2>5 DEF Cells
<1>12. \A x \in Obj : cell'[x] = "live" => cell[x] = "live"
  BY <1>4, <1>6
<1> QED
  BY <1>1, <1>2, <1>3, <1>4, <1>6, <1>7, <1>9, <1>10, <1>11, <1>12, AdvancedStep

LEMMA DestructStep ==
  ASSUME IInv, NEW t \in Thread, Destruct(t)
  PROVE  IInv'
<1> SUFFICES ASSUME NEW o, o = Self(t)
             PROVE  IInv'
  OBVIOUS
<1> DEFINE pc == IF inst[o].cpp_delete THEN "delete" ELSE "unmap"
           a == inst[o].addr
<1>1. /\ frames[t] # <<>> /\ Last(frames[t]).pc = "destruct" /\ Continue(t, pc)
      /\ Destructor(o)
      /\ UNCHANGED <<inst, rc, inst_c2p, keep_alive, owned, pool, hold, op, failed>>
  BY DEF Destruct, In
<1>2. pc \in PC \ {"release"}
  BY DEF PC
<1>3. /\ o \in Obj /\ Stage(o) = "destruct" /\ Stage(o)' = pc
      /\ inst[o] \in Instance /\ inst[o] # None /\ rc[o] = 0
      /\ \A x \in Obj : x # o => Stage(x)' = Stage(x)
  BY <1>1, <1>2, Continued
<1>4. inst \in [Obj -> Instance \cup {None}] /\ cell \in [Addr -> {"free", "raw", "live"}]
      /\ owned \subseteq Heap /\ Heap \cap Obj = {}
      /\ (\A x \in Obj : x \in Addr) /\ (\A b \in Heap : b \in Addr) /\ a \in Addr
  BY <1>3, InstanceMapAssumption DEF IInv, TypeOK, Addr, Instance
<1>5. inst[o].destruct /\ Pending(o)
  BY <1>3 DEF IInv, Stages, Pending
<1>6. a \notin owned /\ \A x \in Obj : Pending(x) /\ x # o => inst[x].addr # a
  BY <1>3, <1>5 DEF IInv, Cells
<1>7. /\ cell' \in [Addr -> {"free", "raw", "live"}] /\ cell'[a] = "raw"
      /\ \A b \in Addr : b # a => cell'[b] = cell[b]
  BY <1>1, <1>4, <1>5 DEF Destructor
<1>8. inst' = inst /\ rc' = rc /\ owned' = owned /\ op' = op
  BY <1>1
<1>9. (pc = "delete" <=> inst[o].cpp_delete) /\ pc \in {"delete", "unmap"}
  OBVIOUS
<1> HIDE DEF a, pc
<1>10. Stages'
  <2>1. ASSUME NEW x \in Obj, Stage(x)' = "delete"
        PROVE  inst'[x].cpp_delete /\ cell'[inst'[x].addr] = "raw" /\ inst'[x].addr \notin owned'
    <3>1. CASE x = o
      BY <1>3, <1>6, <1>7, <1>8, <1>9, <2>1, <3>1 DEF a
    <3>2. CASE x # o
      <4>1. Stage(x) = "delete" /\ inst[x] # None
        BY <1>3, <2>1, <3>2 DEF IInv, Stages
      <4>2. inst[x].addr \in Addr
        BY <1>4, <4>1 DEF Instance
      <4> QED
        BY <1>7, <1>8, <4>1, <4>2 DEF IInv, Stages
    <3> QED
      BY <3>1, <3>2
  <2>2. ASSUME NEW x \in Obj, Stage(x)' = "park"
        PROVE  cell'[x] # "live"
    BY <1>3, <1>4, <1>7, <1>9, <2>2 DEF IInv, Stages
  <2>3. \A x \in Obj : Clean(x)' <=> Clean(x)
    BY <1>8 DEF Clean, Internal
  <2> QED
    BY <1>3, <1>5, <1>8, <1>9, <2>1, <2>2, <2>3 DEF IInv, Stages
<1>11. Flags'
  <2>1. \A x \in Obj : \A S : Doing(x, S)' <=> Doing(x, S)
    BY <1>8 DEF Doing
  <2> QED
    BY <1>8, <2>1 DEF IInv, Flags
<1>12. Cells'
  <2>1. \A x \in Obj : Pending(x)' => Pending(x) /\ (x = o => Stage(x)' = "delete")
    BY <1>3, <1>5, <1>8, <1>9 DEF Pending
  <2>2. \A b \in owned' : cell'[b] = "live"
    BY <1>4, <1>6, <1>7, <1>8 DEF IInv, Cells
  <2>3. \A x \in Obj : cell'[x] = "live" =>
          inst'[x] # None /\ inst'[x].addr = x /\ inst'[x].destruct
    BY <1>4, <1>7, <1>8 DEF IInv, Cells
  <2>4. ASSUME NEW x \in Obj, Pending(x)'
        PROVE  inst'[x].addr \notin owned' /\ (Stage(x)' # "delete" => cell'[inst'[x].addr] = "live")
    <3>1. CASE x = o
      BY <1>6, <1>8, <2>1, <2>4, <3>1 DEF a
    <3>2. CASE x # o
      <4>1. Pending(x) /\ inst[x].addr # a /\ inst[x].addr \in Addr
        BY <1>4, <1>6, <2>1, <2>4, <3>2 DEF Pending, Instance
      <4> QED
        BY <1>3, <1>7, <1>8, <3>2, <4>1 DEF IInv, Cells
    <3> QED
      BY <3>1, <3>2
  <2>5. \A x, y \in Obj : Pending(x)' /\ Pending(y)' /\ inst'[x].addr = inst'[y].addr => x = y
    BY <1>8, <2>1 DEF IInv, Cells
  <2> QED
    BY <2>2, <2>3, <2>4, <2>5 DEF Cells
<1>13. \A x \in Obj : cell'[x] = "live" => cell[x] = "live"
  BY <1>4, <1>7
<1>14. /\ Last(frames[t]).pc # "release" /\ inst' \in [Obj -> Instance \cup {None}]
       /\ inst'[o] = inst[o] /\ inst'[o] # None
  BY <1>1, <1>3, <1>4, <1>8
<1> QED
  BY <1>1, <1>2, <1>7, <1>8, <1>10, <1>11, <1>12, <1>13, <1>14, AdvancedStep

LEMMA OperatorDeleteStep ==
  ASSUME IInv, NEW t \in Thread, OperatorDelete(t)
  PROVE  IInv'
<1> SUFFICES ASSUME NEW o, o = Self(t)
             PROVE  IInv'
  OBVIOUS
<1> DEFINE a == inst[o].addr
<1>1. /\ frames[t] # <<>> /\ Last(frames[t]).pc = "delete" /\ Continue(t, "unmap")
      /\ cell' = [cell EXCEPT ![a] = "free"]
      /\ UNCHANGED <<inst, rc, inst_c2p, keep_alive, owned, pool, hold, op, failed>>
  BY DEF OperatorDelete, In
<1>2. "unmap" \in PC \ {"release"}
  BY DEF PC
<1>3. /\ o \in Obj /\ Stage(o) = "delete" /\ Stage(o)' = "unmap"
      /\ inst[o] \in Instance /\ inst[o] # None /\ rc[o] = 0
      /\ \A x \in Obj : x # o => Stage(x)' = Stage(x)
  BY <1>1, <1>2, Continued
<1>4. inst \in [Obj -> Instance \cup {None}] /\ cell \in [Addr -> {"free", "raw", "live"}]
      /\ owned \subseteq Heap /\ Heap \cap Obj = {}
      /\ (\A x \in Obj : x \in Addr) /\ (\A b \in Heap : b \in Addr) /\ a \in Addr
  BY <1>3, InstanceMapAssumption DEF IInv, TypeOK, Addr, Instance
<1>5. inst[o].destruct /\ Pending(o)
  BY <1>3 DEF IInv, Stages, Pending
<1>6. a \notin owned /\ \A x \in Obj : Pending(x) /\ x # o => inst[x].addr # a
  BY <1>3, <1>5 DEF IInv, Cells
<1> HIDE DEF a
<1>7. /\ cell' \in [Addr -> {"free", "raw", "live"}] /\ cell'[a] = "free"
      /\ \A b \in Addr : b # a => cell'[b] = cell[b]
  BY <1>1, <1>4
<1>8. inst' = inst /\ rc' = rc /\ owned' = owned /\ op' = op
  BY <1>1
<1>9. Stages'
  <2>1. ASSUME NEW x \in Obj, Stage(x)' = "delete"
        PROVE  inst'[x].cpp_delete /\ cell'[inst'[x].addr] = "raw" /\ inst'[x].addr \notin owned'
    <3>1. x # o /\ Stage(x) = "delete"
      BY <1>3, <2>1
    <3>2. inst[x] # None /\ inst[x].destruct /\ Pending(x)
      BY <3>1 DEF IInv, Stages, Pending
    <3>3. inst[x].addr \in Addr /\ inst[x].addr # a
      BY <1>4, <1>6, <3>1, <3>2 DEF Instance
    <3> QED
      BY <1>7, <1>8, <3>1, <3>3 DEF IInv, Stages
  <2>2. ASSUME NEW x \in Obj, Stage(x)' = "park"
        PROVE  cell'[x] # "live"
    BY <1>3, <1>4, <1>7, <2>2 DEF IInv, Stages
  <2>3. \A x \in Obj : Clean(x)' <=> Clean(x)
    BY <1>8 DEF Clean, Internal
  <2> QED
    BY <1>3, <1>8, <2>1, <2>2, <2>3 DEF IInv, Stages
<1>10. Flags'
  <2>1. \A x \in Obj : \A S : Doing(x, S)' <=> Doing(x, S)
    BY <1>8 DEF Doing
  <2> QED
    BY <1>8, <2>1 DEF IInv, Flags
<1>11. Cells'
  <2>1. \A x \in Obj : Pending(x)' => Pending(x) /\ x # o /\ inst[x].addr # a
                                    /\ inst[x].addr \in Addr
    BY <1>3, <1>4, <1>6, <1>8 DEF Pending, Instance
  <2>2. \A b \in owned' : cell'[b] = "live"
    BY <1>4, <1>6, <1>7, <1>8 DEF IInv, Cells
  <2>3. \A x \in Obj : cell'[x] = "live" =>
          inst'[x] # None /\ inst'[x].addr = x /\ inst'[x].destruct
    BY <1>4, <1>7, <1>8 DEF IInv, Cells
  <2>4. \A x \in Obj : Pending(x)' =>
          inst'[x].addr \notin owned' /\ (Stage(x)' # "delete" => cell'[inst'[x].addr] = "live")
    BY <1>3, <1>7, <1>8, <2>1 DEF IInv, Cells
  <2>5. \A x, y \in Obj : Pending(x)' /\ Pending(y)' /\ inst'[x].addr = inst'[y].addr => x = y
    BY <1>8, <2>1 DEF IInv, Cells
  <2> QED
    BY <2>2, <2>3, <2>4, <2>5 DEF Cells
<1>12. \A x \in Obj : cell'[x] = "live" => cell[x] = "live"
  BY <1>4, <1>7
<1>13. /\ Last(frames[t]).pc # "release" /\ inst' \in [Obj -> Instance \cup {None}]
       /\ inst'[o] = inst[o] /\ inst'[o] # None
  BY <1>1, <1>3, <1>4, <1>8
<1> QED
  BY <1>1, <1>2, <1>7, <1>8, <1>9, <1>10, <1>11, <1>12, <1>13, AdvancedStep

\* The innermost frame is left; it has released its patients.
LEMMA Finished ==
  ASSUME IInv, NEW t \in Thread, frames[t] # <<>>, Last(frames[t]).patients = <<>>,
         frames' = [frames EXCEPT ![t] = Front(@)], NEW o, o = Self(t)
  PROVE  /\ o \in Obj /\ Stage(o) = Last(frames[t]).pc
         /\ inst[o] \in Instance /\ inst[o] # None /\ rc[o] = 0
         /\ frames' \in [Thread -> Seq(Frame)] /\ FramesSound'
         /\ Stage(o)' = "none"
         /\ \A x \in Obj : x # o => Stage(x)' = Stage(x)
         /\ \A p : Releases(p)' = Releases(p)
<1> DEFINE l == Last(frames[t])
<1>1. frames \in [Thread -> Seq(Frame)] /\ DistinctIn(frames) /\ PatientsIn(frames)
      /\ frames[t] \in Seq(Frame)
  BY DEF IInv, TypeOK, FramesSound
<1>2. /\ frames' \in [Thread -> Seq(Frame)] /\ frames'[t] = Front(frames[t])
      /\ \A u \in Thread : u # t => frames'[u] = frames[u]
  BY <1>1, Fronts
<1>3. /\ DistinctIn(frames')
      /\ l \in FramesIn(frames, t) /\ l \in Frame
      /\ \A u \in Thread : u # t => FramesIn(frames', u) = FramesIn(frames, u)
      /\ \A f : f \in FramesIn(frames', t) <=> f \in FramesIn(frames, t) /\ f # l
      /\ StageIn(frames', o) = "none"
      /\ \A x \in Obj : x # o => StageIn(frames', x) = StageIn(frames, x)
  <2> DEFINE G == frames'
  <2>1. Pop(frames, G, t)
    BY <1>1, <1>2 DEF Pop
  <2> HIDE DEF G
  <2>2. /\ DistinctIn(G)
        /\ l \in FramesIn(frames, t) /\ l \in Frame
        /\ \A u \in Thread : u # t => FramesIn(G, u) = FramesIn(frames, u)
        /\ \A f : f \in FramesIn(G, t) <=> f \in FramesIn(frames, t) /\ f # l
        /\ StageIn(G, l.obj) = "none"
        /\ \A x \in Obj : x # l.obj => StageIn(G, x) = StageIn(frames, x)
    BY <2>1, Popped
  <2>3. o = l.obj
    BY DEF Self
  <2> QED
    BY <2>2, <2>3 DEF G
<1>4. PatientsIn(frames')
  BY <1>1, <1>3 DEF PatientsIn
<1>5. Stage(o) = l.pc /\ o \in Obj /\ l.pc # "none"
  <2>1. o \in Obj /\ l.pc # "none"
    BY <1>3 DEF Self, Frame
  <2> QED
    BY <1>1, <1>3, <2>1, StageMeaning DEF Stage, Self
<1>6. inst[o] # None /\ rc[o] = 0 /\ inst[o] \in Instance
  BY <1>5 DEF IInv, Stages, TypeOK
<1>7. ASSUME NEW p
      PROVE  Releases(p)' = Releases(p)
  <2>1. ~Contains(<<>>, p)
    BY DEF Contains
  <2>2. \A u \in Thread : \A f : Contains(f.patients, p) =>
          (f \in FramesIn(frames, u) <=> f \in FramesIn(frames', u))
    BY <1>3, <2>1
  <2>3. ReleasesIn(frames, p) = ReleasesIn(frames', p)
    BY <2>2, SameReleases
  <2> QED
    BY <2>3 DEF Releases, ReleasesIn, Frames, FramesIn
<1> QED
  BY <1>2, <1>3, <1>4, <1>5, <1>6, <1>7 DEF Stage, FramesSound

LEMMA ParkStep ==
  ASSUME IInv, NEW t \in Thread, Park(t)
  PROVE  IInv'
<1> SUFFICES ASSUME NEW o, o = Self(t)
             PROVE  IInv'
  OBVIOUS
<1> DEFINE tp == inst[o].type
           s == pool[t][tp]
<1>1. /\ frames[t] # <<>> /\ Last(frames[t]).pc = "park"
      /\ rc' = rc /\ inst_c2p' = inst_c2p /\ keep_alive' = keep_alive /\ cell' = cell
      /\ owned' = owned /\ hold' = hold /\ op' = op /\ failed' = failed
  BY DEF Park, In
<1>2. /\ inst \in [Obj -> Instance \cup {None}] /\ cell \in [Addr -> {"free", "raw", "live"}]
      /\ pool \in [Thread -> [Pooled -> Seq(Obj)]] /\ Heap \cap Obj = {}
  BY InstanceMapAssumption DEF IInv, TypeOK
<1>3. CASE Len(s) < PoolCap
  <2>1. /\ pool' = [pool EXCEPT ![t][tp] = Append(@, o)]
        /\ frames' = [frames EXCEPT ![t] = Front(@)] /\ inst' = inst
    BY <1>3 DEF Park
  <2>2. Last(frames[t]).patients = <<>>
    <3>1. frames[t] \in Seq(Frame)
      BY DEF IInv, TypeOK
    <3>2. Len(frames[t]) \in DOMAIN frames[t]
      BY <1>1, <3>1
    <3>3. Last(frames[t]) \in FramesIn(frames, t)
      BY <3>2 DEF FramesIn, Last
    <3> QED
      BY <1>1, <3>3 DEF IInv, FramesSound, PatientsIn
  <2>3. /\ o \in Obj /\ Stage(o) = "park" /\ inst[o] # None /\ rc[o] = 0
        /\ frames' \in [Thread -> Seq(Frame)] /\ FramesSound'
        /\ Stage(o)' = "none" /\ \A x \in Obj : x # o => Stage(x)' = Stage(x)
        /\ \A p : Releases(p)' = Releases(p)
    BY <1>1, <2>1, <2>2, Finished
  <2>4. tp \in Pooled /\ inst[o].addr = o /\ ~inst[o].clear_keep_alive /\ cell[o] # "live"
    BY <2>3 DEF IInv, Stages, Clean, Internal
  <2>5. \A u \in Thread, tq \in Pooled : ~Contains(pool[u][tq], o)
    BY <2>3 DEF IInv, Pools
  <2> HIDE DEF tp
  <2>6. /\ Append(s, o) \in Seq(Obj) /\ IsInjective(Append(s, o)) /\ Len(Append(s, o)) <= PoolCap
        /\ \A y : Contains(Append(s, o), y) <=> Contains(s, y) \/ y = o
    <3>1. s \in Seq(Obj) /\ IsInjective(s) /\ ~Contains(s, o)
      BY <1>2, <2>4, <2>5 DEF IInv, Pools
    <3>2. PoolCap \in Nat
      BY InstanceMapAssumption
    <3> HIDE DEF s
    <3>3. Len(Append(s, o)) <= PoolCap
      BY <1>3, <2>3, <3>1, <3>2
    <3> QED
      BY <2>3, <3>1, <3>3, Appended
  <2>7. /\ pool' \in [Thread -> [Pooled -> Seq(Obj)]] /\ pool'[t][tp] = Append(s, o)
        /\ \A u \in Thread, tq \in Pooled : u # t \/ tq # tp => pool'[u][tq] = pool[u][tq]
    BY <1>2, <2>1, <2>4, <2>6
  <2> HIDE DEF s
  <2>8. Pools'
    <3>1. ASSUME NEW u \in Thread, NEW tq \in Pooled
          PROVE  /\ Len(pool'[u][tq]) <= PoolCap /\ IsInjective(pool'[u][tq])
                 /\ \A y : Contains(pool'[u][tq], y) <=>
                      Contains(pool[u][tq], y) \/ (y = o /\ u = t /\ tq = tp)
      <4>1. CASE u = t /\ tq = tp
        BY <2>6, <2>7, <4>1 DEF s
      <4>2. CASE u # t \/ tq # tp
        BY <2>7, <4>2 DEF IInv, Pools
      <4> QED
        BY <4>1, <4>2
    <3>2. ASSUME NEW u \in Thread, NEW tq \in Pooled, NEW y \in Obj, Contains(pool'[u][tq], y)
          PROVE  /\ inst'[y] # None /\ rc'[y] = 0 /\ inst'[y].addr = y /\ cell'[y] # "live"
                 /\ ~inst'[y].clear_keep_alive /\ Stage(y)' = "none"
                 /\ \A v \in Thread, tr \in Pooled :
                      Contains(pool'[v][tr], y) => v = u /\ tr = tq
      <4>1. CASE y = o
        BY <1>1, <2>1, <2>3, <2>4, <2>5, <3>1, <3>2, <4>1
      <4>2. CASE y # o
        <5>1. /\ Contains(pool[u][tq], y)
              /\ \A v \in Thread, tr \in Pooled :
                   Contains(pool'[v][tr], y) => Contains(pool[v][tr], y)
          BY <3>1, <3>2, <4>2
        <5> QED
          BY <1>1, <2>1, <2>3, <4>2, <5>1 DEF IInv, Pools
      <4> QED
        BY <4>1, <4>2
    <3> QED
      BY <3>1, <3>2 DEF Pools
  <2>9. /\ \A x \in Obj : \A S : Doing(x, S)' <=> Doing(x, S)
        /\ \A q, x \in Obj : Encloses(q, x)' <=> Encloses(q, x)
        /\ \A x \in Obj : Pending(x)' <=> Pending(x)
        /\ \A x \in Obj : Clean(x)' <=> Clean(x)
        /\ \A x \in Obj : Stage(x)' # "release" <=> Stage(x) # "release"
    BY <1>1, <2>1, <2>3 DEF Doing, Encloses, Pending, Clean, Internal
  <2>10. TypeOK'
    BY <1>1, <2>1, <2>3, <2>7 DEF IInv, TypeOK
  <2>11. Stages'
    BY <1>1, <2>1, <2>3, <2>9 DEF IInv, Stages
  <2>12. Calls'
    BY <1>1, <2>1 DEF IInv, Calls, CallSound
  <2>13. Flags' /\ Anchored' /\ Mapped' /\ Nursing'
    BY <1>1, <2>1, <2>9 DEF IInv, Flags, Anchored, Mapped, Nursing
  <2>14. Cells'
    <3>1. \A x \in Obj : Pending(x) /\ Stage(x)' # "delete" => Stage(x) # "delete"
      BY <2>3
    <3> QED
      BY <1>1, <2>1, <2>9, <3>1 DEF IInv, Cells
  <2>15. RefsAccounted'
    <3>1. ASSUME NEW p \in Obj
          PROVE  /\ Holders(p)' = Holders(p) /\ Nurses(p)' = Nurses(p)
                 /\ Makers(p)' = Makers(p)
      BY <1>1 DEF Holders, Nurses, Makers
    <3> QED
      BY <1>1, <2>3, <3>1 DEF IInv, RefsAccounted
  <2> QED
    BY <1>1, <2>3, <2>8, <2>10, <2>11, <2>12, <2>13, <2>14, <2>15 DEF IInv, NoFailure
<1>4. CASE ~(Len(s) < PoolCap)
  <2>1. /\ inst' = [inst EXCEPT ![o].destruct = FALSE] /\ Continue(t, "unmap") /\ pool' = pool
    BY <1>4 DEF Park
  <2>2. "unmap" \in PC \ {"release"}
    BY DEF PC
  <2>3. /\ o \in Obj /\ Stage(o) = "park" /\ Stage(o)' = "unmap"
        /\ inst[o] \in Instance /\ inst[o] # None /\ rc[o] = 0
        /\ \A x \in Obj : x # o => Stage(x)' = Stage(x)
    BY <1>1, <2>1, <2>2, Continued
  <2>4. inst[o].addr = o /\ ~inst[o].cpp_delete /\ cell[o] # "live"
    BY <1>2, <2>3 DEF IInv, Stages, Clean, Internal, Flags
  <2>5. /\ inst' \in [Obj -> Instance \cup {None}] /\ inst'[o] # None
        /\ inst'[o].addr = o /\ inst'[o].type = inst[o].type
        /\ inst'[o].clear_keep_alive <=> inst[o].clear_keep_alive
        /\ ~inst'[o].destruct /\ ~inst'[o].cpp_delete
        /\ \A x \in Obj : x # o => inst'[x] = inst[x]
    <3>1. inst'[o] = [inst[o] EXCEPT !.destruct = FALSE]
          /\ \A x \in Obj : x # o => inst'[x] = inst[x]
      BY <1>2, <2>1, <2>3
    <3>2. \A i \in Instance : LET j == [i EXCEPT !.destruct = FALSE] IN
            /\ j \in Instance /\ ~j.destruct /\ j.addr = i.addr /\ j.type = i.type
            /\ j.clear_keep_alive = i.clear_keep_alive /\ j.cpp_delete = i.cpp_delete
      BY DEF Instance
    <3>3. None \notin Instance
      BY InstanceMapAssumption
    <3> QED
      BY <1>2, <2>1, <2>3, <2>4, <3>1, <3>2, <3>3
  <2>6. /\ \A x \in Obj : x # o /\ Clean(x) => Clean(x)'
        /\ \A x \in Obj : \A S : Doing(x, S)' <=> Doing(x, S)
        /\ \A x \in Obj : Pending(x)' => Pending(x) /\ x # o
    BY <1>1, <2>3, <2>5 DEF Clean, Internal, Doing, Pending
  <2>7. Stages'
    <3>1. ASSUME NEW x \in Obj, x # o
          PROVE  /\ inst'[x] = None => rc'[x] = 0
                 /\ Stage(x)' # "none" => inst'[x] # None /\ rc'[x] = 0
                 /\ Stage(x)' \in {"recycle", "park"} => Clean(x)'
                 /\ Stage(x)' \in {"destruct", "delete"} => inst'[x].destruct
                 /\ Stage(x)' = "delete" =>
                      inst'[x].cpp_delete /\ cell'[inst'[x].addr] = "raw"
                      /\ inst'[x].addr \notin owned'
                 /\ Stage(x)' = "park" => cell'[x] # "live"
      BY <1>1, <2>3, <2>5, <2>6, <3>1 DEF IInv, Stages
    <3> QED
      BY <1>1, <2>3, <2>5, <3>1 DEF Stages
  <2>8. Flags'
    <3>1. rc'[o] = 0 /\ \A x \in Obj : x # o => inst'[x] = inst[x]
      BY <1>1, <2>3, <2>5
    <3> QED
      BY <1>1, <2>5, <2>6, <3>1 DEF IInv, Flags
  <2>9. Cells'
    <3>1. \A x \in Obj : x # o => inst'[x] = inst[x] /\ Stage(x)' = Stage(x)
      BY <2>3, <2>5
    <3> QED
      BY <1>1, <2>4, <2>6, <3>1 DEF IInv, Cells
  <2>10. /\ UNCHANGED <<rc, inst_c2p, keep_alive, owned, pool, hold, op, failed>>
         /\ cell' \in [Addr -> {"free", "raw", "live"}]
         /\ \A x \in Obj : cell'[x] = "live" => cell[x] = "live"
         /\ Last(frames[t]).pc # "release"
         /\ inst'[o].addr = inst[o].addr
    BY <1>1, <1>2, <2>1, <2>4, <2>5
  <2>11. /\ inst[o].addr # o => inst'[o] = inst[o]
         /\ frames[t] # <<>> /\ Continue(t, "unmap")
    BY <1>1, <2>1, <2>4
  <2> HIDE DEF tp, s
  <2> QED
    BY <2>2, <2>5, <2>7, <2>8, <2>9, <2>10, <2>11, AdvancedStep
<1> QED
  BY <1>3, <1>4

\* A wrapper nobody refers to leaves the registry: its patients, which it kept, are
\* counted for its frame from here on.
LEMMA UnmapStep ==
  ASSUME IInv, NEW t \in Thread, Unmap(t)
  PROVE  IInv'
<1> SUFFICES ASSUME NEW o, o = Self(t)
             PROVE  IInv'
  OBVIOUS
<1> DEFINE l == Last(frames[t])
           a == inst[o].addr
           s == keep_alive[o]
           g == [obj |-> o, pc |-> "release", patients |-> s]
<1>1. /\ frames[t] # <<>> /\ l.pc = "unmap"
      /\ inst' = inst /\ rc' = rc /\ cell' = cell /\ owned' = owned /\ pool' = pool
      /\ hold' = hold /\ op' = op
  BY DEF Unmap, In
<1>2. /\ frames \in [Thread -> Seq(Frame)] /\ DistinctIn(frames) /\ PatientsIn(frames)
      /\ frames[t] \in Seq(Frame) /\ inst_c2p \in [Addr -> Seq(Obj)]
      /\ keep_alive \in [Obj -> Seq(Obj)]
  BY DEF IInv, TypeOK, FramesSound
<1>3. l \in Frame /\ l \in FramesIn(frames, t) /\ l.patients = <<>>
  <2>1. Len(frames[t]) \in DOMAIN frames[t] /\ l \in Frame
    BY <1>1, <1>2, Fronts DEF Last
  <2>2. l \in FramesIn(frames, t)
    BY <2>1 DEF FramesIn, Last
  <2> QED
    BY <1>1, <1>2, <2>1, <2>2 DEF PatientsIn
<1>4. o \in Obj /\ o = l.obj /\ Stage(o) = "unmap"
  <2>1. o \in Obj /\ o = l.obj
    BY <1>3 DEF Self, Frame
  <2> QED
    BY <1>1, <1>2, <1>3, <2>1, StageMeaning DEF Stage
<1>5. inst[o] # None /\ inst[o] \in Instance /\ rc[o] = 0 /\ a \in Addr /\ s \in Seq(Obj)
      /\ IsInjective(s)
  BY <1>2, <1>4 DEF IInv, Stages, TypeOK, Instance, Nursing
<1>6. ~Doing(o, {"keep_alive", "register"})
  BY <1>4, <1>5, Unreferenced DEF Doing
<1>7. Contains(inst_c2p[a], o)
  BY <1>4, <1>5, <1>6 DEF IInv, Mapped
<1>8. inst[o].clear_keep_alive <=> s # <<>>
  BY <1>4, <1>5 DEF IInv, Nursing
<1>9. /\ inst_c2p' = [inst_c2p EXCEPT ![a] = RemoveFirst(@, o)]
      /\ keep_alive' = IF s # <<>> THEN [keep_alive EXCEPT ![o] = <<>>] ELSE keep_alive
      /\ frames' = [frames EXCEPT ![t] = Front(@) \o <<g>>]
      /\ failed' = failed
  BY <1>7, <1>8 DEF Unmap
<1>10. /\ keep_alive' \in [Obj -> Seq(Obj)] /\ keep_alive'[o] = <<>>
       /\ \A x \in Obj : x # o => keep_alive'[x] = keep_alive[x]
  BY <1>2, <1>4, <1>9
<1> HIDE DEF a, s
<1>11. /\ inst_c2p' \in [Addr -> Seq(Obj)]
       /\ \A b \in Addr : /\ IsInjective(inst_c2p'[b])
                          /\ \A y : Contains(inst_c2p'[b], y) <=>
                               Contains(inst_c2p[b], y) /\ ~(b = a /\ y = o)
  <2>1. inst_c2p[a] \in Seq(Obj) /\ \A b \in Addr : IsInjective(inst_c2p[b])
    BY <1>2, <1>5 DEF IInv, Mapped
  <2>2. /\ RemoveFirst(inst_c2p[a], o) \in Seq(Obj) /\ IsInjective(RemoveFirst(inst_c2p[a], o))
        /\ \A y : Contains(RemoveFirst(inst_c2p[a], o), y) <=> Contains(inst_c2p[a], y) /\ y # o
    <3> DEFINE q == inst_c2p[a]
    <3>1. q \in Seq(Obj) /\ IsInjective(q)
      BY <1>5, <2>1
    <3> HIDE DEF q
    <3>2. /\ RemoveFirst(q, o) \in Seq(Obj) /\ IsInjective(RemoveFirst(q, o))
          /\ \A y : Contains(RemoveFirst(q, o), y) <=> Contains(q, y) /\ y # o
      BY <3>1, Removed
    <3> QED
      BY <3>2 DEF q
  <2>3. /\ inst_c2p' \in [Addr -> Seq(Obj)] /\ inst_c2p'[a] = RemoveFirst(inst_c2p[a], o)
        /\ \A b \in Addr : b # a => inst_c2p'[b] = inst_c2p[b]
    BY <1>2, <1>5, <1>9, <2>2
  <2> QED
    BY <2>1, <2>2, <2>3
<1>12. g \in Frame /\ g.obj = o /\ g.pc = "release" /\ g.patients = s
  BY <1>4, <1>5 DEF Frame
<1> HIDE DEF g
<1>13. Move(frames, frames', t, g)
  <2>1. Front(frames[t]) \o <<g>> \in Seq(Frame)
    BY <1>1, <1>2, <1>12, Fronts
  <2> QED
    BY <1>1, <1>2, <1>4, <1>9, <1>12, <2>1 DEF Move
<1>14. /\ DistinctIn(frames') /\ frames' \in [Thread -> Seq(Frame)]
       /\ \A u \in Thread : u # t => FramesIn(frames', u) = FramesIn(frames, u)
       /\ \A f : f \in FramesIn(frames', t) <=> (f \in FramesIn(frames, t) /\ f # l) \/ f = g
       /\ Stage(o)' = "release"
       /\ \A x \in Obj : x # o => Stage(x)' = Stage(x)
  <2> DEFINE G == frames'
  <2>1. Move(frames, G, t, g)
    BY <1>13
  <2> HIDE DEF G
  <2>2. /\ DistinctIn(G)
        /\ \A u \in Thread : u # t => FramesIn(G, u) = FramesIn(frames, u)
        /\ \A f : f \in FramesIn(G, t) <=> (f \in FramesIn(frames, t) /\ f # l) \/ f = g
        /\ StageIn(G, g.obj) = g.pc
        /\ \A x \in Obj : x # g.obj => StageIn(G, x) = StageIn(frames, x)
    BY <2>1, Moved
  <2>3. G \in [Thread -> Seq(Frame)]
    BY <2>1 DEF Move
  <2> QED
    BY <1>12, <2>2, <2>3 DEF G, Stage
<1>15. FramesSound'
  <2>1. PatientsIn(frames')
    BY <1>2, <1>5, <1>12, <1>14 DEF PatientsIn
  <2> QED
    BY <1>14, <2>1 DEF FramesSound
<1>16. TypeOK'
  BY <1>1, <1>9, <1>10, <1>11, <1>14 DEF IInv, TypeOK
<1>17. /\ \A x \in Obj : \A S : Doing(x, S)' <=> Doing(x, S)
       /\ \A q, x \in Obj : Encloses(q, x)' <=> Encloses(q, x)
       /\ \A x \in Obj : Pending(x)' <=> Pending(x)
       /\ \A x \in Obj : Clean(x)' <=> Clean(x)
  BY <1>1, <1>4, <1>14 DEF Doing, Encloses, Pending, Clean, Internal
<1>18. Stages'
  BY <1>1, <1>4, <1>5, <1>14, <1>17 DEF IInv, Stages
<1>19. Calls'
  BY <1>1 DEF IInv, Calls, CallSound
<1>20. Flags'
  BY <1>1, <1>17 DEF IInv, Flags
<1>21. Cells'
  <2>1. \A x \in Obj : Stage(x)' = "delete" <=> Stage(x) = "delete"
    BY <1>4, <1>14
  <2> QED
    BY <1>1, <1>17, <2>1 DEF IInv, Cells
<1>22. Anchored'
  <2>1. \A x \in Obj : Stage(x)' # "release" => x # o /\ Stage(x) # "release"
    BY <1>14
  <2> QED
    BY <1>1, <1>10, <1>17, <2>1 DEF IInv, Anchored
<1>23. Mapped'
  <2>1. \A b \in Addr, x \in Obj :
          Contains(inst_c2p[b], x) <=>
            /\ inst[x] # None /\ inst[x].addr = b
            /\ ~Doing(x, {"keep_alive", "register"}) /\ Stage(x) # "release"
    BY DEF IInv, Mapped
  <2>2. ASSUME NEW b \in Addr, NEW x \in Obj
        PROVE  Contains(inst_c2p'[b], x) <=>
                 /\ inst'[x] # None /\ inst'[x].addr = b
                 /\ ~Doing(x, {"keep_alive", "register"})' /\ Stage(x)' # "release"
    <3>1. CASE x = o
      BY <1>11, <1>14, <2>1, <3>1 DEF a
    <3>2. CASE x # o
      BY <1>1, <1>11, <1>14, <1>17, <2>1, <3>2
    <3> QED
      BY <3>1, <3>2
  <2> QED
    BY <1>11, <2>2 DEF Mapped
<1>24. Nursing'
  <2>1. IsInjective(<<>>)
    BY DEF IsInjective
  <2> QED
    BY <1>1, <1>10, <1>14, <2>1 DEF IInv, Nursing
<1>25. RefsAccounted'
  <2>1. ASSUME NEW p \in Obj
        PROVE  rc'[p] = Cardinality(Holders(p)') + Cardinality(Nurses(p)')
                      + Cardinality(Makers(p)') + Cardinality(Releases(p)')
    <3>1. Holders(p)' = Holders(p) /\ Makers(p)' = Makers(p)
      BY <1>1 DEF Holders, Makers
    <3>2. rc[p] = Cardinality(Holders(p)) + Cardinality(Nurses(p))
                + Cardinality(Makers(p)) + Cardinality(Releases(p))
      BY DEF IInv, RefsAccounted
    <3>3. /\ Cardinality(Holders(p)) \in Nat /\ Cardinality(Nurses(p)) \in Nat
          /\ Cardinality(Makers(p)) \in Nat /\ Cardinality(Releases(p)) \in Nat
      BY FiniteCounts, Counted
    <3>4. ~Contains(<<>>, p)
      BY DEF Contains
    <3>5. /\ Releases(p) = ReleasesIn(frames, p) /\ Releases(p)' = ReleasesIn(frames', p)
      BY DEF Releases, ReleasesIn, Frames, FramesIn
    <3>6. CASE ~Contains(s, p)
      <4>1. Nurses(p)' = Nurses(p)
        BY <1>4, <1>10, <3>4, <3>6 DEF Nurses, s
      <4>2. \A u \in Thread : \A f : Contains(f.patients, p) =>
              (f \in FramesIn(frames, u) <=> f \in FramesIn(frames', u))
        BY <1>3, <1>12, <1>14, <3>4, <3>6
      <4>3. Releases(p)' = Releases(p)
        BY <3>5, <4>2, SameReleases
      <4> QED
        BY <1>1, <3>1, <3>2, <4>1, <4>3
    <3>7. CASE Contains(s, p)
      <4>1. o \notin Nurses(p)' /\ \A n : n \in Nurses(p) <=> n \in Nurses(p)' \/ n = o
        BY <1>4, <1>10, <3>4, <3>7 DEF Nurses, s
      <4>2. Nurses(p)' \subseteq Nurses(p)
        BY <4>1
      <4>3. IsFiniteSet(Nurses(p)')
        BY <4>2, FiniteCounts, FS_Subset
      <4>4. Cardinality(Nurses(p)') \in Nat
            /\ Cardinality(Nurses(p)) = Cardinality(Nurses(p)') + 1
        BY <4>1, <4>3, OneMore, Counted
      <4>5. <<t, o>> \notin ReleasesIn(frames, p)
        <5>1. \A f \in FramesIn(frames, t) : f.obj = o => f = l
          <6>1. PICK i \in DOMAIN frames[t] : frames[t][i] = l
            BY <1>3 DEF FramesIn
          <6>2. ASSUME NEW f \in FramesIn(frames, t), f.obj = o
                PROVE  f = l
            <7>1. PICK j \in DOMAIN frames[t] : frames[t][j] = f
              BY DEF FramesIn
            <7>2. i = j
              BY <1>2, <1>4, <6>1, <6>2, <7>1 DEF DistinctIn
            <7> QED
              BY <6>1, <7>1, <7>2
          <6> QED
            BY <6>2
        <5> QED
          BY <1>3, <3>4, <5>1 DEF ReleasesIn
      <4>6. \A r : r \in ReleasesIn(frames', p) <=> r \in ReleasesIn(frames, p) \/ r = <<t, o>>
        <5>1. ASSUME NEW u \in Thread, NEW n \in Obj
              PROVE  (\E f \in FramesIn(frames', u) : f.obj = n /\ Contains(f.patients, p))
                     <=> (\E f \in FramesIn(frames, u) : f.obj = n /\ Contains(f.patients, p))
                         \/ (u = t /\ n = o)
          BY <1>3, <1>12, <1>14, <3>4, <3>7
        <5>2. \A u \in Thread, n \in Obj :
                <<u, n>> \in ReleasesIn(frames', p) <=>
                  <<u, n>> \in ReleasesIn(frames, p) \/ (u = t /\ n = o)
          BY <5>1 DEF ReleasesIn
        <5>3. /\ ReleasesIn(frames', p) \subseteq Thread \X Obj
              /\ ReleasesIn(frames, p) \subseteq Thread \X Obj
              /\ <<t, o>> \in Thread \X Obj
          BY <1>4 DEF ReleasesIn
        <5> QED
          BY <5>2, <5>3
      <4>7. Cardinality(Releases(p)') = Cardinality(Releases(p)) + 1
        <5>1. IsFiniteSet(ReleasesIn(frames, p))
          BY <3>5, FiniteCounts
        <5>2. Cardinality(ReleasesIn(frames', p)) = Cardinality(ReleasesIn(frames, p)) + 1
          BY <4>5, <4>6, <5>1, OneMore
        <5> QED
          BY <3>5, <5>2
      <4> QED
        BY <1>1, <3>1, <3>2, <3>3, <4>4, <4>7
    <3> QED
      BY <3>6, <3>7
  <2> QED
    BY <2>1 DEF RefsAccounted
<1>26. Pools'
  <2>1. \A x \in Obj : Stage(x) = "none" => Stage(x)' = "none"
    BY <1>4, <1>14
  <2> QED
    BY <1>1, <2>1 DEF IInv, Pools
<1> QED
  BY <1>9, <1>15, <1>16, <1>18, <1>19, <1>20, <1>21, <1>22, <1>23, <1>24, <1>25, <1>26
  DEF IInv, NoFailure

\* A slot that nothing refers to is released: by the last step of inst_dealloc or
\* from a pool.
LEMMA FreedStep ==
  ASSUME IInv, NEW o \in Obj, inst[o] # None, rc[o] = 0, keep_alive[o] = <<>>,
         Stage(o) \in {"none", "release"},
         inst' = [inst EXCEPT ![o] = None],
         cell' = IF inst[o].addr = o THEN [cell EXCEPT ![o] = "free"] ELSE cell,
         frames' \in [Thread -> Seq(Frame)], FramesSound', Stage(o)' = "none",
         \A x \in Obj : x # o => Stage(x)' = Stage(x),
         \A p : Releases(p)' = Releases(p),
         inst_c2p' \in [Addr -> Seq(Obj)],
         pool' \in [Thread -> [Pooled -> Seq(Obj)]],
         UNCHANGED <<rc, keep_alive, owned, hold, op, failed>>,
         Mapped', Pools'
  PROVE  IInv'
<1>1. /\ inst \in [Obj -> Instance \cup {None}] /\ cell \in [Addr -> {"free", "raw", "live"}]
      /\ owned \subseteq Heap /\ Heap \cap Obj = {} /\ hold \in [Thread -> SUBSET Obj]
      /\ (\A x \in Obj : x \in Addr) /\ (\A b \in Heap : b \in Addr)
  BY InstanceMapAssumption DEF IInv, TypeOK, Addr
<1>2. /\ rc' = rc /\ keep_alive' = keep_alive /\ owned' = owned /\ hold' = hold
      /\ op' = op /\ failed' = failed
  OBVIOUS
<1>3. /\ inst' \in [Obj -> Instance \cup {None}] /\ inst'[o] = None
      /\ \A x \in Obj : x # o => inst'[x] = inst[x]
      /\ cell' \in [Addr -> {"free", "raw", "live"}]
      /\ cell'[o] # "live" /\ \A b \in Addr : b # o => cell'[b] = cell[b]
  <2>1. inst[o].addr # o => cell[o] # "live"
    BY DEF IInv, Cells
  <2> QED
    BY <1>1, <2>1
<1>4. /\ \A t \in Thread : o \notin hold[t]
      /\ \A n \in Obj : ~Contains(keep_alive[n], o)
      /\ \A t \in Thread : op[t] # None => op[t].obj # o
  BY Unreferenced
<1>5. /\ \A x \in Obj : inst[x] # None /\ x # o /\ inst[x].destruct =>
           inst[x].addr # o /\ inst[x].addr \in Addr
      /\ \A x \in Obj : \A S : Doing(x, S)' <=> Doing(x, S)
  BY <1>1, <1>2 DEF IInv, Flags, Instance, Doing
<1>6. TypeOK'
  BY <1>2, <1>3 DEF IInv, TypeOK
<1>7. Stages'
  <2>1. ASSUME NEW x \in Obj, x # o
        PROVE  /\ inst'[x] = None => rc'[x] = 0
               /\ Stage(x)' # "none" => inst'[x] # None /\ rc'[x] = 0
               /\ Stage(x)' \in {"recycle", "park"} => Clean(x)'
               /\ Stage(x)' \in {"destruct", "delete"} => inst'[x].destruct
               /\ Stage(x)' = "park" => cell'[x] # "live"
    <3>1. Clean(x)' <=> Clean(x)
      BY <1>3, <2>1 DEF Clean, Internal
    <3> QED
      BY <1>1, <1>2, <1>3, <2>1, <3>1 DEF IInv, Stages
  <2>2. ASSUME NEW x \in Obj, x # o, Stage(x)' = "delete"
        PROVE  inst'[x].cpp_delete /\ cell'[inst'[x].addr] = "raw" /\ inst'[x].addr \notin owned'
    <3>1. /\ Stage(x) = "delete" /\ inst'[x] = inst[x] /\ inst[x] # None /\ inst[x].destruct
          /\ inst[x].cpp_delete /\ cell[inst[x].addr] = "raw" /\ inst[x].addr \notin owned
      BY <1>3, <2>2 DEF IInv, Stages
    <3> QED
      BY <1>2, <1>3, <1>5, <2>2, <3>1
  <2>3. rc'[o] = 0
    BY <1>2
  <2> QED
    BY <2>1, <2>2, <2>3 DEF Stages
<1>8. Calls'
  <2>1. ASSUME NEW u \in Thread, op[u] # None
        PROVE  CallSound(u)'
    <3>1. CallSound(u) /\ op[u].obj # o
      BY <1>4, <2>1 DEF IInv, Calls
    <3>2. op[u].obj \in Obj => inst'[op[u].obj] = inst[op[u].obj]
      BY <1>3, <3>1
    <3>3. op[u].self \in hold[u] => inst'[op[u].self] = inst[op[u].self]
      BY <1>1, <1>3, <1>4
    <3>4. op[u].step \in {"lookup", "new"} /\ op[u].pol = "take_ownership" =>
            \A x \in Obj : inst'[x] # None /\ inst'[x].addr = op[u].addr => rc'[x] = 0
      BY <1>2, <1>3, <3>1 DEF CallSound
    <3> QED
      BY <1>2, <3>1, <3>2, <3>3, <3>4 DEF CallSound
  <2> QED
    BY <1>2, <2>1 DEF Calls
<1>9. Flags'
  <2>1. \A x \in Obj : inst'[x] # None => x # o /\ inst'[x] = inst[x]
    BY <1>3
  <2> QED
    BY <1>2, <1>5, <2>1 DEF IInv, Flags
<1>10. Cells'
  <2>1. \A x \in Obj : Pending(x)' => Pending(x) /\ x # o /\ inst'[x] = inst[x]
                                   /\ inst[x].addr # o /\ inst[x].addr \in Addr
    BY <1>2, <1>3, <1>5 DEF Pending
  <2>2. \A b \in owned' : cell'[b] = "live"
    BY <1>1, <1>2, <1>3 DEF IInv, Cells
  <2>3. \A x \in Obj : cell'[x] = "live" =>
          inst'[x] # None /\ inst'[x].addr = x /\ inst'[x].destruct
    BY <1>1, <1>3 DEF IInv, Cells
  <2>4. \A x \in Obj : Pending(x)' =>
          inst'[x].addr \notin owned' /\ (Stage(x)' # "delete" => cell'[inst'[x].addr] = "live")
    BY <1>2, <1>3, <2>1 DEF IInv, Cells
  <2>5. \A x, y \in Obj : Pending(x)' /\ Pending(y)' /\ inst'[x].addr = inst'[y].addr => x = y
    BY <2>1 DEF IInv, Cells
  <2> QED
    BY <2>2, <2>3, <2>4, <2>5 DEF Cells
<1>11. Anchored'
  <2>1. ASSUME NEW y \in Obj, inst'[y] # None, inst'[y].addr # y, ~inst'[y].destruct,
               Stage(y)' # "release"
        PROVE  \/ \E s \in Obj : Contains(keep_alive'[y], s) /\ Encloses(s, y)'
               \/ inst'[y].addr \in Heap /\ (rc'[y] > 0 => inst'[y].addr \in owned')
               \/ Doing(y, {"keep_alive"})'
    <3>1. y # o /\ inst'[y] = inst[y] /\ Stage(y) # "release"
      BY <1>3, <2>1
    <3>2. \/ \E s \in Obj : Contains(keep_alive[y], s) /\ Encloses(s, y)
          \/ inst[y].addr \in Heap /\ (rc[y] > 0 => inst[y].addr \in owned)
          \/ Doing(y, {"keep_alive"})
      BY <2>1, <3>1 DEF IInv, Anchored
    <3>3. \A s \in Obj : Contains(keep_alive[y], s) /\ Encloses(s, y) => Encloses(s, y)'
      BY <1>3, <1>4, <3>1 DEF Encloses
    <3> QED
      BY <1>2, <1>5, <3>1, <3>2, <3>3
  <2> QED
    BY <2>1 DEF Anchored
<1>12. Nursing'
  BY <1>2, <1>3 DEF IInv, Nursing
<1>13. RefsAccounted'
  <2>1. ASSUME NEW p \in Obj
        PROVE  /\ Holders(p)' = Holders(p) /\ Nurses(p)' = Nurses(p)
               /\ Makers(p)' = Makers(p)
    BY <1>2 DEF Holders, Nurses, Makers
  <2> QED
    BY <1>2, <2>1 DEF IInv, RefsAccounted
<1> QED
  BY <1>2, <1>6, <1>7, <1>8, <1>9, <1>10, <1>11, <1>12, <1>13 DEF IInv, NoFailure

LEMMA FreeObjectStep ==
  ASSUME IInv, NEW t \in Thread, FreeObject(t)
  PROVE  IInv'
<1> SUFFICES ASSUME NEW o, o = Self(t)
             PROVE  IInv'
  OBVIOUS
<1>1. /\ frames[t] # <<>> /\ Last(frames[t]).pc = "release" /\ Last(frames[t]).patients = <<>>
      /\ inst' = [inst EXCEPT ![o] = None]
      /\ cell' = IF inst[o].addr = o THEN [cell EXCEPT ![o] = "free"] ELSE cell
      /\ frames' = [frames EXCEPT ![t] = Front(@)]
      /\ UNCHANGED <<rc, keep_alive, owned, hold, op, failed>>
      /\ inst_c2p' = inst_c2p /\ pool' = pool /\ op' = op /\ rc' = rc
  BY DEF FreeObject, In, Internal
<1>2. /\ o \in Obj /\ Stage(o) = "release" /\ inst[o] # None /\ rc[o] = 0
      /\ frames' \in [Thread -> Seq(Frame)] /\ FramesSound' /\ Stage(o)' = "none"
      /\ \A x \in Obj : x # o => Stage(x)' = Stage(x)
      /\ \A p : Releases(p)' = Releases(p)
  BY <1>1, Finished
<1>3. /\ keep_alive[o] = <<>> /\ \A a \in Addr : ~Contains(inst_c2p[a], o)
      /\ \A u \in Thread, tq \in Pooled : ~Contains(pool[u][tq], o)
  BY <1>2 DEF IInv, Nursing, Mapped, Pools
<1>4. /\ inst'[o] = None /\ (\A x \in Obj : x # o => inst'[x] = inst[x])
      /\ \A x \in Obj : x # o => cell'[x] = cell[x]
      /\ \A x \in Obj : \A S : Doing(x, S)' <=> Doing(x, S)
  BY <1>1, <1>2 DEF IInv, TypeOK, Doing, Addr
<1>5. Mapped'
  <2>1. \A a \in Addr, x \in Obj : x # o =>
          (Contains(inst_c2p'[a], x) <=>
            /\ inst'[x] # None /\ inst'[x].addr = a
            /\ ~Doing(x, {"keep_alive", "register"})' /\ Stage(x)' # "release")
    BY <1>1, <1>2, <1>4 DEF IInv, Mapped
  <2> QED
    BY <1>1, <1>3, <1>4, <2>1 DEF IInv, Mapped
<1>6. Pools'
  BY <1>1, <1>2, <1>3, <1>4 DEF IInv, Pools
<1>7. inst_c2p' \in [Addr -> Seq(Obj)] /\ pool' \in [Thread -> [Pooled -> Seq(Obj)]]
  BY <1>1 DEF IInv, TypeOK
<1> QED
  BY <1>1, <1>2, <1>3, <1>5, <1>6, <1>7, FreedStep

LEMMA DrainStep ==
  ASSUME IInv, NEW t \in Thread, NEW tp \in Type, Drain(t, tp)
  PROVE  IInv'
<1> SUFFICES ASSUME NEW o, o = Head(pool[t][tp])
             PROVE  IInv'
  OBVIOUS
<1> DEFINE s == pool[t][tp]
<1>1. /\ tp \in Pooled /\ s # <<>>
      /\ pool' = [pool EXCEPT ![t][tp] = Tail(@)]
      /\ inst_c2p' = [inst_c2p EXCEPT ![o] = RemoveFirst(@, o)]
      /\ inst' = [inst EXCEPT ![o] = None] /\ cell' = [cell EXCEPT ![o] = "free"]
      /\ UNCHANGED <<rc, keep_alive, owned, hold, op, failed>>
      /\ rc' = rc /\ op' = op /\ frames' = frames
  BY DEF Drain
<1>2. /\ pool \in [Thread -> [Pooled -> Seq(Obj)]] /\ inst_c2p \in [Addr -> Seq(Obj)]
      /\ inst \in [Obj -> Instance \cup {None}] /\ cell \in [Addr -> {"free", "raw", "live"}]
      /\ (\A x \in Obj : x \in Addr) /\ s \in Seq(Obj) /\ IsInjective(s)
  BY <1>1 DEF IInv, TypeOK, Pools, Addr
<1>3. /\ o \in Obj /\ Contains(s, o) /\ Tail(s) \in Seq(Obj) /\ IsInjective(Tail(s))
      /\ Len(Tail(s)) <= Len(s)
      /\ \A y : Contains(Tail(s), y) <=> Contains(s, y) /\ y # o
  <2>1. o = Head(s)
    OBVIOUS
  <2> HIDE DEF s
  <2> QED
    BY <1>1, <1>2, <2>1, Tailed
<1>4. /\ inst[o] # None /\ rc[o] = 0 /\ inst[o].addr = o /\ ~inst[o].clear_keep_alive
      /\ Stage(o) = "none"
      /\ \A u \in Thread, tq \in Pooled : Contains(pool[u][tq], o) => u = t /\ tq = tp
  BY <1>1, <1>3 DEF IInv, Pools
<1>5. keep_alive[o] = <<>>
  BY <1>3, <1>4 DEF IInv, Nursing
<1>6. /\ frames' \in [Thread -> Seq(Frame)] /\ FramesSound'
      /\ \A x \in Obj : Stage(x)' = Stage(x)
      /\ \A p : Releases(p)' = Releases(p)
      /\ \A x \in Obj : \A S : Doing(x, S)' <=> Doing(x, S)
  BY <1>1 DEF IInv, TypeOK, FramesSound, Stage, Releases, Frames, Doing
<1>7. /\ inst_c2p' \in [Addr -> Seq(Obj)]
      /\ \A a \in Addr : /\ IsInjective(inst_c2p'[a])
                         /\ \A y : Contains(inst_c2p'[a], y) <=>
                              Contains(inst_c2p[a], y) /\ ~(a = o /\ y = o)
  <2> DEFINE q == inst_c2p[o]
  <2>1. q \in Seq(Obj) /\ IsInjective(q) /\ \A a \in Addr : IsInjective(inst_c2p[a])
    BY <1>2, <1>3 DEF IInv, Mapped
  <2> HIDE DEF q
  <2>2. /\ RemoveFirst(q, o) \in Seq(Obj) /\ IsInjective(RemoveFirst(q, o))
        /\ \A y : Contains(RemoveFirst(q, o), y) <=> Contains(q, y) /\ y # o
    BY <2>1, Removed
  <2>3. /\ inst_c2p' \in [Addr -> Seq(Obj)] /\ inst_c2p'[o] = RemoveFirst(q, o)
        /\ \A b \in Addr : b # o => inst_c2p'[b] = inst_c2p[b]
    BY <1>1, <1>2, <1>3, <2>2 DEF q
  <2> QED
    BY <2>1, <2>2, <2>3 DEF q
<1>8. /\ inst'[o] = None /\ (\A x \in Obj : x # o => inst'[x] = inst[x])
      /\ \A x \in Obj : x # o => cell'[x] = cell[x]
  BY <1>1, <1>2, <1>3
<1>9. Mapped'
  <2>1. \A a \in Addr, x \in Obj :
          Contains(inst_c2p[a], x) <=>
            /\ inst[x] # None /\ inst[x].addr = a
            /\ ~Doing(x, {"keep_alive", "register"}) /\ Stage(x) # "release"
    BY DEF IInv, Mapped
  <2>2. ASSUME NEW a \in Addr, NEW x \in Obj
        PROVE  Contains(inst_c2p'[a], x) <=>
                 /\ inst'[x] # None /\ inst'[x].addr = a
                 /\ ~Doing(x, {"keep_alive", "register"})' /\ Stage(x)' # "release"
    <3>1. CASE x = o
      BY <1>4, <1>7, <1>8, <2>1, <3>1
    <3>2. CASE x # o
      BY <1>6, <1>7, <1>8, <2>1, <3>2
    <3> QED
      BY <3>1, <3>2
  <2> QED
    BY <1>7, <2>2 DEF Mapped
<1>10. /\ pool' \in [Thread -> [Pooled -> Seq(Obj)]] /\ pool'[t][tp] = Tail(s)
       /\ \A u \in Thread, tq \in Pooled : u # t \/ tq # tp => pool'[u][tq] = pool[u][tq]
  BY <1>1, <1>2, <1>3
<1> HIDE DEF s
<1>11. Pools'
  <2>1. ASSUME NEW u \in Thread, NEW tq \in Pooled
        PROVE  /\ Len(pool'[u][tq]) <= PoolCap /\ IsInjective(pool'[u][tq])
               /\ \A x \in Obj :
                    Contains(pool'[u][tq], x) => Contains(pool[u][tq], x) /\ x # o
    <3>1. CASE u = t /\ tq = tp
      <4>1. Len(Tail(s)) <= PoolCap
        <5>1. Len(s) <= PoolCap
          BY <1>1 DEF IInv, Pools, s
        <5>2. Len(s) \in Nat /\ Len(Tail(s)) \in Nat
          BY <1>2, <1>3
        <5>3. PoolCap \in Nat
          BY InstanceMapAssumption
        <5>4. Len(Tail(s)) <= Len(s)
          BY <1>3
        <5> QED
          BY <5>1, <5>2, <5>3, <5>4
      <4>2. pool'[u][tq] = Tail(s) /\ pool[u][tq] = s
        BY <1>10, <3>1 DEF s
      <4> QED
        BY <1>3, <4>1, <4>2
    <3>2. CASE u # t \/ tq # tp
      BY <1>4, <1>10, <3>2 DEF IInv, Pools
    <3> QED
      BY <3>1, <3>2
  <2> QED
    BY <1>1, <1>6, <1>8, <2>1 DEF IInv, Pools
<1>12. cell' = IF inst[o].addr = o THEN [cell EXCEPT ![o] = "free"] ELSE cell
  BY <1>1, <1>4
<1> QED
  BY <1>1, <1>3, <1>4, <1>5, <1>6, <1>7, <1>9, <1>10, <1>11, <1>12, FreedStep

-----------------------------------------------------------------------------
(* The theorems.                                                           *)

LEMMA Initial ==
  Init => IInv
<1> SUFFICES ASSUME Init
             PROVE  IInv
  OBVIOUS
<1>1. /\ inst = [o \in Obj |-> None] /\ rc = [o \in Obj |-> 0]
      /\ inst_c2p = [a \in Addr |-> <<>>] /\ keep_alive = [o \in Obj |-> <<>>]
      /\ cell = [a \in Addr |-> "free"] /\ owned = {}
      /\ pool = [t \in Thread |-> [tp \in Pooled |-> <<>>]]
      /\ hold = [t \in Thread |-> {}] /\ op = [t \in Thread |-> None]
      /\ frames = [t \in Thread |-> <<>>] /\ failed = FALSE
      /\ \A x \in Obj : x \in Addr
  BY DEF Init, Addr
<1>2. TypeOK
  <2>1. /\ inst \in [Obj -> Instance \cup {None}] /\ rc \in [Obj -> Nat]
        /\ inst_c2p \in [Addr -> Seq(Obj)] /\ keep_alive \in [Obj -> Seq(Obj)]
    BY <1>1
  <2>2. op \in [Thread -> CallState \cup {None}] /\ frames \in [Thread -> Seq(Frame)]
    BY <1>1
  <2>3. pool \in [Thread -> [Pooled -> Seq(Obj)]]
    BY <1>1
  <2>4. /\ cell \in [Addr -> {"free", "raw", "live"}] /\ owned \subseteq Heap
        /\ hold \in [Thread -> SUBSET Obj] /\ failed \in BOOLEAN
    BY <1>1
  <2> QED
    BY <2>1, <2>2, <2>3, <2>4 DEF TypeOK
<1>3. \A t \in Thread : FramesIn(frames, t) = {} /\ Frames(t) = {} /\ DOMAIN frames[t] = {}
  BY <1>1 DEF FramesIn, Frames
<1>4. \A o \in Obj : Stage(o) = "none"
  BY <1>3 DEF Stage, StageIn
<1>5. FramesSound
  BY <1>3 DEF FramesSound, DistinctIn, PatientsIn
<1>6. Stages /\ Calls /\ Flags /\ Anchored
  BY <1>1, <1>4 DEF Stages, Calls, Flags, Anchored
<1>7. Cells
  BY <1>1 DEF Cells, Pending
<1>8. IsInjective(<<>>) /\ \A y : ~Contains(<<>>, y)
  BY DEF IsInjective, Contains
<1>9. Mapped /\ Nursing
  BY <1>1, <1>8 DEF Mapped, Nursing
<1>10. Pools
  <2>1. Len(<<>>) <= PoolCap
    BY InstanceMapAssumption
  <2> QED
    BY <1>1, <1>8, <2>1 DEF Pools
<1>11. RefsAccounted
  <2>1. ASSUME NEW o \in Obj
        PROVE  Holders(o) = {} /\ Nurses(o) = {} /\ Makers(o) = {} /\ Releases(o) = {}
    <3>1. Holders(o) = {} /\ Nurses(o) = {} /\ Makers(o) = {}
      BY <1>1, <1>8 DEF Holders, Nurses, Makers
    <3>2. \A r \in Thread \X Obj : r[1] \in Thread
      OBVIOUS
    <3> QED
      BY <1>3, <3>1, <3>2 DEF Releases
  <2>2. Cardinality({}) = 0
    BY FS_EmptySet
  <2>3. ASSUME NEW o \in Obj
        PROVE  rc[o] = Cardinality(Holders(o)) + Cardinality(Nurses(o))
                     + Cardinality(Makers(o)) + Cardinality(Releases(o))
    <3>1. /\ Cardinality(Holders(o)) = 0 /\ Cardinality(Nurses(o)) = 0
          /\ Cardinality(Makers(o)) = 0 /\ Cardinality(Releases(o)) = 0
      BY <2>1, <2>2
    <3>2. rc[o] = 0
      BY <1>1
    <3> QED
      BY <3>1, <3>2
  <2> QED
    BY <2>3 DEF RefsAccounted
<1> QED
  BY <1>1, <1>2, <1>5, <1>6, <1>7, <1>9, <1>10, <1>11 DEF IInv, NoFailure

LEMMA Kept ==
  ASSUME "none" \notin Policy, IInv, [Next]_vars
  PROVE  IInv'
<1>1. CASE UNCHANGED vars
  BY <1>1, Stuttered
<1>2. ASSUME NEW t \in Thread, Step(t)
      PROVE  IInv'
  <2>1. CASE Constructed(t)
    BY <2>1, ConstructedStep
  <2>2. CASE ConstructFails(t)
    BY <2>2, ConstructFailsStep
  <2>3. CASE PutFound(t)
    BY <2>3, PutFoundStep
  <2>4. CASE PutRefused(t) \/ PutMissed(t)
    BY <2>4, PutMissedStep
  <2>5. CASE PutKeepAlive(t)
    BY <2>5, PutKeepAliveStep
  <2>6. CASE PutRegister(t)
    BY <2>6, PutRegisterStep
  <2>7. CASE \E o \in Obj : PutNew(t, o)
    BY <2>7, PutNewStep
  <2>8. CASE Recycle(t)
    BY <2>8, RecycleStep
  <2>9. CASE Park(t)
    BY <2>9, ParkStep
  <2>10. CASE Destruct(t)
    BY <2>10, DestructStep
  <2>11. CASE OperatorDelete(t)
    BY <2>11, OperatorDeleteStep
  <2>12. CASE Unmap(t)
    BY <2>12, UnmapStep
  <2>13. CASE ReleasePatient(t)
    BY <2>13, ReleasePatientStep
  <2>14. CASE FreeObject(t)
    BY <2>14, FreeObjectStep
  <2> QED
    BY <1>2, <2>1, <2>2, <2>3, <2>4, <2>5, <2>6, <2>7, <2>8, <2>9, <2>10, <2>11, <2>12,
       <2>13, <2>14 DEF Step
<1>3. ASSUME NEW t \in Thread, Program(t)
      PROVE  IInv'
  <2>1. CASE \E o \in Obj : Drop(t, o)
    BY <2>1, DropStep
  <2>2. CASE \E u \in Thread, o \in Obj : Share(t, u, o)
    BY <2>2, ShareStep
  <2>3. CASE \E tp \in Type : NewPooled(t, tp) \/ Drain(t, tp)
    BY <2>3, NewPooledStep, DrainStep
  <2>4. CASE \E tp \in Type, o \in Obj : NewInternal(t, tp, o)
    BY <2>4, NewInternalStep
  <2>5. ASSUME NEW a \in Heap, NEW tp \in Type,
               PutOwned(t, a, tp) \/ PutReference(t, a, tp) \/ PutKnown(t, a, tp)
        PROVE  IInv'
    <3>1. ~PutKnown(t, a, tp)
      BY DEF PutKnown, Put
    <3> QED
      BY <2>5, <3>1, PutOwnedStep, PutReferenceStep
  <2>6. CASE \E o \in Obj, pol \in Policy : PutField(t, o, pol)
    BY <2>6, PutFieldStep
  <2>7. CASE \E nurse, patient \in Obj : KeepAlive(t, nurse, patient)
    BY <2>7, KeepAliveStep
  <2> QED
    BY <1>3, <2>1, <2>2, <2>3, <2>4, <2>5, <2>6, <2>7 DEF Program
<1>4. CASE \E a \in Heap : CppNew(a) \/ CppDelete(a)
  BY <1>4, CppNewStep, CppDeleteStep
<1> QED
  BY <1>1, <1>2, <1>3, <1>4 DEF Next

\* IInv is inductive.
THEOREM Invariant ==
  ASSUME "none" \notin Policy
  PROVE  Spec => []IInv
<1>1. IInv /\ [Next]_vars => IInv'
  BY Kept
<1> QED
  BY <1>1, Initial, PTL DEF Spec

\* The state keeps its types: no reference count gets below zero (Py_DECREF in
\* inst_dealloc and the callers), and no slot holds half a wrapper.
THEOREM TypeCorrect ==
  ASSUME "none" \notin Policy
  PROVE  Spec => []TypeOK
<1>1. IInv => TypeOK
  BY DEF IInv
<1> QED
  BY <1>1, Invariant, PTL

\* No wrapper that Python can reach outlives its C++ object (nb_type_put,
\* inst_dealloc, keep_alive_py), for any number of threads and nested classes.
THEOREM NeverDangling ==
  ASSUME "none" \notin Policy
  PROVE  Spec => []NoDangling
<1>1. ASSUME IInv
      PROVE  NoDangling
  <2>1. ASSUME NEW o \in Obj, inst[o] # None, rc[o] > 0, ~Doing(o, {"construct"})
        PROVE  cell[inst[o].addr] = "live"
    <3>1. CASE inst[o].addr \in owned
      BY <1>1, <3>1 DEF IInv, Cells
    <3>2. CASE \E p \in Obj : Pending(p) /\ inst[p].addr = inst[o].addr /\ rc[p] > 0
      <4>1. PICK p \in Obj : Pending(p) /\ inst[p].addr = inst[o].addr /\ rc[p] > 0
        BY <3>2
      <4>2. Stage(p) = "none"
        <5>1. rc[p] # 0
          BY <1>1, <4>1 DEF IInv, TypeOK
        <5> QED
          BY <1>1, <5>1 DEF IInv, Stages
      <4> QED
        BY <1>1, <4>1, <4>2 DEF IInv, Cells
    <3> QED
      BY <1>1, <2>1, <3>1, <3>2, Rooted
  <2> QED
    BY <2>1 DEF NoDangling, Allocated
<1> QED
  BY <1>1, Invariant, PTL

\* Where the release of a wrapper stands, in the terms of the properties.
LEMMA StageOf ==
  ASSUME IInv, NEW o \in Obj
  PROVE  \A S : "none" \notin S => (Dying(o, S) <=> Stage(o) \in S)
<1>1. /\ \A t \in Thread : Frames(t) = FramesIn(frames, t)
      /\ frames \in [Thread -> Seq(Frame)] /\ DistinctIn(frames)
  BY DEF IInv, TypeOK, FramesSound, Frames, FramesIn
<1>2. /\ \A t \in Thread : \A f \in FramesIn(frames, t) : f.obj = o => Stage(o) = f.pc
      /\ Stage(o) # "none" =>
           \E t \in Thread : \E f \in FramesIn(frames, t) : f.obj = o /\ f.pc = Stage(o)
  BY <1>1, StageMeaning DEF Stage
<1> QED
  BY <1>1, <1>2 DEF Dying

\* No object is destructed twice: the flags destruct and cpp_delete, which
\* nb_type_put_common sets and inst_dealloc reads, name one wrapper per object.
THEOREM OwnerAlone ==
  ASSUME "none" \notin Policy
  PROVE  Spec => []SoleOwner
<1>1. ASSUME IInv
      PROVE  SoleOwner
  <2>1. ASSUME NEW o \in Obj, inst[o] # None, inst[o].destruct,
               rc[o] > 0 \/ Dying(o, {"recycle", "destruct"})
        PROVE  Pending(o) /\ Stage(o) # "delete"
    <3>1. Dying(o, {"recycle", "destruct"}) <=> Stage(o) \in {"recycle", "destruct"}
      BY <1>1, StageOf
    <3>2. rc[o] > 0 => Stage(o) = "none"
      <4>1. rc[o] > 0 => rc[o] # 0
        BY <1>1 DEF IInv, TypeOK
      <4> QED
        BY <1>1, <4>1 DEF IInv, Stages
    <3> QED
      BY <2>1, <3>1, <3>2 DEF Pending
  <2>2. Cells
    BY <1>1 DEF IInv
  <2> QED
    BY <2>1, <2>2 DEF SoleOwner, Allocated, Cells
<1> QED
  BY <1>1, Invariant, PTL

\* inst_c2p lists exactly the wrappers between inst_register and the removal in
\* inst_dealloc, each once and under its own address.
THEOREM RegistryExact ==
  ASSUME "none" \notin Policy
  PROVE  Spec => []MapExact
<1>1. ASSUME IInv
      PROVE  MapExact
  <2>1. ASSUME NEW a \in Addr
        PROVE  \A i, j \in DOMAIN inst_c2p[a] :
                 /\ inst_c2p[a][i] \in Allocated /\ inst[inst_c2p[a][i]].addr = a
                 /\ inst_c2p[a][i] = inst_c2p[a][j] => i = j
    <3>1. inst_c2p[a] \in Seq(Obj) /\ IsInjective(inst_c2p[a])
      BY <1>1 DEF IInv, TypeOK, Mapped
    <3>2. \A i \in DOMAIN inst_c2p[a] :
            inst_c2p[a][i] \in Obj /\ Contains(inst_c2p[a], inst_c2p[a][i])
      BY <3>1 DEF Contains
    <3>3. \A i \in DOMAIN inst_c2p[a] :
            inst_c2p[a][i] \in Allocated /\ inst[inst_c2p[a][i]].addr = a
      BY <1>1, <3>2 DEF IInv, Mapped, Allocated
    <3> QED
      BY <3>1, <3>3 DEF IsInjective
  <2>2. ASSUME NEW o \in Obj, inst[o] # None
        PROVE  Registered(o) <=> ~Doing(o, {"keep_alive", "register"}) /\ ~Dying(o, {"release"})
    <3>1. Dying(o, {"release"}) <=> Stage(o) = "release"
      BY <1>1, StageOf
    <3>2. inst[o].addr \in Addr
      BY <1>1, <2>2 DEF IInv, TypeOK, Instance
    <3> QED
      BY <1>1, <2>2, <3>1, <3>2 DEF IInv, Mapped, Registered
  <2> QED
    BY <2>1, <2>2 DEF MapExact, Allocated
<1> QED
  BY <1>1, Invariant, PTL

\* No check() of inst_new_int, inst_register and inst_dealloc ever fires.
THEOREM NeverFails ==
  ASSUME "none" \notin Policy
  PROVE  Spec => []NoFailure
<1>1. IInv => NoFailure
  BY DEF IInv
<1> QED
  BY <1>1, Invariant, PTL

\* What keep_alive_py promises: patients outlive the list they are in, and the flag
\* clear_keep_alive says whether there is one.
THEOREM PatientsSafe ==
  ASSUME "none" \notin Policy
  PROVE  Spec => []PatientsAlive
<1>1. ASSUME IInv, NEW n \in Obj
      PROVE  /\ keep_alive[n] # <<>> <=> n \in Allocated /\ inst[n].clear_keep_alive
                                          /\ ~Dying(n, {"release"})
             /\ \A i \in DOMAIN keep_alive[n] : rc[keep_alive[n][i]] > 0
  <2>1. Dying(n, {"release"}) <=> Stage(n) = "release"
    BY <1>1, StageOf
  <2>2. keep_alive[n] \in Seq(Obj)
    BY <1>1 DEF IInv, TypeOK
  <2>3. \A i \in DOMAIN keep_alive[n] :
          keep_alive[n][i] \in Obj /\ Contains(keep_alive[n], keep_alive[n][i])
    BY <2>2 DEF Contains
  <2>4. TypeOK /\ RefsAccounted
    BY <1>1 DEF IInv
  <2>5. \A i \in DOMAIN keep_alive[n] : rc[keep_alive[n][i]] > 0
    BY <2>3, <2>4, Referenced
  <2> QED
    BY <1>1, <2>1, <2>5 DEF IInv, Nursing, Allocated
<1>2. IInv => PatientsAlive
  BY <1>1 DEF PatientsAlive
<1> QED
  BY <1>2, Invariant, PTL

\* Every Py_INCREF of the registry, of keep_alive_py and of the calls has its
\* Py_DECREF.
THEOREM ReferencesCounted ==
  ASSUME "none" \notin Policy
  PROVE  Spec => []RefsAccounted
<1>1. IInv => RefsAccounted
  BY DEF IInv
<1> QED
  BY <1>1, Invariant, PTL

\* What inst_new_int takes from a pool is a dead wrapper that nothing refers to and
\* that no other pool offers.
THEOREM PoolsDead ==
  ASSUME "none" \notin Policy
  PROVE  Spec => []PoolsSound
<1>1. ASSUME IInv, NEW t \in Thread, NEW tp \in Pooled
      PROVE  /\ Len(pool[t][tp]) <= PoolCap
             /\ \A i \in DOMAIN pool[t][tp] :
                  LET o == pool[t][tp][i] IN
                  /\ o \in Allocated /\ rc[o] = 0 /\ Internal(o) /\ cell[o] # "live"
                  /\ ~Dying(o, {"recycle", "park", "destruct", "delete", "unmap", "release"})
                  /\ \A u \in Thread, tq \in Pooled : \A j \in DOMAIN pool[u][tq] :
                       pool[u][tq][j] = o => <<u, tq, j>> = <<t, tp, i>>
  <2>1. \A u \in Thread, tq \in Pooled :
          pool[u][tq] \in Seq(Obj) /\ IsInjective(pool[u][tq])
    BY <1>1 DEF IInv, TypeOK, Pools
  <2>2. Len(pool[t][tp]) <= PoolCap
    BY <1>1 DEF IInv, Pools
  <2>3. ASSUME NEW i \in DOMAIN pool[t][tp], NEW o, o = pool[t][tp][i]
        PROVE  /\ o \in Allocated /\ rc[o] = 0 /\ Internal(o) /\ cell[o] # "live"
               /\ ~Dying(o, {"recycle", "park", "destruct", "delete", "unmap", "release"})
               /\ \A u \in Thread, tq \in Pooled : \A j \in DOMAIN pool[u][tq] :
                    pool[u][tq][j] = o => <<u, tq, j>> = <<t, tp, i>>
    <3>1. o \in Obj /\ Contains(pool[t][tp], o)
      BY <2>1, <2>3 DEF Contains
    <3>2. /\ inst[o] # None /\ rc[o] = 0 /\ inst[o].addr = o /\ cell[o] # "live"
          /\ Stage(o) = "none"
          /\ \A u \in Thread, tq \in Pooled : Contains(pool[u][tq], o) => u = t /\ tq = tp
      BY <1>1, <3>1 DEF IInv, Pools
    <3>3. ~Dying(o, {"recycle", "park", "destruct", "delete", "unmap", "release"})
      BY <1>1, <3>1, <3>2, StageOf
    <3>4. ASSUME NEW u \in Thread, NEW tq \in Pooled, NEW j \in DOMAIN pool[u][tq],
                 pool[u][tq][j] = o
          PROVE  <<u, tq, j>> = <<t, tp, i>>
      <4>1. Contains(pool[u][tq], o)
        BY <2>1, <3>4 DEF Contains
      <4>2. u = t /\ tq = tp
        BY <3>2, <4>1
      <4> QED
        BY <2>1, <2>3, <3>4, <4>2 DEF IsInjective
    <3> QED
      BY <3>1, <3>2, <3>3, <3>4 DEF Allocated, Internal
  <2> QED
    BY <2>2, <2>3
<1>2. IInv => PoolsSound
  BY <1>1 DEF PoolsSound
<1> QED
  BY <1>2, Invariant, PTL

-----------------------------------------------------------------------------
(* Where live wrappers come from, and object identity.                     *)

\* A live wrapper was alive before the step, with the same object, or a call has just
\* created it.
Arrives(o) ==
  \/ inst[o] # None /\ rc[o] > 0 /\ inst'[o].addr = inst[o].addr /\ inst'[o].type = inst[o].type
  \/ \E t \in Thread, tp \in Type : NewPooled(t, tp) /\ o = Last(pool[t][tp])
  \/ \E t \in Thread, tp \in Type : NewInternal(t, tp, o)
  \/ \E t \in Thread : PutNew(t, o)

LEMMA Arrivals ==
  ASSUME IInv, [Next]_vars, NEW o \in Obj, inst'[o] # None, rc'[o] > 0
  PROVE  Arrives(o)
<1>1. /\ inst \in [Obj -> Instance \cup {None}] /\ rc \in [Obj -> Nat] /\ TypeOK /\ Stages
      /\ None \notin Instance /\ hold \in [Thread -> SUBSET Obj]
  BY InstanceMapAssumption DEF IInv, TypeOK
<1>2. rc[o] > 0 => inst[o] # None
  BY <1>1 DEF Stages
<1>3. ASSUME rc[o] > 0, inst' = inst
      PROVE  Arrives(o)
  BY <1>2, <1>3 DEF Arrives
<1>4. ASSUME NEW t \in Thread, NEW p \in Obj, NEW fs, DecRef(t, p, fs)
      PROVE  rc[o] > 0
  BY <1>1, <1>4 DEF DecRef
<1>5. ASSUME NEW t \in Thread, NEW p \in Obj, rc[p] > 0, Receive(t, p)
      PROVE  rc[o] > 0
  BY <1>1, <1>5 DEF Receive
<1>6. ASSUME NEW n \in Obj, NEW p \in Obj, rc[p] > 0, AddPatient(n, p)
      PROVE  Arrives(o)
  <2>1. rc[o] > 0
    BY <1>1, <1>6 DEF AddPatient
  <2>2. inst'[o] = inst[o] \/ inst'[o] = [inst[o] EXCEPT !.clear_keep_alive = TRUE]
    BY <1>1, <1>6 DEF AddPatient
  <2>3. inst[o] \in Instance
    BY <1>1, <1>2, <2>1
  <2>4. inst'[o].addr = inst[o].addr /\ inst'[o].type = inst[o].type
    BY <2>2, <2>3 DEF Instance
  <2> QED
    BY <1>2, <2>1, <2>4 DEF Arrives
<1>7. CASE UNCHANGED vars
  BY <1>3, <1>7 DEF vars
<1>8. ASSUME NEW t \in Thread, Step(t)
      PROVE  Arrives(o)
  <2>1. CASE Constructed(t)
    <3>1. rc[o] > 0 /\ inst' = [inst EXCEPT ![op[t].obj].destruct = TRUE]
      BY <2>1 DEF Constructed
    <3>2. inst[o] \in Instance
      BY <1>1, <1>2, <3>1
    <3>3. inst'[o] = inst[o] \/ inst'[o] = [inst[o] EXCEPT !.destruct = TRUE]
      BY <1>1, <3>1
    <3>4. inst'[o].addr = inst[o].addr /\ inst'[o].type = inst[o].type
      BY <3>2, <3>3 DEF Instance
    <3> QED
      BY <1>2, <3>1, <3>4 DEF Arrives
  <2>2. CASE ConstructFails(t)
    <3>1. op[t] # None /\ op[t].step = "construct"
      BY <2>2 DEF ConstructFails, At
    <3>2. op[t].obj \in Obj
      BY <3>1 DEF IInv, Calls, CallSound
    <3>3. DecRef(t, op[t].obj, <<>>) /\ inst' = inst
      BY <2>2 DEF ConstructFails
    <3> QED
      BY <1>3, <1>4, <3>2, <3>3
  <2>3. CASE PutFound(t)
    <3> DEFINE hits == Matches(op[t].addr, op[t].type)
               i == CHOOSE k \in hits : \A j \in hits : k <= j
    <3>1. /\ op[t] # None /\ hits # {} /\ Receive(t, inst_c2p[op[t].addr][i]) /\ inst' = inst
      BY <2>3 DEF PutFound, At
    <3>2. op[t].addr \in Addr
      BY <1>1, <3>1 DEF TypeOK, CallState
    <3>3. inst_c2p[op[t].addr] \in Seq(Obj)
      BY <1>1, <3>2 DEF TypeOK
    <3>4. hits \in SUBSET Nat
      BY <3>3 DEF Matches
    <3>5. hits # {}
      BY <3>1
    <3>6. i \in hits
      <4> HIDE DEF hits
      <4> QED
        BY <3>4, <3>5, LeastIn
    <3> HIDE DEF i
    <3>7. inst_c2p[op[t].addr][i] \in Obj /\ rc[inst_c2p[op[t].addr][i]] > 0
      BY <3>3, <3>6 DEF Matches
    <3> QED
      BY <1>3, <1>5, <3>1, <3>7
  <2>4. CASE PutRefused(t) \/ PutMissed(t)
    BY <1>3, <2>4 DEF PutRefused, PutMissed
  <2>5. CASE PutKeepAlive(t)
    <3>1. op[t] # None /\ op[t].step = "keep_alive" /\ AddPatient(op[t].obj, op[t].self)
      BY <2>5 DEF PutKeepAlive, At
    <3>2. op[t].obj \in Obj /\ op[t].self \in hold[t]
      BY <3>1 DEF IInv, Calls, CallSound
    <3>3. op[t].self \in Obj /\ rc[op[t].self] > 0
      BY <1>1, <3>2, Held
    <3> QED
      BY <1>6, <3>1, <3>2, <3>3
  <2>6. CASE PutRegister(t)
    BY <1>3, <2>6 DEF PutRegister
  <2>7. CASE \E p \in Obj : PutNew(t, p)
    <3>1. PICK p \in Obj : PutNew(t, p)
      BY <2>7
    <3>2. CASE p = o
      BY <3>1, <3>2 DEF Arrives
    <3>3. CASE p # o
      <4>1. inst'[o] = inst[o] /\ rc'[o] = rc[o]
        BY <1>1, <3>1, <3>3 DEF PutNew
      <4> QED
        BY <4>1 DEF Arrives
    <3> QED
      BY <3>2, <3>3
  <2>8. CASE Recycle(t) \/ Destruct(t) \/ OperatorDelete(t) \/ Unmap(t)
    BY <1>3, <2>8 DEF Recycle, Destruct, OperatorDelete, Unmap
  <2>9. CASE Park(t)
    <3>1. rc' = rc /\ (inst' = inst \/ inst' = [inst EXCEPT ![Self(t)].destruct = FALSE])
      BY <2>9 DEF Park
    <3>2. inst[o] # None /\ inst[o] \in Instance
      BY <1>1, <1>2, <3>1
    <3>3. inst'[o] = inst[o] \/ inst'[o] = [inst[o] EXCEPT !.destruct = FALSE]
      BY <1>1, <3>1
    <3>4. inst'[o].addr = inst[o].addr /\ inst'[o].type = inst[o].type
      BY <3>2, <3>3 DEF Instance
    <3> QED
      BY <3>1, <3>2, <3>4 DEF Arrives
  <2>10. CASE ReleasePatient(t)
    <3> DEFINE l == Last(frames[t])
    <3>1. frames[t] # <<>> /\ l.patients # <<>> /\ inst' = inst
      BY <2>10 DEF ReleasePatient, In
    <3>2. frames[t] \in Seq(Frame)
      BY <1>1 DEF TypeOK
    <3>3. l \in Frame
      BY <3>1, <3>2, Fronts
    <3>4. l.patients \in Seq(Obj)
      BY <3>3 DEF Frame
    <3> HIDE DEF l
    <3>5. Head(l.patients) \in Obj
      BY <3>1, <3>4
    <3>6. DecRef(t, Head(l.patients), Front(frames[t]) \o <<[l EXCEPT !.patients = Tail(@)]>>)
      BY <2>10 DEF ReleasePatient, l
    <3> QED
      BY <1>3, <1>4, <3>1, <3>5, <3>6
  <2>11. CASE FreeObject(t)
    <3>1. rc' = rc /\ inst' = [inst EXCEPT ![Self(t)] = None]
      BY <2>11 DEF FreeObject
    <3>2. inst'[o] = inst[o]
      BY <1>1, <3>1
    <3> QED
      BY <3>1, <3>2 DEF Arrives
  <2> QED
    BY <1>8, <2>1, <2>2, <2>3, <2>4, <2>5, <2>6, <2>7, <2>8, <2>9, <2>10, <2>11 DEF Step
<1>9. ASSUME NEW t \in Thread, Program(t)
      PROVE  Arrives(o)
  <2>1. CASE \E p \in Obj : Drop(t, p)
    BY <1>3, <1>4, <2>1 DEF Drop
  <2>2. ASSUME NEW u \in Thread, NEW p \in Obj, Share(t, u, p)
        PROVE  Arrives(o)
    <3>1. p \in hold[t] /\ Receive(u, p) /\ inst' = inst
      BY <2>2 DEF Share
    <3>2. rc[p] > 0
      BY <3>1, Held
    <3> QED
      BY <1>3, <1>5, <3>1, <3>2
  <2>3. ASSUME NEW tp \in Type, NewPooled(t, tp)
        PROVE  Arrives(o)
    <3>1. CASE o = Last(pool[t][tp])
      BY <2>3, <3>1 DEF Arrives
    <3>2. CASE o # Last(pool[t][tp])
      <4>1. inst'[o] = inst[o] /\ rc'[o] = rc[o]
        BY <1>1, <2>3, <3>2 DEF NewPooled
      <4> QED
        BY <4>1 DEF Arrives
    <3> QED
      BY <3>1, <3>2
  <2>4. ASSUME NEW tp \in Type, Drain(t, tp)
        PROVE  Arrives(o)
    <3>1. rc' = rc /\ inst' = [inst EXCEPT ![Head(pool[t][tp])] = None]
      BY <2>4 DEF Drain
    <3>2. inst'[o] = inst[o]
      BY <1>1, <3>1
    <3> QED
      BY <3>1, <3>2 DEF Arrives
  <2>5. ASSUME NEW tp \in Type, NEW p \in Obj, NewInternal(t, tp, p)
        PROVE  Arrives(o)
    <3>1. CASE o = p
      BY <2>5, <3>1 DEF Arrives
    <3>2. CASE o # p
      <4>1. inst'[o] = inst[o] /\ rc'[o] = rc[o]
        BY <1>1, <2>5, <3>2 DEF NewInternal
      <4> QED
        BY <4>1 DEF Arrives
    <3> QED
      BY <3>1, <3>2
  <2>6. CASE \E a \in Heap, tp \in Type :
               PutOwned(t, a, tp) \/ PutReference(t, a, tp) \/ PutKnown(t, a, tp)
    BY <1>3, <2>6 DEF PutOwned, PutReference, PutKnown, Put
  <2>7. CASE \E p \in Obj, pol \in Policy : PutField(t, p, pol)
    BY <1>3, <2>7 DEF PutField, Put
  <2>8. ASSUME NEW nurse \in Obj, NEW patient \in Obj, KeepAlive(t, nurse, patient)
        PROVE  Arrives(o)
    <3>1. patient \in hold[t] /\ AddPatient(nurse, patient)
      BY <2>8 DEF KeepAlive
    <3>2. rc[patient] > 0
      BY <3>1, Held
    <3> QED
      BY <1>6, <3>1, <3>2
  <2> QED
    BY <1>9, <2>1, <2>2, <2>3, <2>4, <2>5, <2>6, <2>7, <2>8 DEF Program
<1>10. CASE \E a \in Heap : CppNew(a) \/ CppDelete(a)
  BY <1>3, <1>10 DEF CppNew, CppDelete
<1> QED
  BY <1>7, <1>8, <1>9, <1>10 DEF Next

\* nb_try_inc_ref and the order of removal and release see to it that a wrapper whose
\* last reference is gone never comes back, except out of a pool.
THEOREM NeverResurrected ==
  ASSUME "none" \notin Policy
  PROVE  Spec => NoResurrection
<1>1. ASSUME IInv, IInv', [Next]_vars
      PROVE  [\A o \in Allocated : rc[o] = 0 /\ rc'[o] > 0 => Parked(o)]_vars
  <2>1. ASSUME NEW o \in Obj, inst[o] # None, rc[o] = 0, rc'[o] > 0
        PROVE  Parked(o)
    <3>1. inst'[o] # None
      <4>1. rc'[o] # 0
        BY <1>1, <2>1 DEF IInv, TypeOK
      <4> QED
        BY <1>1, <4>1 DEF IInv, Stages
    <3>2. Arrives(o)
      BY <1>1, <2>1, <3>1, Arrivals
    <3>3. PICK t \in Thread, tp \in Type : NewPooled(t, tp) /\ o = Last(pool[t][tp])
      <4>1. \A t \in Thread : ~PutNew(t, o) /\ \A tp \in Type : ~NewInternal(t, tp, o)
        BY <2>1 DEF NewInternal, PutNew
      <4> QED
        BY <2>1, <3>2, <4>1 DEF Arrives
    <3>4. /\ tp \in Pooled /\ pool[t][tp] # <<>>
          /\ pool[t][tp] \in Seq(Obj) /\ IsInjective(pool[t][tp])
      BY <1>1, <3>3 DEF NewPooled, IInv, TypeOK, Pools
    <3>5. Contains(pool[t][tp], o)
      <4> DEFINE s == pool[t][tp]
      <4>1. s # <<>> /\ s \in Seq(Obj) /\ IsInjective(s) /\ o = Last(s)
        BY <3>3, <3>4
      <4> HIDE DEF s
      <4>2. Contains(s, o)
        BY <4>1, Fronted
      <4> QED
        BY <4>2 DEF s
    <3> QED
      BY <3>4, <3>5 DEF Parked
  <2> QED
    BY <2>1 DEF Allocated
<1> QED
  BY <1>1, Invariant, PTL DEF Spec, NoResurrection

\* t is inside nb_type_put, and how a thread gets there.
Busy(t) == op[t] # None /\ op[t].step # "construct"
Begins(t) ==
  /\ op'[t].step = "lookup" /\ \A u \in Thread : u # t => op'[u] = op[u]
  /\ Serial => \A u \in Thread : ~Busy(u)

LEMMA CallsKept ==
  ASSUME IInv, [Next]_vars, NEW u \in Thread, Busy(u)'
  PROVE  \/ op'[u] = op[u]
         \/ Busy(u) /\ op'[u].step # "new"
         \/ PutMissed(u)
         \/ Begins(u)
<1> DEFINE Goal == \/ op'[u] = op[u]
                   \/ Busy(u) /\ op'[u].step # "new"
                   \/ PutMissed(u)
                   \/ Begins(u)
<1>1. op \in [Thread -> CallState \cup {None}] /\ None \notin CallState
  BY InstanceMapAssumption DEF IInv, TypeOK
<1>2. CASE op' = op
  BY <1>2
<1>3. ASSUME NEW t \in Thread, op' = [op EXCEPT ![t] = None]
      PROVE  Goal
  BY <1>1, <1>3 DEF Busy
<1>4. ASSUME NEW t \in Thread, NEW c, c.step = "construct", op' = [op EXCEPT ![t] = c]
      PROVE  Goal
  BY <1>1, <1>4 DEF Busy
<1>5. ASSUME NEW t \in Thread, NEW c, op[t] # None, op[t].step # "construct",
             c.step # "new", op' = [op EXCEPT ![t] = c]
      PROVE  Goal
  BY <1>1, <1>5 DEF Busy
<1>6. ASSUME NEW t \in Thread, NEW a, NEW tp, NEW pol, NEW self, Put(t, a, tp, pol, self)
      PROVE  Goal
  <2> DEFINE c == [Call("lookup", tp, a) EXCEPT !.pol = pol, !.self = self]
  <2>1. /\ op' = [op EXCEPT ![t] = c]
        /\ Serial => \A v \in Thread : op[v] # None => op[v].step = "construct"
    BY <1>6 DEF Put
  <2>2. c.step = "lookup"
    BY DEF Call
  <2> HIDE DEF c
  <2>3. \A v \in Thread : v # t => op'[v] = op[v]
    BY <1>1, <2>1
  <2>4. op'[t].step = "lookup"
    BY <1>1, <2>1, <2>2
  <2>5. CASE u = t
    BY <2>1, <2>3, <2>4, <2>5 DEF Begins, Busy
  <2> QED
    BY <2>3, <2>5
<1> HIDE DEF Goal
<1>7. CASE UNCHANGED vars
  BY <1>7 DEF vars, Goal
<1>8. ASSUME NEW t \in Thread, Step(t)
      PROVE  Goal
  <2>1. CASE Constructed(t) \/ ConstructFails(t) \/ PutFound(t) \/ PutRefused(t) \/ PutRegister(t)
    BY <1>3, <2>1 DEF Constructed, ConstructFails, PutFound, PutRefused, PutRegister
  <2>2. CASE PutMissed(t)
    <3>1. \A v \in Thread : v # t => op'[v] = op[v]
      BY <1>1, <2>2 DEF PutMissed, Goto
    <3> QED
      BY <2>2, <3>1 DEF Goal
  <2>3. CASE PutKeepAlive(t)
    <3>1. op[t] # None /\ op[t].step = "keep_alive" /\ op' = [op EXCEPT ![t].step = "register"]
      BY <2>3 DEF PutKeepAlive, At, Goto
    <3> DEFINE c == [op[t] EXCEPT !.step = "register"]
    <3>2. c.step = "register"
      BY <1>1, <3>1 DEF CallState
    <3>3. op' = [op EXCEPT ![t] = c]
      BY <3>1
    <3> HIDE DEF c
    <3> QED
      BY <1>5, <3>1, <3>2, <3>3
  <2>4. CASE \E o \in Obj : PutNew(t, o)
    <3>1. PICK o \in Obj : PutNew(t, o)
      BY <2>4
    <3> DEFINE s == IF op[t].pol = "reference_internal" THEN "keep_alive" ELSE "register"
               c == [op[t] EXCEPT !.obj = o, !.step = s]
    <3>2. op[t] # None /\ op[t].step = "new" /\ op' = [op EXCEPT ![t] = c]
      BY <3>1 DEF PutNew, At
    <3>3. op[t] \in CallState /\ s # "new"
      BY <1>1, <3>2
    <3> HIDE DEF s
    <3>4. c.step # "new"
      BY <3>3 DEF CallState
    <3> HIDE DEF c
    <3> QED
      BY <1>5, <3>2, <3>4
  <2>5. CASE Recycle(t) \/ Park(t) \/ Destruct(t) \/ OperatorDelete(t) \/ Unmap(t)
             \/ ReleasePatient(t) \/ FreeObject(t)
    BY <1>2, <2>5
    DEF Goal, Recycle, Park, Destruct, OperatorDelete, Unmap, ReleasePatient, FreeObject
  <2> QED
    BY <1>8, <2>1, <2>2, <2>3, <2>4, <2>5 DEF Step
<1>9. ASSUME NEW t \in Thread, Program(t)
      PROVE  Goal
  <2>1. CASE \/ \E o \in Obj : Drop(t, o)
             \/ \E v \in Thread, o \in Obj : Share(t, v, o)
             \/ \E tp \in Type : Drain(t, tp)
             \/ \E nurse, patient \in Obj : KeepAlive(t, nurse, patient)
    BY <2>1 DEF Goal, Drop, Share, Drain, KeepAlive
  <2>2. ASSUME NEW tp \in Type, NewPooled(t, tp)
        PROVE  Goal
    <3> DEFINE o == Last(pool[t][tp])
               c == [Call("construct", tp, o) EXCEPT !.obj = o]
    <3>1. op' = [op EXCEPT ![t] = c]
      BY <2>2 DEF NewPooled
    <3>2. c.step = "construct"
      BY DEF Call
    <3> HIDE DEF c
    <3> QED
      BY <1>4, <3>1, <3>2
  <2>3. ASSUME NEW tp \in Type, NEW o \in Obj, NewInternal(t, tp, o)
        PROVE  Goal
    <3> DEFINE c == [Call("construct", tp, o) EXCEPT !.obj = o]
    <3>1. op' = [op EXCEPT ![t] = c]
      BY <2>3 DEF NewInternal
    <3>2. c.step = "construct"
      BY DEF Call
    <3> HIDE DEF c
    <3> QED
      BY <1>4, <3>1, <3>2
  <2>4. CASE \/ \E a \in Heap, tp \in Type :
                  PutOwned(t, a, tp) \/ PutReference(t, a, tp) \/ PutKnown(t, a, tp)
             \/ \E o \in Obj, pol \in Policy : PutField(t, o, pol)
    BY <1>6, <2>4 DEF PutOwned, PutReference, PutKnown, PutField
  <2> QED
    BY <1>9, <2>1, <2>2, <2>3, <2>4 DEF Program
<1>10. CASE \E a \in Heap : CppNew(a) \/ CppDelete(a)
  BY <1>10 DEF Goal, CppNew, CppDelete
<1> QED
  BY <1>7, <1>8, <1>9, <1>10 DEF Next, Goal

\* With one call of nb_type_put at a time, a call that found no wrapper stays the
\* only one that can create it.
Alone == \A t, u \in Thread : Busy(t) /\ Busy(u) => t = u
Missing ==
  \A t \in Thread : op[t] # None /\ op[t].step = "new" =>
    \A x \in Obj : inst[x] # None /\ rc[x] > 0 =>
      ~(inst[x].addr = op[t].addr /\ inst[x].type = op[t].type)
SerialInv == Alone /\ Missing /\ OneWrapper

\* A wrapper with internal storage comes into a slot that no live wrapper and no
\* call of nb_type_put refers to.
LEMMA SlotUnused ==
  ASSUME IInv, NEW o \in Obj, rc[o] = 0
  PROVE  /\ \A p \in Obj : inst[p] # None /\ rc[p] > 0 => inst[p].addr # o
         /\ \A t \in Thread : op[t] # None /\ op[t].step = "new" => op[t].addr # o
<1>1. ASSUME NEW p \in Obj, inst[p] # None, rc[p] > 0, inst[p].addr = o
      PROVE  FALSE
  <2>1. CASE Doing(p, {"construct"})
    <3>1. PICK t \in Thread : op[t] # None /\ op[t].obj = p /\ op[t].step = "construct"
      BY <2>1 DEF Doing
    <3>2. inst[p] = NewInst(op[t].type, p)
      BY <3>1 DEF IInv, Calls, CallSound
    <3>3. p = o
      BY <1>1, <3>2 DEF NewInst
    <3> QED
      BY <1>1, <3>3
  <2>2. CASE ~Doing(p, {"construct"})
    <3>1. rc[o] > 0
      BY <1>1, <2>2, Occupied
    <3> QED
      BY <3>1
  <2> QED
    BY <2>1, <2>2
<1>2. ASSUME NEW t \in Thread, op[t] # None, op[t].step = "new", op[t].addr = o
      PROVE  FALSE
  <2>1. CallSound(t) /\ owned \subseteq Heap /\ Heap \cap Obj = {} /\ hold[t] \subseteq Obj
    BY <1>2, InstanceMapAssumption DEF IInv, Calls, TypeOK
  <2>2. /\ op[t].self \in hold[t] /\ inst[op[t].self] # None /\ inst[op[t].self].addr = o
    BY <1>2, <2>1 DEF CallSound
  <2>3. rc[op[t].self] > 0
    BY <2>1, <2>2, Held
  <2> QED
    BY <1>1, <2>1, <2>2, <2>3
<1> QED
  BY <1>1, <1>2

\* What a step creates is one wrapper; the others are as they were.
LEMMA OneArrival ==
  ASSUME IInv, [Next]_vars, NEW o \in Obj, inst'[o] # None, rc'[o] > 0, ~(rc[o] > 0)
  PROVE  /\ \A x \in Obj : x # o => inst'[x] = inst[x] /\ rc'[x] = rc[x]
         /\ \/ rc[o] = 0 /\ inst'[o].addr = o
            \/ \E t \in Thread : PutNew(t, o) /\ inst'[o].addr = op[t].addr
                                            /\ inst'[o].type = op[t].type
<1>1. /\ inst \in [Obj -> Instance \cup {None}] /\ rc \in [Obj -> Nat]
      /\ op \in [Thread -> CallState \cup {None}]
  BY DEF IInv, TypeOK
<1>2. rc[o] = 0
  BY <1>1
<1>3. Arrives(o)
  BY Arrivals
<1>4. ASSUME NEW t \in Thread, NEW tp \in Type,
             (NewPooled(t, tp) /\ o = Last(pool[t][tp])) \/ NewInternal(t, tp, o)
      PROVE  /\ \A x \in Obj : x # o => inst'[x] = inst[x] /\ rc'[x] = rc[x]
             /\ inst'[o].addr = o
  <2>1. inst' = [inst EXCEPT ![o] = NewInst(tp, o)] /\ rc' = [rc EXCEPT ![o] = 1]
    BY <1>4 DEF NewPooled, NewInternal
  <2>2. NewInst(tp, o).addr = o
    BY DEF NewInst
  <2> QED
    BY <1>1, <2>1, <2>2
<1>5. ASSUME NEW t \in Thread, PutNew(t, o)
      PROVE  /\ \A x \in Obj : x # o => inst'[x] = inst[x] /\ rc'[x] = rc[x]
             /\ inst'[o].addr = op[t].addr /\ inst'[o].type = op[t].type
  <2> DEFINE N == [NewInst(op[t].type, op[t].addr) EXCEPT
                     !.destruct = op[t].pol \notin {"reference", "reference_internal"},
                     !.cpp_delete = op[t].pol = "take_ownership"]
  <2>1. inst' = [inst EXCEPT ![o] = N] /\ rc' = [rc EXCEPT ![o] = 1]
    BY <1>5 DEF PutNew
  <2>2. N.addr = op[t].addr /\ N.type = op[t].type
    BY DEF NewInst
  <2> HIDE DEF N
  <2> QED
    BY <1>1, <2>1, <2>2
<1> QED
  BY <1>2, <1>3, <1>4, <1>5 DEF Arrives

LEMMA SerialKept ==
  ASSUME Serial, "none" \notin Policy, IInv, SerialInv, [Next]_vars
  PROVE  SerialInv'
<1>1. /\ inst \in [Obj -> Instance \cup {None}] /\ rc \in [Obj -> Nat]
      /\ op \in [Thread -> CallState \cup {None}] /\ inst_c2p \in [Addr -> Seq(Obj)]
      /\ IInv' /\ rc' \in [Obj -> Nat] /\ None \notin Obj
  BY Kept, InstanceMapAssumption DEF IInv, TypeOK
<1>2. Alone'
  <2>1. ASSUME NEW t \in Thread, NEW u \in Thread, Busy(t)', Busy(u)', t # u
        PROVE  FALSE
    <3>1. ASSUME NEW v \in Thread, Busy(v)', ~Begins(v)
          PROVE  Busy(v)
      <4>1. \/ op'[v] = op[v] \/ Busy(v) \/ PutMissed(v)
        BY <3>1, CallsKept
      <4> QED
        BY <3>1, <4>1 DEF Busy, PutMissed, At
    <3>2. ASSUME NEW v \in Thread, NEW w \in Thread, v # w, Busy(w)', Begins(v)
          PROVE  FALSE
      BY <3>2 DEF Begins, Busy
    <3>3. ~Begins(t) /\ ~Begins(u)
      BY <2>1, <3>2
    <3> QED
      BY <2>1, <3>1, <3>3 DEF SerialInv, Alone
  <2> QED
    BY <2>1 DEF Alone
<1>3. Missing'
  <2>1. ASSUME NEW t \in Thread, op'[t] # None, op'[t].step = "new",
               NEW x \in Obj, inst'[x] # None, rc'[x] > 0,
               inst'[x].addr = op'[t].addr, inst'[x].type = op'[t].type
        PROVE  FALSE
    <3>1. op'[t] = op[t] \/ PutMissed(t)
      <4>1. Busy(t)'
        BY <2>1 DEF Busy
      <4> QED
        BY <2>1, <4>1, CallsKept DEF Begins
    <3>2. CASE PutMissed(t)
      <4> DEFINE a == op[t].addr
                 tp == op[t].type
      <4>1. /\ op[t] # None /\ op[t].step = "lookup" /\ Matches(a, tp) = {}
            /\ inst' = inst /\ rc' = rc /\ op' = [op EXCEPT ![t].step = "new"]
        BY <3>2 DEF PutMissed, At, Goto
      <4>2. op[t] \in CallState /\ CallSound(t)
        BY <1>1, <4>1 DEF IInv, Calls
      <4>3. op'[t].addr = a /\ op'[t].type = tp /\ op[t].obj = None /\ a \in Addr
        BY <1>1, <4>1, <4>2 DEF CallState, CallSound
      <4>4. inst[x] # None /\ rc[x] > 0 /\ inst[x].addr = a /\ inst[x].type = tp
        BY <2>1, <4>1, <4>3
      <4>5. Stage(x) # "release"
        <5>1. rc[x] # 0
          BY <1>1, <4>4
        <5> QED
          BY <5>1 DEF IInv, Stages
      <4>6. ~Doing(x, {"keep_alive", "register"})
        <5>1. ASSUME NEW u \in Thread, op[u] # None, op[u].obj = x,
                     op[u].step \in {"keep_alive", "register"}
              PROVE  FALSE
          <6>1. Busy(u) /\ Busy(t)
            BY <4>1, <5>1 DEF Busy
          <6>2. u = t
            BY <6>1 DEF SerialInv, Alone
          <6> QED
            BY <4>1, <5>1, <6>2
        <5> QED
          BY <5>1 DEF Doing
      <4> HIDE DEF a, tp
      <4>7. Contains(inst_c2p[a], x)
        BY <4>3, <4>4, <4>5, <4>6 DEF IInv, Mapped
      <4>8. PICK i \in DOMAIN inst_c2p[a] : inst_c2p[a][i] = x
        BY <1>1, <4>3, <4>7 DEF Contains
      <4>9. i \in Matches(a, tp)
        BY <4>4, <4>8 DEF Matches
      <4> QED
        BY <4>1, <4>9 DEF a, tp
    <3>3. CASE op'[t] = op[t]
      <4>1. op[t] # None /\ op[t].step = "new"
        BY <2>1, <3>3
      <4>2. CASE rc[x] > 0
        <5>1. inst[x] # None /\ inst[x].addr = inst'[x].addr /\ inst[x].type = inst'[x].type
          <6>1. inst[x] # None /\ Arrives(x)
            BY <1>1, <2>1, <4>2, Arrivals DEF IInv, Stages
          <6>2. /\ \A u \in Thread : ~PutNew(u, x)
                /\ \A u \in Thread, tq \in Type : ~NewInternal(u, tq, x)
            BY <6>1 DEF PutNew, NewInternal
          <6>3. ASSUME NEW u \in Thread, NEW tq \in Type, NewPooled(u, tq),
                       x = Last(pool[u][tq])
                PROVE  FALSE
            <7> DEFINE s == pool[u][tq]
            <7>1. tq \in Pooled /\ s # <<>> /\ s \in Seq(Obj) /\ IsInjective(s) /\ x = Last(s)
              BY <6>3 DEF NewPooled, IInv, TypeOK, Pools
            <7> HIDE DEF s
            <7>2. Contains(s, x)
              BY <7>1, Fronted
            <7>3. rc[x] = 0
              BY <7>1, <7>2 DEF IInv, Pools, s
            <7> QED
              BY <4>2, <7>3
          <6> QED
            BY <6>1, <6>2, <6>3 DEF Arrives
        <5> QED
          BY <2>1, <3>3, <4>1, <4>2, <5>1 DEF SerialInv, Missing
      <4>3. CASE ~(rc[x] > 0)
        <5>1. \/ rc[x] = 0 /\ inst'[x].addr = x
              \/ \E u \in Thread : PutNew(u, x)
          BY <2>1, <4>3, OneArrival
        <5>2. CASE rc[x] = 0 /\ inst'[x].addr = x
          BY <2>1, <3>3, <4>1, <5>2, SlotUnused
        <5>3. CASE \E u \in Thread : PutNew(u, x)
          <6>1. PICK u \in Thread : PutNew(u, x)
            BY <5>3
          <6>2. op[u] # None /\ op[u].step = "new" /\ op'[u] # op[u]
            <7>1. op[u] # None /\ op[u].step = "new" /\ op[u] \in CallState
              BY <1>1, <6>1 DEF PutNew, At
            <7>2. op[u].obj = None
              BY <7>1 DEF IInv, Calls, CallSound
            <7>3. op'[u].obj = x
              BY <1>1, <6>1, <7>1 DEF PutNew, CallState
            <7> QED
              BY <1>1, <7>1, <7>2, <7>3
          <6>3. u = t
            BY <4>1, <6>2 DEF SerialInv, Alone, Busy
          <6> QED
            BY <3>3, <6>2, <6>3
        <5> QED
          BY <5>1, <5>2, <5>3
      <4> QED
        BY <4>2, <4>3
    <3> QED
      BY <3>1, <3>2, <3>3
  <2> QED
    BY <2>1 DEF Missing
<1>4. OneWrapper'
  <2>1. ASSUME NEW o \in Obj, NEW p \in Obj, inst'[o] # None, inst'[p] # None,
               rc'[o] > 0, rc'[p] > 0, inst'[o].addr = inst'[p].addr,
               inst'[o].type = inst'[p].type, ~(rc[o] > 0), o # p
        PROVE  FALSE
    <3>1. /\ inst'[p] = inst[p] /\ rc'[p] = rc[p]
          /\ \/ rc[o] = 0 /\ inst'[o].addr = o
             \/ \E t \in Thread : PutNew(t, o) /\ inst'[o].addr = op[t].addr
                                             /\ inst'[o].type = op[t].type
      BY <2>1, OneArrival
    <3>2. inst[p] # None /\ rc[p] > 0
      BY <2>1, <3>1
    <3>3. CASE rc[o] = 0 /\ inst'[o].addr = o
      BY <2>1, <3>1, <3>2, <3>3, SlotUnused
    <3>4. CASE \E t \in Thread : PutNew(t, o) /\ inst'[o].addr = op[t].addr
                                            /\ inst'[o].type = op[t].type
      <4>1. PICK t \in Thread : PutNew(t, o) /\ inst'[o].addr = op[t].addr
                                            /\ inst'[o].type = op[t].type
        BY <3>4
      <4>2. op[t] # None /\ op[t].step = "new"
        BY <4>1 DEF PutNew, At
      <4> QED
        BY <2>1, <3>1, <3>2, <4>1, <4>2 DEF SerialInv, Missing
    <3> QED
      BY <3>1, <3>3, <3>4
  <2>2. ASSUME NEW x \in Obj, inst'[x] # None, rc'[x] > 0, rc[x] > 0
        PROVE  inst[x] # None /\ inst[x].addr = inst'[x].addr /\ inst[x].type = inst'[x].type
    <3>1. inst[x] # None /\ Arrives(x)
      BY <1>1, <2>2, Arrivals DEF IInv, Stages
    <3>2. /\ \A u \in Thread : ~PutNew(u, x)
          /\ \A u \in Thread, tq \in Type : ~NewInternal(u, tq, x)
      BY <3>1 DEF PutNew, NewInternal
    <3>3. ASSUME NEW u \in Thread, NEW tq \in Type, NewPooled(u, tq), x = Last(pool[u][tq])
          PROVE  FALSE
      <4> DEFINE s == pool[u][tq]
      <4>1. tq \in Pooled /\ s # <<>> /\ s \in Seq(Obj) /\ IsInjective(s) /\ x = Last(s)
        BY <3>3 DEF NewPooled, IInv, TypeOK, Pools
      <4> HIDE DEF s
      <4>2. Contains(s, x)
        BY <4>1, Fronted
      <4>3. rc[x] = 0
        BY <4>1, <4>2 DEF IInv, Pools, s
      <4> QED
        BY <2>2, <4>3
    <3> QED
      BY <3>1, <3>2, <3>3 DEF Arrives
  <2>3. ASSUME NEW o \in Obj, NEW p \in Obj, inst'[o] # None, inst'[p] # None,
               rc'[o] > 0, rc'[p] > 0, inst'[o].addr = inst'[p].addr,
               inst'[o].type = inst'[p].type
        PROVE  o = p
    <3>1. CASE rc[o] > 0 /\ rc[p] > 0
      <4>1. /\ inst[o] # None /\ inst[p] # None
            /\ inst[o].addr = inst[p].addr /\ inst[o].type = inst[p].type
        BY <2>2, <2>3, <3>1
      <4> QED
        BY <3>1, <4>1 DEF SerialInv, OneWrapper, Allocated
    <3> QED
      BY <2>1, <2>3, <3>1
  <2> QED
    BY <2>3 DEF OneWrapper, Allocated
<1> QED
  BY <1>2, <1>3, <1>4 DEF SerialInv

\* Object identity on GIL builds: nb_type_put never creates a second wrapper of one
\* type for an object that has a live one.
THEOREM IdentityKept ==
  ASSUME Serial, "none" \notin Policy
  PROVE  Spec => []OneWrapper
<1>1. Init => SerialInv
  BY DEF Init, SerialInv, Alone, Busy, Missing, OneWrapper, Allocated
<1>2. IInv /\ SerialInv /\ [Next]_vars => SerialInv'
  BY SerialKept
<1>3. SerialInv => OneWrapper
  BY DEF SerialInv
<1> QED
  BY <1>1, <1>2, <1>3, Invariant, PTL DEF Spec
=============================================================================
