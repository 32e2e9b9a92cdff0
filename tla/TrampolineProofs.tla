-------------------------- MODULE TrampolineProofs --------------------------
(***************************************************************************)
(* Proofs about Trampoline for any number of threads, types, objects and   *)
(* methods, for the programs that Tame describes.                          *)
(***************************************************************************)
EXTENDS Trampoline, FiniteSetTheorems, SequenceTheorems, TLAPS

-----------------------------------------------------------------------------
(* Types and their MROs.                                                   *)

\* A type is in its own MRO, and so are the ancestors of its ancestors.
LEMMA Line ==
  ASSUME TypeOK, LinearMro
  PROVE  \A s \in Exists :
           /\ s \in Range(mro[s]) /\ Range(mro[s]) \subseteq Exists
           /\ \A a \in Range(mro[s]) : Range(mro[a]) \subseteq Range(mro[s])
<1> SUFFICES ASSUME NEW s \in Exists
             PROVE  /\ s \in Range(mro[s]) /\ Range(mro[s]) \subseteq Exists
                    /\ \A a \in Range(mro[s]) : Range(mro[a]) \subseteq Range(mro[s])
  OBVIOUS
<1>1. mro[s] \in Seq(Exists) /\ mro[s] # <<>> /\ mro[s][1] = s
  BY DEF TypeOK, LinearMro
<1>2. s \in Range(mro[s]) /\ Range(mro[s]) \subseteq Exists
  BY <1>1 DEF Range
<1>3. ASSUME NEW i \in DOMAIN mro[s]
      PROVE  Range(mro[mro[s][i]]) \subseteq Range(mro[s])
  <2>1. mro[mro[s][i]] = SubSeq(mro[s], i, Len(mro[s]))
    BY DEF LinearMro
  <2> QED
    BY <1>1, <2>1 DEF Range
<1> QED
  BY <1>2, <1>3 DEF Range

\* Below an ancestor there is one of its direct subclasses.
LEMMA Child ==
  ASSUME TypeOK, LinearMro, NEW s \in Exists, NEW a \in Range(mro[s]), a # s
  PROVE  Subclasses(a) \cap Range(mro[s]) # {}
<1>1. mro[s] \in Seq(Exists) /\ mro[s] # <<>> /\ mro[s][1] = s
  BY DEF TypeOK, LinearMro
<1>2. PICK i \in DOMAIN mro[s] : mro[s][i] = a
  BY DEF Range
<1>3. i \in 2..Len(mro[s]) /\ i - 1 \in DOMAIN mro[s]
  BY <1>1, <1>2
<1>4. mro[mro[s][i - 1]] = SubSeq(mro[s], i - 1, Len(mro[s]))
  BY <1>3 DEF LinearMro
<1>5. /\ mro[s][i - 1] \in Exists
      /\ Len(mro[mro[s][i - 1]]) > 1 /\ mro[mro[s][i - 1]][2] = a
  BY <1>1, <1>2, <1>3, <1>4
<1> QED
  BY <1>3, <1>5 DEF Subclasses, Range

\* A set of positions has a first one.
LEMMA Least ==
  ASSUME NEW T \in SUBSET Nat, T # {}
  PROVE  /\ (CHOOSE i \in T : \A j \in T : i <= j) \in T
         /\ \A j \in T : (CHOOSE i \in T : \A k \in T : i <= k) <= j
<1>1. PICK x \in T : \A y \in T : ~(<<y, x>> \in OpToRel(<, Nat))
  BY WFMin, NatLessThanWellFounded, Zenon
<1>2. \A y \in T : ~(y < x)
  BY <1>1 DEF OpToRel
<1>3. \A y \in T : x <= y
  BY <1>2
<1> QED
  BY <1>3

\* The answer of a lookup depends on the namespaces it reads.
LEMMA SameFind ==
  ASSUME NEW S, NEW line \in Seq(S), NEW as, NEW bs, NEW n,
         \A i \in DOMAIN line : as[line[i]][n] = bs[line[i]][n]
  PROVE  Find(line, as, n) = Find(line, bs, n)
<1> DEFINE hits(cs) == {i \in DOMAIN line : cs[line[i]][n] # None}
<1> DEFINE first(cs) == CHOOSE i \in hits(cs) : \A j \in hits(cs) : i <= j
<1>1. hits(as) = hits(bs)
  OBVIOUS
<1>2. CASE hits(as) = {}
  BY <1>1, <1>2 DEF Find
<1>3. CASE hits(as) # {}
  <2>1. first(as) = first(bs) /\ first(as) \in DOMAIN line
    <3>1. hits(as) \in SUBSET Nat
      <4>1. DOMAIN line \subseteq Nat
        OBVIOUS
      <4> QED
        BY <4>1, Zenon
    <3> HIDE DEF hits
    <3>2. first(as) \in hits(as)
      BY <1>3, <3>1, Least
    <3>3. first(as) = first(bs)
      BY <1>1
    <3> QED
      BY <3>2, <3>3 DEF hits
  <2>2. Find(line, as, n) = Classify(as[line[first(as)]][n])
    BY <1>3 DEF Find
  <2>3. Find(line, bs, n) = Classify(bs[line[first(bs)]][n])
    BY <1>1, <1>3 DEF Find
  <2> HIDE DEF first
  <2> QED
    BY <2>1, <2>2, <2>3
<1> QED
  BY <1>2, <1>3

\* What assignments to other types leave alone.
LEMMA SameAnswer ==
  ASSUME NEW S, NEW line \in Seq(S),
         \A i \in DOMAIN line : attr'[line[i]] = attr[line[i]]
  PROVE  \A n : Find(line, attr', n) = Find(line, attr, n)
<1> DEFINE new == attr'
           old == attr
<1>1. \A i \in DOMAIN line : new[line[i]] = old[line[i]]
  OBVIOUS
<1> HIDE DEF new, old
<1>2. ASSUME NEW n
      PROVE  Find(line, new, n) = Find(line, old, n)
  <2>1. \A i \in DOMAIN line : new[line[i]][n] = old[line[i]][n]
    BY <1>1
  <2> QED
    BY <2>1, SameFind
<1> QED
  BY <1>2 DEF new, old

\* Reading one namespace after the other finds what the whole lookup finds.
LEMMA NextFind ==
  ASSUME NEW S, NEW line \in Seq(S), line # <<>>, NEW as, NEW n
  PROVE  Find(line, as, n) = IF as[Head(line)][n] # None THEN Classify(as[Head(line)][n])
                             ELSE Find(Tail(line), as, n)
<1> DEFINE hits(l) == {i \in DOMAIN l : as[l[i]][n] # None}
<1> DEFINE first(l) == CHOOSE i \in hits(l) : \A j \in hits(l) : i <= j
<1>0. /\ DOMAIN line = 1..Len(line) /\ Len(line) \in Nat \ {0}
      /\ DOMAIN Tail(line) = 1..Len(line) - 1
      /\ \A i \in DOMAIN Tail(line) : Tail(line)[i] = line[i + 1]
      /\ Head(line) = line[1]
  OBVIOUS
<1>1. /\ hits(line) \in SUBSET Nat /\ hits(Tail(line)) \in SUBSET Nat
      /\ \A i \in hits(line) : i >= 1
  <2>1. DOMAIN line \subseteq Nat \ {0} /\ DOMAIN Tail(line) \subseteq Nat
    BY <1>0
  <2>2. \A i \in Nat \ {0} : i >= 1
    OBVIOUS
  <2> QED
    BY <2>1, <2>2, Zenon
<1>2. ASSUME NEW l, hits(l) # {}
      PROVE  Find(l, as, n) = Classify(as[l[first(l)]][n])
  BY <1>2 DEF Find
<1>3. ASSUME NEW l, hits(l) = {}
      PROVE  Find(l, as, n) = None
  BY <1>3 DEF Find
<1>4. CASE as[Head(line)][n] # None
  <2>1. 1 \in hits(line)
    <3>1. 1 \in DOMAIN line
      BY <1>0
    <3> QED
      BY <1>0, <1>4, <3>1, Zenon
  <2>2. first(line) = 1
    <3> HIDE DEF hits
    <3>1. /\ first(line) \in hits(line) /\ first(line) <= 1
      BY <1>1, <2>1, Least
    <3> QED
      BY <1>1, <3>1
  <2>3. hits(line) # {}
    BY <2>1
  <2>4. Find(line, as, n) = Classify(as[line[1]][n])
    <3> HIDE DEF first, hits
    <3> QED
      BY <1>2, <2>2, <2>3
  <2> QED
    BY <1>0, <1>4, <2>4
<1>5. CASE as[Head(line)][n] = None
  <2>1. \A i \in Nat \ {0} : i + 1 \in hits(line) <=> i \in hits(Tail(line))
    <3> SUFFICES ASSUME NEW i \in Nat \ {0}
                 PROVE  i + 1 \in hits(line) <=> i \in hits(Tail(line))
      OBVIOUS
    <3>1. i + 1 \in DOMAIN line <=> i \in DOMAIN Tail(line)
      BY <1>0
    <3>2. i \in DOMAIN Tail(line) => Tail(line)[i] = line[i + 1]
      BY <1>0
    <3> QED
      BY <3>1, <3>2, Zenon
  <2>2. 1 \notin hits(line) /\ 0 \notin hits(Tail(line)) /\ 0 \notin hits(line)
    <3>1. 0 \notin DOMAIN line /\ 0 \notin DOMAIN Tail(line)
      BY <1>0
    <3> QED
      BY <1>0, <1>5, <3>1, Zenon
  <2>6. \A i \in hits(line) : i - 1 \in hits(Tail(line))
    <3> HIDE DEF hits
    <3> SUFFICES ASSUME NEW i \in hits(line)
                 PROVE  i - 1 \in hits(Tail(line))
      OBVIOUS
    <3>1. i \in Nat /\ i - 1 \in Nat \ {0} /\ (i - 1) + 1 = i
      BY <1>1, <2>2
    <3> QED
      BY <2>1, <3>1
  <2>7. \A i \in hits(Tail(line)) : i + 1 \in hits(line)
    <3> HIDE DEF hits
    <3> QED
      BY <1>1, <2>1, <2>2
  <2>3. hits(line) = {} <=> hits(Tail(line)) = {}
    <3> HIDE DEF hits
    <3> QED
      BY <2>6, <2>7
  <2>4. CASE hits(line) # {}
    <3>1. first(line) = first(Tail(line)) + 1 /\ first(Tail(line)) \in DOMAIN Tail(line)
      <4>1. first(Tail(line)) \in hits(Tail(line)) => first(Tail(line)) \in DOMAIN Tail(line)
        BY DEF hits
      <4> HIDE DEF hits
      <4>2. /\ first(line) \in hits(line)
            /\ \A j \in hits(line) : first(line) <= j
        BY <1>1, <2>4, Least
      <4>3. /\ first(Tail(line)) \in hits(Tail(line))
            /\ \A j \in hits(Tail(line)) : first(Tail(line)) <= j
        BY <1>1, <2>3, <2>4, Least
      <4> HIDE DEF first
      <4>4. first(line) \in Nat /\ first(line) >= 2 /\ first(Tail(line)) \in Nat
        BY <1>1, <2>2, <4>2, <4>3
      <4>5. first(Tail(line)) + 1 \in hits(line) /\ first(line) - 1 \in hits(Tail(line))
        BY <2>6, <2>7, <4>2, <4>3
      <4> QED
        BY <4>1, <4>2, <4>3, <4>4, <4>5
    <3> HIDE DEF first
    <3>2. line[first(line)] = Tail(line)[first(Tail(line))]
      BY <3>1
    <3> QED
      BY <1>2, <1>5, <2>3, <2>4, <3>2
  <2>5. CASE hits(line) = {}
    BY <1>3, <1>5, <2>3, <2>5
  <2> QED
    BY <2>4, <2>5
<1> QED
  BY <1>4, <1>5

\* A type is in an MRO once.
LEMMA Once ==
  ASSUME TypeOK, LinearMro, NEW s \in Exists,
         NEW i \in DOMAIN mro[s], NEW j \in DOMAIN mro[s], mro[s][i] = mro[s][j]
  PROVE  i = j
<1>1. mro[s] \in Seq(Exists)
  BY DEF TypeOK
<1>2. /\ mro[mro[s][i]] = SubSeq(mro[s], i, Len(mro[s]))
      /\ mro[mro[s][j]] = SubSeq(mro[s], j, Len(mro[s]))
  BY DEF LinearMro
<1>3. /\ Len(SubSeq(mro[s], i, Len(mro[s]))) = Len(mro[s]) - i + 1
      /\ Len(SubSeq(mro[s], j, Len(mro[s]))) = Len(mro[s]) - j + 1
  BY <1>1
<1> QED
  BY <1>1, <1>2, <1>3

\* Types that are not below tp keep their MRO; the others have the part up to tp
\* and the MRO of the new base.
LEMMA MovedLine ==
  ASSUME TypeOK, LinearMro, NEW tp \in Exists, NEW base \in Exists, Moved(tp, base),
         NEW s \in Exists
  PROVE  /\ mro'[s] \in Seq(Exists)
         /\ tp \notin Range(mro[s]) => mro'[s] = mro[s]
         /\ \A k \in DOMAIN mro[s] : mro[s][k] = tp =>
              /\ Len(mro'[s]) = k + Len(mro[base])
              /\ \A i \in 1..k : mro'[s][i] = mro[s][i]
              /\ \A i \in 1..Len(mro[base]) : mro'[s][k + i] = mro[base][i]
<1>1. mro[s] \in Seq(Exists) /\ mro[base] \in Seq(Exists)
  BY DEF TypeOK
<1>2. CASE ~Contains(mro[s], tp)
  <2>1. mro'[s] = mro[s]
    BY <1>2 DEF Moved
  <2>2. \A k \in DOMAIN mro[s] : mro[s][k] # tp
    BY <1>1, <1>2 DEF Contains
  <2> QED
    BY <1>1, <2>1, <2>2
<1>3. CASE Contains(mro[s], tp)
  <2>1. PICK k \in DOMAIN mro[s] : mro[s][k] = tp
    BY <1>1, <1>3 DEF Contains
  <2>2. \A j \in DOMAIN mro[s] : mro[s][j] = tp => j = k
    BY <2>1, Once
  <2>3. (CHOOSE i \in DOMAIN mro[s] : mro[s][i] = tp) = k
    BY <2>1, <2>2
  <2>4. mro'[s] = SubSeq(mro[s], 1, k) \o mro[base]
    BY <1>3, <2>3 DEF Moved
  <2>5. SubSeq(mro[s], 1, k) \in Seq(Exists) /\ Len(SubSeq(mro[s], 1, k)) = k
        /\ \A i \in 1..k : SubSeq(mro[s], 1, k)[i] = mro[s][i]
    BY <1>1
  <2>6. /\ mro'[s] \in Seq(Exists)
        /\ Len(mro'[s]) = k + Len(mro[base])
        /\ \A i \in 1..k : mro'[s][i] = mro[s][i]
        /\ \A i \in 1..Len(mro[base]) : mro'[s][k + i] = mro[base][i]
    BY <1>1, <2>4, <2>5
  <2>7. tp \in Range(mro[s])
    BY <2>1 DEF Range
  <2> QED
    BY <2>2, <2>6, <2>7
<1> QED
  BY <1>2, <1>3

\* What follows a position of a sequence.
LEMMA Suffix ==
  ASSUME NEW S, NEW q \in Seq(S), NEW i \in 1..Len(q)
  PROVE  /\ SubSeq(q, i, Len(q)) \in Seq(S)
         /\ Len(SubSeq(q, i, Len(q))) = Len(q) - i + 1
         /\ \A j \in 1..Len(q) - i + 1 : SubSeq(q, i, Len(q))[j] = q[i + j - 1]
  OBVIOUS

\* What is in such a part is at its position in the whole.
LEMMA Behind ==
  ASSUME NEW S, NEW q \in Seq(S), NEW i \in 1..Len(q),
         NEW a \in Range(SubSeq(q, i, Len(q)))
  PROVE  \E j \in i..Len(q) : q[j] = a
<1>1. PICK k \in DOMAIN SubSeq(q, i, Len(q)) : SubSeq(q, i, Len(q))[k] = a
  BY DEF Range
<1>2. k \in 1..Len(q) - i + 1 /\ i + k - 1 \in i..Len(q)
  BY <1>1, Suffix
<1>3. q[i + k - 1] = a
  BY <1>1, <1>2, Suffix, Zenon
<1> QED
  BY <1>2, <1>3, Zenon

\* The ancestors of a type in an MRO follow it there.
LEMMA Above ==
  ASSUME TypeOK, LinearMro, NEW s \in Exists, NEW i \in DOMAIN mro[s],
         NEW a \in Range(mro[mro[s][i]])
  PROVE  \E j \in i..Len(mro[s]) : mro[s][j] = a
<1>1. mro[s] \in Seq(Exists)
  BY DEF TypeOK
<1>2. mro[mro[s][i]] = SubSeq(mro[s], i, Len(mro[s]))
  BY DEF LinearMro
<1>3. i \in 1..Len(mro[s])
  BY <1>1
<1> QED
  BY <1>1, <1>2, <1>3, Behind, Zenon

\* MROs stay linear, and what is below tp stays below it.
LEMMA MovedLinear ==
  ASSUME TypeOK, LinearMro, NEW tp \in Exists, NEW base \in Exists,
         ~Contains(mro[base], tp), Moved(tp, base)
  PROVE  /\ mro' \in [Exists -> Seq(Exists)]
         /\ LinearMro'
         /\ \A s \in Exists :
              /\ tp \notin Range(mro[s]) => mro'[s] = mro[s]
              /\ tp \in Range(mro[s]) =>
                   /\ tp \in Range(mro'[s])
                   /\ Range(mro'[s]) \subseteq Range(mro[s]) \cup Range(mro[base])
<1>1. /\ mro' \in [Exists -> Seq(Exists)]
      /\ Exists' = Exists
  BY MovedLine DEF Moved, Exists
<1>2. \A s \in Exists : mro[s] \in Seq(Exists)
  BY DEF TypeOK
<1>3. tp \notin Range(mro[base])
  BY <1>2 DEF Contains, Range
<1>4. ASSUME NEW s \in Exists, tp \notin Range(mro[s])
      PROVE  mro'[s] = mro[s]
  BY <1>4, MovedLine
<1>5. ASSUME NEW s \in Exists, NEW k \in DOMAIN mro[s], mro[s][k] = tp
      PROVE  /\ Len(mro'[s]) = k + Len(mro[base])
             /\ \A i \in 1..k : mro'[s][i] = mro[s][i]
             /\ \A i \in 1..Len(mro[base]) : mro'[s][k + i] = mro[base][i]
  BY <1>5, MovedLine
<1>6. ASSUME NEW s \in Exists, tp \in Range(mro[s])
      PROVE  /\ tp \in Range(mro'[s])
             /\ Range(mro'[s]) \subseteq Range(mro[s]) \cup Range(mro[base])
  <2>1. PICK k \in DOMAIN mro[s] : mro[s][k] = tp
    BY <1>6 DEF Range
  <2>2. /\ k \in 1..Len(mro[s]) /\ mro'[s] \in Seq(Exists)
        /\ Len(mro'[s]) = k + Len(mro[base])
        /\ \A i \in 1..k : mro'[s][i] = mro[s][i]
        /\ \A i \in 1..Len(mro[base]) : mro'[s][k + i] = mro[base][i]
    <3>1. k \in 1..Len(mro[s])
      BY <1>2
    <3>2. mro'[s] \in Seq(Exists)
      BY <1>1
    <3>3. /\ Len(mro'[s]) = k + Len(mro[base])
          /\ \A i \in 1..k : mro'[s][i] = mro[s][i]
          /\ \A i \in 1..Len(mro[base]) : mro'[s][k + i] = mro[base][i]
      BY <1>5, <2>1, Zenon
    <3> QED
      BY <3>1, <3>2, <3>3, Zenon
  <2>5. Len(mro[base]) \in Nat /\ Len(mro[s]) \in Nat
    BY <1>2
  <2>6. DOMAIN mro'[s] = 1..Len(mro'[s])
    BY <2>2
  <2>4. k \in DOMAIN mro'[s] /\ mro'[s][k] = tp
    <3>1. k \in 1..k /\ k \in 1..k + Len(mro[base])
      BY <2>2, <2>5
    <3> QED
      BY <2>1, <2>2, <2>6, <3>1
  <2>3. ASSUME NEW j \in DOMAIN mro'[s]
        PROVE  mro'[s][j] \in Range(mro[s]) \cup Range(mro[base])
    <3>1. CASE j <= k
      <4>1. j \in 1..k
        BY <2>2, <2>5, <2>6, <3>1
      <4>2. mro'[s][j] = mro[s][j] /\ j \in DOMAIN mro[s]
        BY <1>2, <2>2, <2>5, <4>1
      <4> QED
        BY <4>2 DEF Range
    <3>2. CASE j > k
      <4>1. j - k \in 1..Len(mro[base]) /\ j = k + (j - k)
        BY <2>2, <2>5, <2>6, <3>2
      <4>2. mro'[s][j] = mro[base][j - k]
        BY <2>2, <4>1
      <4> QED
        BY <1>2, <4>1, <4>2 DEF Range
    <3> QED
      BY <1>2, <2>2, <3>1, <3>2
  <2> QED
    BY <2>3, <2>4 DEF Range
<1>7. ASSUME NEW s \in Exists
      PROVE  /\ mro'[s] # <<>> /\ mro'[s][1] = s
             /\ \A i \in DOMAIN mro'[s] :
                  mro'[mro'[s][i]] = SubSeq(mro'[s], i, Len(mro'[s]))
  <2>1. mro[s] # <<>> /\ mro[s][1] = s
    BY DEF LinearMro
  <2>2. CASE tp \notin Range(mro[s])
    <3>1. mro'[s] = mro[s]
      BY <1>4, <2>2
    <3>2. ASSUME NEW i \in DOMAIN mro[s]
          PROVE  mro'[mro[s][i]] = SubSeq(mro[s], i, Len(mro[s]))
      <4>1. mro[s][i] \in Range(mro[s]) /\ mro[s][i] \in Exists
        BY <1>2 DEF Range
      <4>2. tp \notin Range(mro[mro[s][i]])
        BY <2>2, <4>1, Line
      <4> QED
        BY <1>4, <4>1, <4>2 DEF LinearMro
    <3> QED
      BY <2>1, <3>1, <3>2
  <2>3. CASE tp \in Range(mro[s])
    <3>1. PICK k \in DOMAIN mro[s] : mro[s][k] = tp
      BY <2>3 DEF Range
    <3>2. /\ k \in 1..Len(mro[s]) /\ mro'[s] \in Seq(Exists)
          /\ Len(mro'[s]) = k + Len(mro[base])
          /\ \A i \in 1..k : mro'[s][i] = mro[s][i]
          /\ \A i \in 1..Len(mro[base]) : mro'[s][k + i] = mro[base][i]
      <4>1. k \in 1..Len(mro[s])
        BY <1>2
      <4>2. mro'[s] \in Seq(Exists)
        BY <1>1
      <4>3. /\ Len(mro'[s]) = k + Len(mro[base])
            /\ \A i \in 1..k : mro'[s][i] = mro[s][i]
            /\ \A i \in 1..Len(mro[base]) : mro'[s][k + i] = mro[base][i]
        BY <1>5, <3>1, Zenon
      <4> QED
        BY <4>1, <4>2, <4>3, Zenon
    <3>3. mro'[s] # <<>> /\ mro'[s][1] = s
      BY <1>2, <2>1, <3>2
    <3>4. ASSUME NEW i \in 1..k
          PROVE  mro'[mro'[s][i]] = SubSeq(mro'[s], i, Len(mro'[s]))
      <4> DEFINE a == mro[s][i]
      <4>1. a \in Exists /\ mro'[s][i] = a
        BY <1>2, <3>2
      <4>2. mro[a] = SubSeq(mro[s], i, Len(mro[s]))
        <5>1. i \in DOMAIN mro[s]
          BY <1>2, <3>2
        <5> QED
          BY <5>1 DEF LinearMro
      <4>3. /\ k - i + 1 \in DOMAIN mro[a] /\ mro[a][k - i + 1] = tp
            /\ \A j \in 1..k - i + 1 : mro[a][j] = mro[s][i + j - 1]
        BY <1>2, <3>1, <3>2, <4>2
      <4> HIDE DEF a
      <4>4. /\ mro'[a] \in Seq(Exists)
            /\ Len(mro'[a]) = k - i + 1 + Len(mro[base])
            /\ \A j \in 1..k - i + 1 : mro'[a][j] = mro[a][j]
            /\ \A j \in 1..Len(mro[base]) : mro'[a][k - i + 1 + j] = mro[base][j]
        BY <1>1, <1>5, <4>1, <4>3
      <4>5. /\ SubSeq(mro'[s], i, Len(mro'[s])) \in Seq(Exists)
            /\ Len(SubSeq(mro'[s], i, Len(mro'[s]))) = k - i + 1 + Len(mro[base])
            /\ \A j \in 1..k - i + 1 + Len(mro[base]) :
                 SubSeq(mro'[s], i, Len(mro'[s]))[j] = mro'[s][i + j - 1]
        <5>1. i \in 1..Len(mro'[s]) /\ Len(mro[base]) \in Nat
              /\ Len(mro'[s]) - i + 1 = k - i + 1 + Len(mro[base])
          BY <1>2, <3>2
        <5>2. mro'[s] \in Seq(Exists)
          BY <3>2
        <5>3. /\ SubSeq(mro'[s], i, Len(mro'[s])) \in Seq(Exists)
              /\ Len(SubSeq(mro'[s], i, Len(mro'[s]))) = Len(mro'[s]) - i + 1
              /\ \A j \in 1..Len(mro'[s]) - i + 1 :
                   SubSeq(mro'[s], i, Len(mro'[s]))[j] = mro'[s][i + j - 1]
          BY <5>1, <5>2, Suffix, Zenon
        <5> QED
          BY <5>1, <5>3, Zenon
      <4>6. ASSUME NEW j \in 1..k - i + 1 + Len(mro[base])
            PROVE  mro'[a][j] = mro'[s][i + j - 1]
        <5>1. CASE j <= k - i + 1
          BY <1>2, <3>2, <4>3, <4>4, <5>1
        <5>2. CASE j > k - i + 1
          <6>1. j - (k - i + 1) \in 1..Len(mro[base])
            BY <1>2, <3>2, <5>2
          <6>2. mro'[a][(k - i + 1) + (j - (k - i + 1))] = mro[base][j - (k - i + 1)]
            BY <4>4, <6>1
          <6>3. mro'[s][k + (j - (k - i + 1))] = mro[base][j - (k - i + 1)]
            BY <3>2, <6>1
          <6>4. /\ (k - i + 1) + (j - (k - i + 1)) = j
                /\ k + (j - (k - i + 1)) = i + j - 1
            BY <1>2, <3>2
          <6> QED
            BY <6>2, <6>3, <6>4
        <5> QED
          BY <1>2, <3>2, <5>1, <5>2
      <4> QED
        BY <4>1, <4>4, <4>5, <4>6, SeqEqual
    <3>5. ASSUME NEW i \in 1..Len(mro[base])
          PROVE  mro'[mro'[s][k + i]] = SubSeq(mro'[s], k + i, Len(mro'[s]))
      <4> DEFINE a == mro[base][i]
      <4>1. a \in Exists /\ mro'[s][k + i] = a /\ a \in Range(mro[base])
        BY <1>2, <3>2 DEF Range
      <4>2. mro'[a] = SubSeq(mro[base], i, Len(mro[base]))
        <5>1. tp \notin Range(mro[a])
          BY <1>3, <4>1, Line
        <5>2. mro[a] = SubSeq(mro[base], i, Len(mro[base]))
          <6>1. i \in DOMAIN mro[base]
            BY <1>2
          <6> QED
            BY <6>1 DEF LinearMro
        <5> QED
          BY <1>4, <4>1, <5>1, <5>2
      <4>3. /\ SubSeq(mro[base], i, Len(mro[base])) \in Seq(Exists)
            /\ Len(SubSeq(mro[base], i, Len(mro[base]))) = Len(mro[base]) - i + 1
            /\ \A j \in 1..Len(mro[base]) - i + 1 :
                 SubSeq(mro[base], i, Len(mro[base]))[j] = mro[base][i + j - 1]
        BY <1>2
      <4>4. /\ SubSeq(mro'[s], k + i, Len(mro'[s])) \in Seq(Exists)
            /\ Len(SubSeq(mro'[s], k + i, Len(mro'[s]))) = Len(mro[base]) - i + 1
            /\ \A j \in 1..Len(mro[base]) - i + 1 :
                 SubSeq(mro'[s], k + i, Len(mro'[s]))[j] = mro'[s][k + i + j - 1]
        <5>1. k + i \in 1..Len(mro'[s]) /\ Len(mro[base]) \in Nat
              /\ Len(mro'[s]) - (k + i) + 1 = Len(mro[base]) - i + 1
          BY <1>2, <3>2
        <5> DEFINE q == mro'[s]
                   m == k + i
        <5>2. q \in Seq(Exists) /\ m \in 1..Len(q)
          BY <3>2, <5>1
        <5>3. Len(q) - m + 1 = Len(mro[base]) - i + 1
          BY <5>1
        <5> HIDE DEF q, m
        <5>4. /\ SubSeq(q, m, Len(q)) \in Seq(Exists)
              /\ Len(SubSeq(q, m, Len(q))) = Len(mro[base]) - i + 1
              /\ \A j \in 1..Len(mro[base]) - i + 1 : SubSeq(q, m, Len(q))[j] = q[m + j - 1]
          BY <5>2, <5>3, Suffix
        <5> QED
          BY <5>4 DEF q, m
      <4>5. ASSUME NEW j \in 1..Len(mro[base]) - i + 1
            PROVE  mro'[s][k + i + j - 1] = mro[base][i + j - 1]
        <5>1. i + j - 1 \in 1..Len(mro[base]) /\ k + (i + j - 1) = k + i + j - 1
          BY <1>2, <3>2
        <5> QED
          BY <3>2, <5>1
      <4> HIDE DEF a
      <4>6. SubSeq(mro'[s], k + i, Len(mro'[s])) = SubSeq(mro[base], i, Len(mro[base]))
        <5>1. \A j \in 1..Len(mro[base]) - i + 1 :
                SubSeq(mro'[s], k + i, Len(mro'[s]))[j]
                  = SubSeq(mro[base], i, Len(mro[base]))[j]
          BY <4>3, <4>4, <4>5
        <5> DEFINE q == SubSeq(mro'[s], k + i, Len(mro'[s]))
                   r == SubSeq(mro[base], i, Len(mro[base]))
        <5>2. /\ q \in Seq(Exists) /\ r \in Seq(Exists) /\ Len(q) = Len(r)
              /\ \A j \in 1..Len(q) : q[j] = r[j]
          BY <4>3, <4>4, <5>1
        <5> HIDE DEF q, r
        <5>3. q = r
          BY <5>2, SeqEqual
        <5> QED
          BY <5>3 DEF q, r
      <4> QED
        BY <4>1, <4>2, <4>6
    <3>6. ASSUME NEW i \in DOMAIN mro'[s]
          PROVE  i \in 1..k \/ \E j \in 1..Len(mro[base]) : i = k + j
      <4>1. i \in 1..k \/ (i - k \in 1..Len(mro[base]) /\ i = k + (i - k))
        BY <1>2, <3>2
      <4> QED
        BY <4>1
    <3> QED
      BY <3>3, <3>4, <3>5, <3>6
  <2> QED
    BY <2>2, <2>3
<1> QED
  BY <1>1, <1>4, <1>6, <1>7 DEF LinearMro

-----------------------------------------------------------------------------
(* Counting modifications that have not moved the epoch.                   *)

\* A modification that begins is one more to count.
LEMMA Begun ==
  ASSUME TypeOK, NEW t \in Thread, pc[t] # "modified",
         pc' = [pc EXCEPT ![t] = "modified"]
  PROVE  Cardinality(Uncounted') = Cardinality(Uncounted) + 1
<1>1. Uncounted' = Uncounted \cup {t} /\ t \notin Uncounted
  BY DEF Uncounted, TypeOK
<1>2. IsFiniteSet(Uncounted)
  BY TrampolineAssumption, FS_Subset DEF Uncounted
<1> QED
  BY <1>1, <1>2, FS_AddElement

\* One that moves the epoch is one less.
LEMMA Counted ==
  ASSUME TypeOK, NEW t \in Thread, pc[t] = "modified",
         pc' = [pc EXCEPT ![t] = "visit"]
  PROVE  /\ Cardinality(Uncounted) \in Nat \ {0}
         /\ Cardinality(Uncounted') = Cardinality(Uncounted) - 1
<1>1. Uncounted' = Uncounted \ {t} /\ t \in Uncounted
  BY DEF Uncounted, TypeOK
<1>2. IsFiniteSet(Uncounted)
  BY TrampolineAssumption, FS_Subset DEF Uncounted
<1> QED
  BY <1>1, <1>2, FS_RemoveElement, FS_CardinalityType, FS_EmptySet

\* Their number is a natural number.
LEMMA Number ==
  ASSUME TypeOK
  PROVE  Cardinality(Uncounted) \in Nat
  BY TrampolineAssumption, FS_Subset, FS_CardinalityType DEF Uncounted

-----------------------------------------------------------------------------
(* A call's own steps.                                                     *)

\* What a lookup answers.
LEMMA Answer ==
  ASSUME NEW line, NEW as, NEW n
  PROVE  Find(line, as, n) \in {None, "override", "no_override"}
  BY DEF Find, Classify

\* A step of a call that leaves tables, marks and types alone.
LEMMA CallFrame ==
  ASSUME IInv, UNCHANGED <<mro, attr, table, marked, epoch, todo, at>>,
         pc' \in [Thread -> Phases],
         \A w \in Thread :
           \/ pc'[w] = pc[w]
           \/ {pc[w], pc'[w]} \cap {"modified", "visit", "subclasses"} = {}
  PROVE  /\ LinearMro' /\ MarksClosed' /\ CacheRight'
         /\ Uncounted' = Uncounted
         /\ \A s : Ahead(s)' <=> Ahead(s)
         /\ \A s, m : Resolve(s, m)' = Resolve(s, m)
<1> USE DEF IInv, Exists
<1>1. \A w \in Thread :
        /\ pc'[w] = "modified" <=> pc[w] = "modified"
        /\ pc'[w] = "visit" <=> pc[w] = "visit"
        /\ pc'[w] = "subclasses" <=> pc[w] = "subclasses"
  OBVIOUS
<1>2. Uncounted' = Uncounted /\ \A s : Ahead(s)' <=> Ahead(s)
  BY <1>1 DEF Uncounted, Ahead
<1>3. \A s, m : Resolve(s, m)' = Resolve(s, m)
  BY DEF Resolve
<1>4. \A s : Reached(s)' <=> Reached(s)
  BY <1>1, <1>2 DEF Reached
<1>5. CacheRight'
  BY <1>3, <1>4 DEF CacheRight
<1> QED
  BY <1>2, <1>3, <1>5 DEF LinearMro, MarksClosed

\* IInv is preserved when a call reads the class of its object.
LEMMA EnterInv ==
  ASSUME IInv, NEW t \in Thread, NEW o \in Object, NEW n \in Name, Enter(t, o, n)
  PROVE  IInv'
<1> USE TrampolineAssumption
    DEF IInv, TypeOK, Phases, Enter, shared, call, walk, Goto, Set
<1>1. TypeOK'
  BY DEF Exists
<1>2. /\ LinearMro' /\ MarksClosed' /\ CacheRight' /\ Uncounted' = Uncounted
      /\ \A s : Ahead(s)' <=> Ahead(s)
      /\ \A s, m : Resolve(s, m)' = Resolve(s, m)
  BY CallFrame
<1>3. EpochBound'
  BY <1>2 DEF EpochBound
<1>4. Engaged'
  BY DEF Engaged, Exists
<1>5. MarkOrder'
  <2>1. \A u \in Thread : pc'[u] \in {"mark", "again", "lookup", "publish"} =>
          pc[u] = pc'[u] /\ td[u] = td'[u] /\ path'[u] = path[u]
    OBVIOUS
  <2>2. mro' = mro /\ marked' = marked
    OBVIOUS
  <2> QED
    BY <2>1, <2>2 DEF MarkOrder, Marking
<1>6. LookupRight'
  BY <1>2 DEF LookupRight
<1> QED
  BY <1>1, <1>2, <1>3, <1>4, <1>5, <1>6

\* IInv is preserved when a call probes the table of the class.
LEMMA ProbeInv ==
  ASSUME IInv, NEW t \in Thread, Probe(t)
  PROVE  IInv'
<1> USE TrampolineAssumption
    DEF IInv, TypeOK, Phases, Probe, shared, call, walk, Goto, Set
<1>1. TypeOK'
  <2>1. table[td[t]][name[t]] \in {None, "override", "no_override"}
    BY DEF Engaged
  <2> QED
    BY <2>1 DEF Exists
<1>2. /\ LinearMro' /\ MarksClosed' /\ CacheRight' /\ Uncounted' = Uncounted
      /\ \A s : Ahead(s)' <=> Ahead(s)
      /\ \A s, m : Resolve(s, m)' = Resolve(s, m)
  BY CallFrame
<1>3. EpochBound'
  BY <1>2 DEF EpochBound
<1>4. Engaged'
  BY DEF Engaged, Exists
<1>5. MarkOrder'
  <2>1. \A u \in Thread : pc'[u] \in {"mark", "again", "lookup", "publish"} =>
          pc[u] = pc'[u] /\ td[u] = td'[u] /\ path'[u] = path[u]
    OBVIOUS
  <2>2. mro' = mro /\ marked' = marked
    OBVIOUS
  <2> QED
    BY <2>1, <2>2 DEF MarkOrder, Marking
<1>6. LookupRight'
  BY <1>2 DEF LookupRight
<1> QED
  BY <1>1, <1>2, <1>3, <1>4, <1>5, <1>6

\* IInv is preserved when a call reads the class again.
LEMMA RereadInv ==
  ASSUME IInv, NEW t \in Thread, Reread(t)
  PROVE  IInv'
<1> USE TrampolineAssumption
    DEF IInv, TypeOK, Phases, Reread, shared, call, walk, Goto, Set
<1>1. TypeOK'
  <2>1. cls[self[t]] \in Exists
    BY DEF Engaged
  <2>2. path'[t] \in Seq(Exists) /\ path' = [path EXCEPT ![t] = path'[t]]
    BY <2>1
  <2>3. path' \in [Thread -> Seq(Exists)]
    BY <2>2
  <2> QED
    BY <2>1, <2>3 DEF Exists
<1>2. /\ LinearMro' /\ MarksClosed' /\ CacheRight' /\ Uncounted' = Uncounted
      /\ \A s : Ahead(s)' <=> Ahead(s)
      /\ \A s, m : Resolve(s, m)' = Resolve(s, m)
  BY CallFrame
<1>3. EpochBound'
  BY <1>2 DEF EpochBound
<1>4. Engaged'
  BY DEF Engaged, Exists
<1>5. MarkOrder'
  <2>1. \A u \in Thread \ {t} : pc[u] = pc'[u] /\ td[u] = td'[u] /\ path'[u] = path[u]
    OBVIOUS
  <2>2. mro' = mro /\ marked' = marked
    OBVIOUS
  <2>3. td'[t] \in marked' \cup Range(path'[t])
    BY Line DEF Engaged
  <2>5. \A i \in DOMAIN path'[t] : \A a \in Range(mro'[path'[t][i]]) :
          a \in marked' \/ \E j \in i..Len(path'[t]) : path'[t][j] = a
    <3> SUFFICES ASSUME NEW i \in DOMAIN path'[t], NEW a \in Range(mro'[path'[t][i]])
                 PROVE  a \in marked' \/ \E j \in i..Len(path'[t]) : path'[t][j] = a
      OBVIOUS
    <3>1. cls[self[t]] \in Exists /\ path'[t] = mro[cls[self[t]]]
      BY DEF Engaged, Exists
    <3>2. i \in DOMAIN mro[cls[self[t]]] /\ a \in Range(mro[mro[cls[self[t]]][i]])
      BY <2>2, <3>1
    <3>3. TypeOK /\ LinearMro
      OBVIOUS
    <3>4. \E j \in i..Len(mro[cls[self[t]]]) : mro[cls[self[t]]][j] = a
      <4> HIDE DEF IInv, TypeOK, Phases, Reread
      <4> QED
        BY <3>1, <3>2, <3>3, Above
    <3> QED
      BY <3>1, <3>4
  <2>6. pc'[t] = "mark"
    OBVIOUS
  <2> SUFFICES ASSUME NEW u \in Thread
               PROVE  Marking(u)'
    BY DEF MarkOrder
  <2>7. CASE u = t
    BY <2>3, <2>5, <2>6, <2>7 DEF Marking
  <2>8. CASE u # t
    BY <2>1, <2>2, <2>8 DEF MarkOrder, Marking
  <2> QED
    BY <2>7, <2>8
<1>6. LookupRight'
  BY <1>2 DEF LookupRight
<1> QED
  BY <1>1, <1>2, <1>3, <1>4, <1>5, <1>6

\* IInv is preserved when a call reads the epoch.
LEMMA ReadEpochInv ==
  ASSUME IInv, NEW t \in Thread, ReadEpoch(t)
  PROVE  IInv'
<1> USE TrampolineAssumption
    DEF IInv, TypeOK, Phases, ReadEpoch, shared, call, walk, Goto, Set
<1>1. TypeOK'
  BY DEF Exists
<1>2. /\ LinearMro' /\ MarksClosed' /\ CacheRight' /\ Uncounted' = Uncounted
      /\ \A s : Ahead(s)' <=> Ahead(s)
      /\ \A s, m : Resolve(s, m)' = Resolve(s, m)
  BY CallFrame
<1>3. EpochBound'
  BY <1>2 DEF EpochBound
<1>4. Engaged'
  BY DEF Engaged, Exists
<1>5. MarkOrder'
  <2>1. \A u \in Thread \ {t} : pc[u] = pc'[u] /\ td[u] = td'[u] /\ path'[u] = path[u]
    OBVIOUS
  <2>2. mro' = mro /\ marked' = marked /\ pc'[t] = "again"
    OBVIOUS
  <2>3. td'[t] \in marked'
    BY DEF MarkOrder, Marking, Range
  <2> QED
    BY <2>1, <2>2, <2>3 DEF MarkOrder, Marking
<1>6. LookupRight'
  BY <1>2 DEF LookupRight
<1> QED
  BY <1>1, <1>2, <1>3, <1>4, <1>5, <1>6

\* IInv is preserved when a call probes the table of the marked class.
LEMMA ProbeAgainInv ==
  ASSUME IInv, NEW t \in Thread, ProbeAgain(t)
  PROVE  IInv'
<1> USE TrampolineAssumption
    DEF IInv, TypeOK, Phases, ProbeAgain, shared, call, walk, Goto, Set
<1>1. TypeOK'
  <2>1. table[td[t]][name[t]] \in {None, "override", "no_override"}
    BY DEF Engaged
  <2>2. path'[t] \in Seq(Exists) /\ path' = [path EXCEPT ![t] = path'[t]]
    BY DEF Engaged
  <2>3. path' \in [Thread -> Seq(Exists)]
    BY <2>2
  <2> QED
    BY <2>1, <2>3 DEF Exists
<1>2. /\ LinearMro' /\ MarksClosed' /\ CacheRight' /\ Uncounted' = Uncounted
      /\ \A s : Ahead(s)' <=> Ahead(s)
      /\ \A s, m : Resolve(s, m)' = Resolve(s, m)
  BY CallFrame
<1>3. EpochBound'
  BY <1>2 DEF EpochBound
<1>4. Engaged'
  BY DEF Engaged, Exists
<1>5. MarkOrder'
  <2>1. \A u \in Thread \ {t} : pc[u] = pc'[u] /\ td[u] = td'[u] /\ path'[u] = path[u]
    OBVIOUS
  <2>2. /\ mro' = mro /\ marked' = marked /\ td'[t] = td[t] /\ pc[t] = "again"
        /\ pc'[t] \in {"lookup", "return"}
    OBVIOUS
  <2> QED
    BY <2>1, <2>2 DEF MarkOrder, Marking
<1>6. LookupRight'
  <2>1. \A u \in Thread : pc'[u] = "publish" => pc[u] = "publish" /\ u # t
    OBVIOUS
  <2>2. ASSUME NEW u \in Thread \ {t} 
        PROVE  /\ pc'[u] = pc[u] /\ seenEpoch'[u] = seenEpoch[u] /\ td'[u] = td[u]
               /\ name'[u] = name[u] /\ value'[u] = value[u] /\ path'[u] = path[u]
    OBVIOUS
  <2>3. pc'[t] = "lookup" => path'[t] = mro[td[t]]
    OBVIOUS
  <2>4. Resolve(td[t], name[t]) = Find(mro[td[t]], attr, name[t])
    BY DEF Resolve
  <2>5. td' = td /\ name' = name /\ attr' = attr /\ epoch' = epoch
    OBVIOUS
  <2> QED
    BY <1>2, <2>1, <2>2, <2>3, <2>4, <2>5 DEF LookupRight
<1> QED
  BY <1>1, <1>2, <1>3, <1>4, <1>5, <1>6

\* IInv is preserved when a call looks the name up atomically.
LEMMA LookupInv ==
  ASSUME IInv, NEW t \in Thread, Lookup(t)
  PROVE  IInv'
<1> USE TrampolineAssumption
    DEF IInv, TypeOK, Phases, Lookup, shared, call, walk, Goto, Set
<1>1. TypeOK'
  <2>1. Resolve(td[t], name[t]) \in {None, "override", "no_override"}
    BY Answer DEF Resolve
  <2> QED
    BY <2>1 DEF Exists
<1>2. /\ LinearMro' /\ MarksClosed' /\ CacheRight' /\ Uncounted' = Uncounted
      /\ \A s : Ahead(s)' <=> Ahead(s)
      /\ \A s, m : Resolve(s, m)' = Resolve(s, m)
  BY CallFrame
<1>3. EpochBound'
  BY <1>2 DEF EpochBound
<1>4. Engaged'
  BY DEF Engaged, Exists
<1>5. MarkOrder'
  <2>1. \A u \in Thread \ {t} : pc[u] = pc'[u] /\ td[u] = td'[u] /\ path'[u] = path[u]
    OBVIOUS
  <2>2. /\ mro' = mro /\ marked' = marked /\ td'[t] = td[t] /\ pc[t] = "lookup"
        /\ pc'[t] \in {"lookup", "publish", "return"}
        /\ pc'[t] = "publish" => path'[t] = <<>>
    OBVIOUS
  <2> QED
    BY <2>1, <2>2 DEF MarkOrder, Marking
<1>6. LookupRight'
  BY <1>2 DEF LookupRight
<1> QED
  BY <1>1, <1>2, <1>3, <1>4, <1>5, <1>6

\* IInv is preserved when a call looks the name up in one namespace.
LEMMA LookupNextInv ==
  ASSUME IInv, NEW t \in Thread, LookupNext(t)
  PROVE  IInv'
<1> USE TrampolineAssumption
    DEF IInv, TypeOK, Phases, LookupNext, shared, call, walk, Goto, Set
<1>1. TypeOK'
  <2>1. \A a : Classify(a) \in {None, "override", "no_override"}
    BY DEF Classify
  <2>2. path'[t] \in Seq(Exists) /\ path' = [path EXCEPT ![t] = path'[t]]
    OBVIOUS
  <2>3. path' \in [Thread -> Seq(Exists)]
    BY <2>2
  <2> QED
    BY <2>1, <2>3 DEF Exists
<1>2. /\ LinearMro' /\ MarksClosed' /\ CacheRight' /\ Uncounted' = Uncounted
      /\ \A s : Ahead(s)' <=> Ahead(s)
      /\ \A s, m : Resolve(s, m)' = Resolve(s, m)
  BY CallFrame
<1>3. EpochBound'
  BY <1>2 DEF EpochBound
<1>4. Engaged'
  BY DEF Engaged, Exists
<1>5. MarkOrder'
  <2>1. \A u \in Thread \ {t} : pc[u] = pc'[u] /\ td[u] = td'[u] /\ path'[u] = path[u]
    OBVIOUS
  <2>2. /\ mro' = mro /\ marked' = marked /\ td'[t] = td[t] /\ pc[t] = "lookup"
        /\ pc'[t] \in {"lookup", "publish", "return"}
        /\ pc'[t] = "publish" => path'[t] = <<>>
    OBVIOUS
  <2> QED
    BY <2>1, <2>2 DEF MarkOrder, Marking
<1>6. LookupRight'
  <2>1. ASSUME NEW u \in Thread \ {t}
        PROVE  /\ pc'[u] = pc[u] /\ seenEpoch'[u] = seenEpoch[u] /\ td'[u] = td[u]
               /\ name'[u] = name[u] /\ value'[u] = value[u] /\ path'[u] = path[u]
    OBVIOUS
  <2>2. /\ td' = td /\ name' = name /\ attr' = attr /\ epoch' = epoch
        /\ seenEpoch' = seenEpoch /\ pc[t] = "lookup"
    OBVIOUS
  <2>3. /\ pc'[t] = "publish" => value'[t] = Find(path[t], attr, name[t])
        /\ pc'[t] = "lookup" =>
             /\ Find(path'[t], attr, name[t]) = Find(path[t], attr, name[t])
             /\ Range(path'[t]) \subseteq Range(path[t])
    <3>1. CASE path[t] = <<>>
      BY <3>1
    <3>2. CASE path[t] # <<>>
      <4>1. path[t] \in Seq(Exists)
        OBVIOUS
      <4>2. Find(path[t], attr, name[t])
              = IF attr[Head(path[t])][name[t]] # None
                  THEN Classify(attr[Head(path[t])][name[t]])
                  ELSE Find(Tail(path[t]), attr, name[t])
        BY <3>2, <4>1, NextFind
      <4>3. Range(Tail(path[t])) \subseteq Range(path[t])
        BY <3>2, <4>1 DEF Range
      <4> QED
        BY <3>2, <4>2, <4>3
    <3> QED
      BY <3>1, <3>2
  <2> QED
    <3>1. mro' = mro
      OBVIOUS
    <3> SUFFICES ASSUME NEW u \in Thread, pc'[u] \in {"lookup", "publish"},
                        seenEpoch[u] = epoch, ~Ahead(td[u])
                 PROVE  /\ pc'[u] = "publish" => Resolve(td[u], name[u]) = value'[u]
                        /\ pc'[u] = "lookup" =>
                             /\ Resolve(td[u], name[u]) = Find(path'[u], attr, name[u])
                             /\ Range(path'[u]) \subseteq Range(mro[td[u]])
      BY <1>2, <2>2, <3>1 DEF LookupRight
    <3>2. CASE u = t
      <4>1. /\ Resolve(td[t], name[t]) = Find(path[t], attr, name[t])
            /\ Range(path[t]) \subseteq Range(mro[td[t]])
        BY <2>2, <3>2 DEF LookupRight
      <4> QED
        BY <2>3, <3>2, <4>1
    <3>3. CASE u # t
      BY <2>1, <3>3 DEF LookupRight
    <3> QED
      BY <3>2, <3>3
<1> QED
  BY <1>1, <1>2, <1>3, <1>4, <1>5, <1>6

\* IInv is preserved when a call uses the answer.
LEMMA ReturnInv ==
  ASSUME IInv, NEW t \in Thread, Return(t)
  PROVE  IInv'
<1> USE TrampolineAssumption
    DEF IInv, TypeOK, Phases, Return, shared, call, walk, Goto, Set
<1>1. TypeOK'
  BY DEF Exists
<1>2. /\ LinearMro' /\ MarksClosed' /\ CacheRight' /\ Uncounted' = Uncounted
      /\ \A s : Ahead(s)' <=> Ahead(s)
      /\ \A s, m : Resolve(s, m)' = Resolve(s, m)
  BY CallFrame
<1>3. EpochBound'
  BY <1>2 DEF EpochBound
<1>4. Engaged'
  BY DEF Engaged, Exists
<1>5. MarkOrder'
  <2>1. \A u \in Thread : pc'[u] \in {"mark", "again", "lookup", "publish"} =>
          pc[u] = pc'[u] /\ td[u] = td'[u] /\ path'[u] = path[u]
    OBVIOUS
  <2>2. mro' = mro /\ marked' = marked
    OBVIOUS
  <2> QED
    BY <2>1, <2>2 DEF MarkOrder, Marking
<1>6. LookupRight'
  BY <1>2 DEF LookupRight
<1> QED
  BY <1>1, <1>2, <1>3, <1>4, <1>5, <1>6

\* IInv is preserved when an object gets another class.
LEMMA SetClassInv ==
  ASSUME IInv, NEW t \in Thread, NEW o \in Object, NEW tp \in Type, Tame, SetClass(t, o, tp)
  PROVE  IInv'
<1> USE TrampolineAssumption
    DEF IInv, TypeOK, Phases, SetClass, shared, call, walk, Goto, Set
<1>1. TypeOK'
  BY DEF Exists
<1>2. /\ LinearMro' /\ MarksClosed' /\ CacheRight' /\ Uncounted' = Uncounted
      /\ \A s : Ahead(s)' <=> Ahead(s)
      /\ \A s, m : Resolve(s, m)' = Resolve(s, m)
  BY CallFrame
<1>3. EpochBound'
  BY <1>2 DEF EpochBound
<1>4. Engaged'
  BY DEF Engaged, Exists, Tame
<1>5. MarkOrder'
  <2>1. \A u \in Thread : pc'[u] \in {"mark", "again", "lookup", "publish"} =>
          pc[u] = pc'[u] /\ td[u] = td'[u] /\ path'[u] = path[u]
    OBVIOUS
  <2>2. mro' = mro /\ marked' = marked
    OBVIOUS
  <2> QED
    BY <2>1, <2>2 DEF MarkOrder, Marking
<1>6. LookupRight'
  BY <1>2 DEF LookupRight
<1> QED
  BY <1>1, <1>2, <1>3, <1>4, <1>5, <1>6

-----------------------------------------------------------------------------
(* Marks, publications and walks.                                          *)

\* The last type of an MRO and those before it.
LEMMA FrontOf ==
  ASSUME NEW S, NEW q \in Seq(S), q # <<>>
  PROVE  /\ Len(q) \in Nat \ {0} /\ Last(q) \in S /\ q[Len(q)] = Last(q)
         /\ Front(q) \in Seq(S) /\ Len(Front(q)) = Len(q) - 1
         /\ DOMAIN Front(q) = 1..Len(q) - 1 /\ DOMAIN q = 1..Len(q)
         /\ \A i \in 1..Len(q) - 1 : Front(q)[i] = q[i]
<1>1. Len(q) \in Nat \ {0} /\ DOMAIN q = 1..Len(q) /\ q[Len(q)] \in S
  OBVIOUS
<1>2. \A i \in 1..Len(q) - 1 : q[i] \in S
  OBVIOUS
<1>3. /\ SubSeq(q, 1, Len(q) - 1) \in Seq(S)
      /\ Len(SubSeq(q, 1, Len(q) - 1)) = Len(q) - 1
      /\ \A i \in 1..Len(q) - 1 : SubSeq(q, 1, Len(q) - 1)[i] = q[i]
  BY <1>1, <1>2
<1>4. DOMAIN SubSeq(q, 1, Len(q) - 1) = 1..Len(q) - 1
  BY <1>3
<1> QED
  BY <1>1, <1>3, <1>4 DEF Last, Front

\* IInv is preserved when a call marks a class of the MRO.
LEMMA MarkInv ==
  ASSUME IInv, NEW t \in Thread, Mark(t)
  PROVE  IInv'
<1> DEFINE b == Last(path[t])
<1> USE TrampolineAssumption DEF IInv, TypeOK, Phases, Mark, call, walk
<1>0. /\ path[t] \in Seq(Exists) /\ Len(path[t]) \in Nat \ {0}
      /\ path[t][Len(path[t])] = b /\ b \in Exists
      /\ Front(path[t]) \in Seq(Exists) /\ Len(Front(path[t])) = Len(path[t]) - 1
      /\ DOMAIN Front(path[t]) = 1..Len(path[t]) - 1
      /\ DOMAIN path[t] = 1..Len(path[t])
      /\ \A i \in 1..Len(path[t]) - 1 : Front(path[t])[i] = path[t][i]
  <2>1. path[t] \in Seq(Exists) /\ path[t] # <<>>
    OBVIOUS
  <2> QED
    BY <2>1, FrontOf
<1> HIDE DEF b
<1>1. TypeOK'
  <2>1. path' \in [Thread -> Seq(Exists)]
    BY <1>0 DEF Set
  <2>2. marked' \subseteq Exists
    BY <1>0 DEF b
  <2> QED
    BY <2>1, <2>2 DEF Exists
<1>2. LinearMro' /\ EpochBound' /\ Engaged'
  <2>1. LinearMro'
    BY DEF LinearMro, Exists
  <2>2. EpochBound'
    BY DEF EpochBound, Uncounted
  <2>3. Engaged'
    BY DEF Engaged, Exists
  <2> QED
    BY <2>1, <2>2, <2>3
<1>3. marked' = marked \cup {b} /\ mro' = mro
  BY DEF b
<1>4. Range(mro[b]) \subseteq marked'
  <2>1. Len(path[t]) \in DOMAIN path[t]
    BY <1>0
  <2>2. ASSUME NEW a \in Range(mro[b])
        PROVE  a \in marked \/ \E j \in Len(path[t])..Len(path[t]) : path[t][j] = a
    <3>1. Marking(t) /\ pc[t] = "mark"
      BY DEF MarkOrder
    <3>2. a \in Range(mro[path[t][Len(path[t])]])
      BY <1>0, <2>2
    <3> QED
      BY <2>1, <3>1, <3>2 DEF Marking
  <2> QED
    BY <1>0, <1>3, <2>2
<1>5. MarksClosed'
  <2>1. ASSUME NEW s \in Exists, NEW i \in DOMAIN mro[s],
               s \in marked' \/ \E n \in Name : table[s][n] # None
        PROVE  mro[s][i] \in marked'
    <3>1. CASE s = b
      BY <1>4, <3>1 DEF Range
    <3>2. CASE s # b
      BY <1>3, <2>1, <3>2 DEF MarksClosed
    <3> QED
      BY <3>1, <3>2
  <2> QED
    BY <1>3, <2>1 DEF MarksClosed, Exists
<1>6. MarkOrder'
  <2> SUFFICES ASSUME NEW u \in Thread
               PROVE  Marking(u)'
    BY DEF MarkOrder
  <2>1. Marking(u)
    BY DEF MarkOrder
  <2>2. CASE u # t
    <3>1. pc'[u] = pc[u] /\ td'[u] = td[u] /\ path'[u] = path[u]
      BY <2>2 DEF Set
    <3> QED
      BY <1>3, <2>1, <3>1 DEF Marking
  <2>3. CASE u = t
    <3>1. pc'[t] = "mark" /\ td'[t] = td[t] /\ path'[t] = Front(path[t])
      BY DEF Set
    <3>2. td[t] \in marked' \cup Range(Front(path[t]))
      <4>1. td[t] \in marked \cup Range(path[t])
        BY <2>1, <2>3 DEF Marking
      <4>2. ASSUME NEW i \in DOMAIN path[t]
            PROVE  path[t][i] \in marked' \cup Range(Front(path[t]))
        <5>1. CASE i = Len(path[t])
          BY <1>0, <1>3, <5>1
        <5>2. CASE i # Len(path[t])
          <6>0. i \in 1..Len(path[t]) - 1
            BY <1>0, <5>2
          <6>1. i \in DOMAIN Front(path[t]) /\ Front(path[t])[i] = path[t][i]
            BY <1>0, <6>0
          <6> QED
            BY <6>1 DEF Range
        <5> QED
          BY <5>1, <5>2
      <4> QED
        BY <1>3, <4>1, <4>2 DEF Range
    <3>3. ASSUME NEW i \in DOMAIN Front(path[t]), NEW a \in Range(mro[Front(path[t])[i]])
          PROVE  a \in marked' \/ \E j \in i..Len(Front(path[t])) : Front(path[t])[j] = a
      <4>1. i \in DOMAIN path[t] /\ Front(path[t])[i] = path[t][i] /\ i \in Nat \ {0}
        <5>1. i \in 1..Len(path[t]) - 1
          BY <1>0
        <5>2. i \in 1..Len(path[t]) /\ i \in Nat \ {0}
          BY <1>0, <5>1
        <5> QED
          BY <1>0, <5>1, <5>2
      <4>2. a \in marked \/ \E j \in i..Len(path[t]) : path[t][j] = a
        BY <2>1, <2>3, <4>1 DEF Marking
      <4>3. ASSUME NEW j \in i..Len(path[t]), path[t][j] = a
            PROVE  a = b \/ (j \in i..Len(Front(path[t])) /\ Front(path[t])[j] = a)
        <5>1. j \in Nat /\ j <= Len(path[t]) /\ i <= j
          BY <1>0, <4>1
        <5>4. i \in Nat \ {0} /\ Len(path[t]) \in Nat
          BY <1>0, <4>1
        <5>2. CASE j = Len(path[t])
          BY <1>0, <4>3, <5>2
        <5>3. CASE j # Len(path[t])
          <6>1. j \in 1..Len(path[t]) - 1 /\ j \in i..Len(path[t]) - 1
            BY <5>1, <5>3, <5>4
          <6> QED
            BY <1>0, <4>3, <6>1
        <5> QED
          BY <5>2, <5>3
      <4> QED
        BY <1>3, <4>2, <4>3
    <3> QED
      BY <1>3, <2>3, <3>1, <3>2, <3>3 DEF Marking
  <2> QED
    BY <2>2, <2>3
<1>7. CacheRight'
  BY DEF CacheRight, Reached, Ahead, Resolve, Exists
<1>8. LookupRight'
  <2>1. \A u \in Thread : pc[u] \in {"lookup", "publish"} => path'[u] = path[u]
    BY DEF Set
  <2>2. \A s : Ahead(s)' <=> Ahead(s)
    BY DEF Ahead
  <2> QED
    BY <2>1, <2>2 DEF LookupRight, Resolve
<1> QED
  BY <1>1, <1>2, <1>5, <1>6, <1>7, <1>8

\* IInv is preserved when a call publishes its answer or starts again.
LEMMA PublishInv ==
  ASSUME IInv, NEW t \in Thread, Publish(t)
  PROVE  IInv'
<1> USE TrampolineAssumption DEF IInv, TypeOK, Phases
<1>0. /\ pc[t] = "publish" /\ td[t] \in Exists /\ name[t] \in Name /\ td[t] \in marked
      /\ path[t] = <<>>
  BY DEF Publish, Engaged, MarkOrder, Marking
<1>1. /\ mro' = mro /\ attr' = attr /\ epoch' = epoch /\ cls' = cls /\ marked' = marked
      /\ self' = self /\ name' = name /\ td' = td /\ seenEpoch' = seenEpoch
      /\ path' = path /\ todo' = todo /\ at' = at
      /\ value' \in [Thread -> {None, "override", "no_override"}]
      /\ pc' \in [Thread -> Phases] /\ pc'[t] \in {"return", "mark"}
      /\ \A u \in Thread \ {t} : pc'[u] = pc[u] /\ value'[u] = value[u]
  <2>1. CASE seenEpoch[t] = epoch
    <3>1. marked \cup {td[t]} = marked
      BY <1>0
    <3>2. marked' = marked /\ value' = value /\ pc' = [pc EXCEPT ![t] = "return"]
      BY <2>1, <3>1 DEF Publish, Goto
    <3> QED
      BY <3>2 DEF Publish, walk
  <2>2. CASE seenEpoch[t] # epoch
    BY <1>0, <2>2 DEF Publish, walk, Goto, Set
  <2> QED
    BY <2>1, <2>2
<1>2. /\ table' \in [Exists -> [Name -> {None, "override", "no_override"}]]
      /\ \A s \in Exists, m \in Name :
           \/ table'[s][m] = table[s][m]
           \/ s = td[t] /\ m = name[t] /\ table'[s][m] = value[t] /\ seenEpoch[t] = epoch
  <2>1. CASE table' = table
    BY <2>1
  <2>2. CASE /\ seenEpoch[t] = epoch
             /\ table' = [table EXCEPT ![td[t]][name[t]] = value[t]]
    BY <1>0, <2>2
  <2> QED
    BY <2>1, <2>2 DEF Publish
<1>3. TypeOK'
  BY <1>1, <1>2 DEF Exists
<1>4. /\ Uncounted' = Uncounted
      /\ \A s : Ahead(s)' <=> Ahead(s)
      /\ \A s : Reached(s)' <=> Reached(s)
      /\ \A s, m : Resolve(s, m)' = Resolve(s, m)
  <2>1. \A u \in Thread :
          /\ pc'[u] = "modified" <=> pc[u] = "modified"
          /\ pc'[u] = "visit" <=> pc[u] = "visit"
          /\ pc'[u] = "subclasses" <=> pc[u] = "subclasses"
    BY <1>0, <1>1
  <2>2. Uncounted' = Uncounted /\ \A s : Ahead(s)' <=> Ahead(s)
    BY <1>1, <2>1 DEF Uncounted, Ahead
  <2> QED
    BY <1>1, <2>1, <2>2 DEF Reached, Resolve
<1>5. MarksClosed'
  <2>1. \A s \in Exists : (\E m \in Name : table'[s][m] # None) =>
          s \in marked \/ \E m \in Name : table[s][m] # None
    <3> SUFFICES ASSUME NEW s \in Exists, NEW m \in Name, table'[s][m] # None
                 PROVE  s \in marked \/ table[s][m] # None
      OBVIOUS
    <3>1. table'[s][m] = table[s][m] \/ s = td[t]
      BY <1>2
    <3> QED
      BY <1>0, <3>1
  <2> QED
    BY <1>1, <2>1 DEF MarksClosed, Exists
<1>6. LinearMro' /\ EpochBound' /\ Engaged'
  <2>1. LinearMro'
    BY <1>1 DEF LinearMro, Exists
  <2>2. EpochBound'
    BY <1>1, <1>4 DEF EpochBound
  <2>3. Engaged'
    BY <1>0, <1>1 DEF Engaged, Exists
  <2> QED
    BY <2>1, <2>2, <2>3
<1>8. MarkOrder'
  <2> SUFFICES ASSUME NEW u \in Thread
               PROVE  Marking(u)'
    BY DEF MarkOrder
  <2>1. CASE u # t
    BY <1>1, <2>1 DEF MarkOrder, Marking
  <2>2. CASE u = t
    BY <1>0, <1>1, <2>2 DEF Marking
  <2> QED
    BY <2>1, <2>2
<1>7. CacheRight'
  <2> SUFFICES ASSUME NEW s \in Exists, NEW m \in Name
               PROVE  table'[s][m] \in {None, Resolve(s, m)} \/ Reached(s)
    BY <1>1, <1>4 DEF CacheRight, Exists
  <2>1. CASE table'[s][m] = table[s][m]
    BY <2>1 DEF CacheRight
  <2>2. CASE table'[s][m] # table[s][m]
    <3>1. s = td[t] /\ m = name[t] /\ table'[s][m] = value[t] /\ seenEpoch[t] = epoch
      BY <1>2, <2>2
    <3>2. Ahead(s) \/ Resolve(s, m) = value[t]
      BY <1>0, <3>1 DEF LookupRight
    <3> QED
      BY <3>1, <3>2 DEF Reached
  <2> QED
    BY <2>1, <2>2
<1>9. LookupRight'
  <2>1. \A u \in Thread : pc'[u] \in {"lookup", "publish"} =>
          u # t /\ pc'[u] = pc[u] /\ value'[u] = value[u]
    BY <1>1
  <2> QED
    BY <1>1, <1>4, <2>1 DEF LookupRight
<1> QED
  BY <1>3, <1>5, <1>6, <1>7, <1>8, <1>9

\* A step of a walk changes neither types nor marks nor calls.
LEMMA WalkFrame ==
  ASSUME IInv, UNCHANGED <<mro, attr, cls, marked, self, name, td, seenEpoch, value, path>>,
         pc' \in [Thread -> Phases], at' \in [Thread -> Exists \cup {None}],
         \A w \in Thread :
           \/ pc'[w] = pc[w] /\ at'[w] = at[w]
           \/ /\ pc[w] \in {"modified", "visit", "subclasses"}
              /\ pc'[w] \in {"visit", "subclasses", "idle"}
              /\ pc'[w] = "subclasses" => at'[w] # None
  PROVE  /\ LinearMro' /\ Engaged' /\ MarkOrder'
         /\ \A s, m : Resolve(s, m)' = Resolve(s, m)
<1> USE DEF IInv
<1>1. \A w \in Thread :
        pc'[w] \in {"probe", "attached", "mark", "again", "lookup", "publish"} =>
          pc[w] = pc'[w]
  OBVIOUS
<1>2. \A w \in Thread : pc'[w] \in {"modified", "subclasses"} => at'[w] \in Exists
  BY TrampolineAssumption DEF Engaged, TypeOK
<1>3. LinearMro'
  BY DEF LinearMro, Exists
<1>4. Engaged'
  BY <1>1, <1>2 DEF Engaged, Exists
<1>5. MarkOrder'
  BY <1>1 DEF MarkOrder, Marking
<1> QED
  BY <1>3, <1>4, <1>5 DEF Resolve

\* IInv is preserved when a modification moves the epoch.
LEMMA EpochIncInv ==
  ASSUME IInv, NEW t \in Thread, EpochInc(t)
  PROVE  IInv'
<1> USE TrampolineAssumption DEF IInv
<1>0. /\ pc[t] = "modified" /\ at[t] \in Exists /\ pc' = [pc EXCEPT ![t] = "visit"]
      /\ todo' = [todo EXCEPT ![t] = {at[t]}] /\ at' = [at EXCEPT ![t] = None]
      /\ epoch' = epoch + 1
      /\ UNCHANGED <<mro, attr, cls, table, marked, self, name, td, seenEpoch, value, path>>
  BY DEF EpochInc, Engaged, call, Goto, Set
<1>1. /\ Cardinality(Uncounted) \in Nat \ {0}
      /\ Cardinality(Uncounted') = Cardinality(Uncounted) - 1
  BY <1>0, Counted
<1>2. EpochBound' /\ epoch' \in 0..MaxMods
  BY <1>0, <1>1 DEF EpochBound, TypeOK
<1>3. TypeOK'
  BY <1>0, <1>2 DEF TypeOK, Phases, Exists
<1>4. LinearMro' /\ Engaged' /\ MarkOrder' /\ \A s, m : Resolve(s, m)' = Resolve(s, m)
  <2>1. pc' \in [Thread -> Phases] /\ at' \in [Thread -> Exists \cup {None}]
    BY <1>0 DEF TypeOK, Phases
  <2>2. \A w \in Thread :
           \/ pc'[w] = pc[w] /\ at'[w] = at[w]
           \/ pc[w] = "modified" /\ pc'[w] = "visit"
    BY <1>0 DEF TypeOK
  <2> QED
    BY <1>0, <2>1, <2>2, WalkFrame
<1>5. MarksClosed'
  BY <1>0 DEF MarksClosed, Exists
<1>6. CacheRight'
  <2>1. ASSUME NEW s, Reached(s)
        PROVE  Reached(s)'
    <3>1. CASE at[t] \in Range(mro[s])
      BY <1>0, <3>1 DEF Reached, TypeOK
    <3>2. CASE at[t] \notin Range(mro[s])
      BY <1>0, <2>1, <3>2 DEF Reached, Ahead, TypeOK
    <3> QED
      BY <3>1, <3>2
  <2> QED
    BY <1>0, <1>4, <2>1 DEF CacheRight, Exists
<1>7. LookupRight'
  <2>1. \A u \in Thread : seenEpoch'[u] # epoch'
    BY <1>0 DEF EpochBound, TypeOK
  <2> QED
    BY <2>1 DEF LookupRight
<1> QED
  BY <1>2, <1>3, <1>4, <1>5, <1>6, <1>7

\* IInv is preserved when a walk visits a type.
LEMMA VisitInv ==
  ASSUME IInv, NEW t \in Thread, NEW tp \in Type, Visit(t, tp)
  PROVE  IInv'
<1> USE TrampolineAssumption DEF IInv
<1>0. /\ pc[t] = "visit" /\ tp \in todo[t] /\ tp \in Exists
      /\ todo' = [todo EXCEPT ![t] = todo[t] \ {tp}]
      /\ UNCHANGED <<mro, attr, cls, marked, epoch, self, name, td, seenEpoch, value, path>>
  BY DEF Visit, call, Set, TypeOK
<1>1. \/ tp \notin marked /\ UNCHANGED <<table, at, pc>>
      \/ /\ tp \in marked
         /\ table' = [table EXCEPT ![tp] = Unresolved]
         /\ at' = [at EXCEPT ![t] = tp] /\ pc' = [pc EXCEPT ![t] = "subclasses"]
  BY DEF Visit, Goto, Set
<1>2. /\ \A w \in Thread : pc'[w] = "modified" => pc[w] = "modified" /\ at'[w] = at[w]
      /\ \A w \in Thread : pc[w] = "modified" => pc'[w] = "modified" /\ at'[w] = at[w]
  BY <1>0, <1>1 DEF TypeOK
<1>3. Uncounted' = Uncounted /\ \A s : Ahead(s)' <=> Ahead(s)
  BY <1>0, <1>2 DEF Uncounted, Ahead
<1>11. /\ pc' \in [Thread -> Phases] /\ at' \in [Thread -> Exists \cup {None}]
       /\ table' \in [Exists -> [Name -> {None, "override", "no_override"}]]
  <2>1. CASE tp \notin marked /\ UNCHANGED <<table, at, pc>>
    BY <2>1 DEF TypeOK
  <2>2. CASE /\ table' = [table EXCEPT ![tp] = Unresolved]
             /\ at' = [at EXCEPT ![t] = tp] /\ pc' = [pc EXCEPT ![t] = "subclasses"]
    <3>1. Unresolved \in [Name -> {None, "override", "no_override"}]
      BY DEF Unresolved
    <3> QED
      BY <1>0, <2>2, <3>1 DEF TypeOK, Phases
  <2> QED
    BY <1>1, <2>1, <2>2
<1>4. TypeOK'
  BY <1>0, <1>11 DEF TypeOK, Exists
<1>5. LinearMro' /\ Engaged' /\ MarkOrder' /\ \A s, m : Resolve(s, m)' = Resolve(s, m)
  <2>2. \A w \in Thread :
           \/ pc'[w] = pc[w] /\ at'[w] = at[w]
           \/ pc[w] = "visit" /\ pc'[w] = "subclasses" /\ at'[w] # None
    BY <1>0, <1>1 DEF TypeOK
  <2> QED
    BY <1>0, <1>11, <2>2, WalkFrame
<1>6. \A s \in Exists, m \in Name :
        table'[s][m] = table[s][m] \/ (s = tp /\ table'[s][m] = None)
  BY <1>0, <1>1 DEF TypeOK, Unresolved
<1>7. MarksClosed'
  <2>1. \A s \in Exists :
          (\E m \in Name : table'[s][m] # None) => \E m \in Name : table[s][m] # None
    BY <1>6
  <2> QED
    BY <1>0, <2>1 DEF MarksClosed, Exists
<1>8. EpochBound'
  BY <1>0, <1>3 DEF EpochBound
<1>9. CacheRight'
  <2> SUFFICES ASSUME NEW s \in Exists, NEW m \in Name,
                      table'[s][m] = table[s][m], table[s][m] # None, Reached(s)
               PROVE  Reached(s)' \/ table'[s][m] = None
    <3>1. ASSUME NEW s \in Exists, NEW m \in Name
          PROVE  \/ table'[s][m] = None \/ table[s][m] = Resolve(s, m)
                 \/ table'[s][m] = table[s][m] /\ Reached(s)
      BY <1>6 DEF CacheRight
    <3>2. Exists' = Exists
      BY <1>0 DEF Exists
    <3>3. ASSUME NEW s \in Exists, NEW m \in Name, table'[s][m] \notin {None, Resolve(s, m)}
          PROVE  table'[s][m] = table[s][m] /\ table[s][m] # None /\ Reached(s)
      BY <1>6, <3>1, <3>3
    <3> QED
      BY <1>5, <3>2, <3>3 DEF CacheRight
  <2>1. tp \in Range(mro[s]) => tp \in marked
    BY DEF MarksClosed, Range
  <2>2. CASE tp \notin Range(mro[s])
    BY <1>0, <1>1, <1>3, <2>2 DEF Reached, TypeOK
  <2>3. CASE tp \in Range(mro[s])
    <3>1. CASE s = tp
      BY <1>0, <1>1, <2>1, <2>3, <3>1 DEF TypeOK, Unresolved
    <3>2. CASE s # tp
      BY <1>0, <1>1, <2>1, <2>3, <3>2 DEF Reached, TypeOK
    <3> QED
      BY <3>1, <3>2
  <2> QED
    BY <2>2, <2>3
<1>10. LookupRight'
  <2>1. \A u \in Thread : pc'[u] \in {"lookup", "publish"} => pc'[u] = pc[u]
    BY <1>0, <1>1 DEF TypeOK
  <2> QED
    BY <1>0, <1>3, <1>5, <2>1 DEF LookupRight
<1> QED
  BY <1>4, <1>5, <1>7, <1>8, <1>9, <1>10

\* IInv is preserved when a walk lists the subclasses of the type it has visited.
LEMMA ListSubclassesInv ==
  ASSUME IInv, NEW t \in Thread, ListSubclasses(t)
  PROVE  IInv'
<1> USE TrampolineAssumption DEF IInv
<1>0. /\ pc[t] = "subclasses" /\ at[t] \in Exists /\ pc' = [pc EXCEPT ![t] = "visit"]
      /\ todo' = [todo EXCEPT ![t] = todo[t] \cup Subclasses(at[t])]
      /\ at' = [at EXCEPT ![t] = None] /\ Subclasses(at[t]) \subseteq Exists
      /\ UNCHANGED <<mro, attr, cls, table, marked, epoch, self, name, td, seenEpoch,
                     value, path>>
  BY DEF ListSubclasses, Engaged, Subclasses, shared, call, Goto, Set
<1>1. TypeOK'
  BY <1>0 DEF TypeOK, Phases, Exists
<1>2. Uncounted' = Uncounted /\ \A s : Ahead(s)' <=> Ahead(s)
  BY <1>0 DEF Uncounted, Ahead, TypeOK
<1>3. LinearMro' /\ Engaged' /\ MarkOrder' /\ \A s, m : Resolve(s, m)' = Resolve(s, m)
  <2>1. pc' \in [Thread -> Phases] /\ at' \in [Thread -> Exists \cup {None}]
    BY <1>0 DEF TypeOK, Phases
  <2>2. \A w \in Thread :
           \/ pc'[w] = pc[w] /\ at'[w] = at[w]
           \/ pc[w] = "subclasses" /\ pc'[w] = "visit"
    BY <1>0 DEF TypeOK
  <2> QED
    BY <1>0, <2>1, <2>2, WalkFrame
<1>4. MarksClosed' /\ EpochBound'
  BY <1>0, <1>2 DEF MarksClosed, EpochBound, Exists
<1>5. CacheRight'
  <2>1. ASSUME NEW s \in Exists, Reached(s)
        PROVE  Reached(s)'
    <3>1. CASE at[t] \in Range(mro[s]) /\ at[t] # s
      <4>1. Subclasses(at[t]) \cap Range(mro[s]) # {}
        BY <3>1, Child
      <4> QED
        BY <1>0, <4>1 DEF Reached, TypeOK
    <3>2. CASE ~(at[t] \in Range(mro[s]) /\ at[t] # s)
      BY <1>0, <1>2, <2>1, <3>2 DEF Reached, TypeOK
    <3> QED
      BY <3>1, <3>2
  <2> QED
    BY <1>0, <1>3, <2>1 DEF CacheRight, Exists
<1>6. LookupRight'
  <2>1. \A u \in Thread : pc'[u] \in {"lookup", "publish"} => pc'[u] = pc[u]
    BY <1>0 DEF TypeOK
  <2> QED
    BY <1>0, <1>2, <1>3, <2>1 DEF LookupRight
<1> QED
  BY <1>1, <1>3, <1>4, <1>5, <1>6

\* IInv is preserved when a walk ends.
LEMMA WalkDoneInv ==
  ASSUME IInv, NEW t \in Thread, WalkDone(t)
  PROVE  IInv'
<1> USE TrampolineAssumption DEF IInv
<1>0. /\ pc[t] = "visit" /\ todo[t] = {} /\ pc' = [pc EXCEPT ![t] = "idle"]
      /\ UNCHANGED <<mro, attr, cls, table, marked, epoch, self, name, td, seenEpoch,
                     value, path, todo, at>>
  BY DEF WalkDone, shared, call, Goto
<1>1. TypeOK'
  BY <1>0 DEF TypeOK, Phases, Exists
<1>2. Uncounted' = Uncounted /\ \A s : Ahead(s)' <=> Ahead(s)
  BY <1>0 DEF Uncounted, Ahead, TypeOK
<1>3. LinearMro' /\ Engaged' /\ MarkOrder' /\ \A s, m : Resolve(s, m)' = Resolve(s, m)
  <2>1. pc' \in [Thread -> Phases] /\ at' \in [Thread -> Exists \cup {None}]
    BY <1>0 DEF TypeOK, Phases
  <2>2. \A w \in Thread :
           \/ pc'[w] = pc[w] /\ at'[w] = at[w]
           \/ pc[w] = "visit" /\ pc'[w] = "idle"
    BY <1>0 DEF TypeOK
  <2> QED
    BY <1>0, <2>1, <2>2, WalkFrame
<1>4. MarksClosed' /\ EpochBound'
  BY <1>0, <1>2 DEF MarksClosed, EpochBound, Exists
<1>5. CacheRight'
  <2>1. ASSUME NEW s \in Exists, Reached(s)
        PROVE  Reached(s)'
    BY <1>0, <1>2, <2>1 DEF Reached, TypeOK
  <2> QED
    BY <1>0, <1>3, <2>1 DEF CacheRight, Exists
<1>6. LookupRight'
  <2>1. \A u \in Thread : pc'[u] \in {"lookup", "publish"} => pc'[u] = pc[u]
    BY <1>0 DEF TypeOK
  <2> QED
    BY <1>0, <1>2, <1>3, <2>1 DEF LookupRight
<1> QED
  BY <1>1, <1>3, <1>4, <1>5, <1>6

-----------------------------------------------------------------------------
(* Changes of types.                                                       *)

\* A modification of tp: what is not below tp is as before, what is below it has
\* its old ancestors or marked ones.
LEMMA ModifiedInv ==
  ASSUME IInv, NEW t \in Thread, NEW tp \in Exists, Modified(t, tp),
         mro' \in [Exists -> Seq(Exists)], LinearMro',
         attr' \in [Exists -> [Name -> {None, "cpp", "py"}]],
         \A s \in Exists : s # tp => attr'[s] = attr[s],
         \A s \in Exists : tp \notin Range(mro[s]) => mro'[s] = mro[s],
         \A s \in Exists : tp \in Range(mro[s]) =>
           /\ tp \in Range(mro'[s])
           /\ Range(mro'[s]) \subseteq Range(mro[s]) \cup marked
  PROVE  IInv'
<1> USE TrampolineAssumption DEF IInv
<1>0. /\ pc[t] = "idle" /\ pc' = [pc EXCEPT ![t] = "modified"]
      /\ at' = [at EXCEPT ![t] = tp]
      /\ epoch + Cardinality(Uncounted) < MaxMods
      /\ UNCHANGED <<cls, table, marked, epoch, self, name, td, seenEpoch, value, path, todo>>
      /\ Exists' = Exists
  BY DEF Modified, Goto, Set, Exists
<1>1. TypeOK'
  BY <1>0 DEF TypeOK, Phases
<1>2. EpochBound'
  <2>1. Cardinality(Uncounted') = Cardinality(Uncounted) + 1
    BY <1>0, Begun
  <2> QED
    BY <1>0, <2>1, Number DEF EpochBound, TypeOK
<1>3. /\ \A u \in Thread : pc'[u] # "modified" => pc'[u] = pc[u]
      /\ \A u \in Thread : u # t => pc'[u] = pc[u] /\ at'[u] = at[u]
      /\ pc'[t] = "modified" /\ at'[t] = tp
  BY <1>0 DEF TypeOK
<1>4. Engaged'
  BY <1>0, <1>3 DEF Engaged
<1>5. \A s \in Exists : tp \notin Range(mro[s]) \/ Ahead(s)'
  BY <1>3 DEF Ahead
<1>6. \A s \in Exists : tp \notin Range(mro[s]) => (Reached(s)' <=> Reached(s)) /\ (Ahead(s)' <=> Ahead(s))
  <2> SUFFICES ASSUME NEW s \in Exists, tp \notin Range(mro[s])
               PROVE  (Reached(s)' <=> Reached(s)) /\ (Ahead(s)' <=> Ahead(s))
    OBVIOUS
  <2>1. mro'[s] = mro[s]
    OBVIOUS
  <2>2. Ahead(s)' <=> Ahead(s)
    BY <1>0, <1>3, <2>1 DEF Ahead
  <2> QED
    BY <1>0, <1>3, <2>1, <2>2 DEF Reached
<1>7. \A s \in Exists, m \in Name : tp \notin Range(mro[s]) => Resolve(s, m)' = Resolve(s, m)
  <2> SUFFICES ASSUME NEW s \in Exists, NEW m \in Name, tp \notin Range(mro[s])
               PROVE  Find(mro[s], attr', m) = Find(mro[s], attr, m)
    BY DEF Resolve
  <2>1. mro[s] \in Seq(Exists)
    BY DEF TypeOK
  <2>2. \A i \in DOMAIN mro[s] : attr'[mro[s][i]] = attr[mro[s][i]]
    BY <2>1 DEF Range
  <2> QED
    BY <2>1, <2>2, SameAnswer
<1>8. MarksClosed'
  <2> SUFFICES ASSUME NEW s \in Exists, NEW a \in Range(mro'[s]),
                      s \in marked \/ \E m \in Name : table[s][m] # None
               PROVE  a \in marked
    BY <1>0 DEF MarksClosed, Range
  <2>1. Range(mro[s]) \subseteq marked
    BY DEF MarksClosed, Range
  <2>2. Range(mro'[s]) \subseteq Range(mro[s]) \cup marked
    OBVIOUS
  <2> QED
    BY <2>1, <2>2, Zenon
<1>9. MarkOrder'
  <2> SUFFICES ASSUME NEW u \in Thread
               PROVE  Marking(u)'
    BY DEF MarkOrder
  <2>1. Marking(u) /\ (pc'[u] # "modified" => pc'[u] = pc[u])
    BY <1>3 DEF MarkOrder
  <2>2. ASSUME NEW i \in DOMAIN path[u]
        PROVE  Range(mro'[path[u][i]]) \subseteq Range(mro[path[u][i]]) \cup marked
    <3>1. path[u][i] \in Exists
      BY DEF TypeOK
    <3> QED
      BY <3>1
  <2> QED
    BY <1>0, <2>1, <2>2 DEF Marking
<1>10. CacheRight'
  <2> SUFFICES ASSUME NEW s \in Exists, NEW m \in Name
               PROVE  table[s][m] \in {None, Resolve(s, m)'} \/ Reached(s)'
    BY <1>0 DEF CacheRight
  <2>1. CASE tp \in Range(mro[s])
    BY <1>5, <2>1 DEF Reached
  <2>2. CASE tp \notin Range(mro[s])
    BY <1>6, <1>7, <2>2 DEF CacheRight
  <2> QED
    BY <2>1, <2>2
<1>11. LookupRight'
  <2> SUFFICES ASSUME NEW u \in Thread, pc'[u] \in {"lookup", "publish"},
                      seenEpoch[u] = epoch, ~Ahead(td[u])'
               PROVE  /\ pc'[u] = "publish" => Resolve(td[u], name[u])' = value[u]
                      /\ pc'[u] = "lookup" =>
                           /\ Resolve(td[u], name[u])' = Find(path[u], attr', name[u])
                           /\ Range(path[u]) \subseteq Range(mro'[td[u]])
    BY <1>0 DEF LookupRight, Resolve, Ahead
  <2>1. pc'[u] = pc[u] /\ td[u] \in Exists /\ name[u] \in Name
    BY <1>3 DEF Engaged
  <2>2. tp \notin Range(mro[td[u]]) /\ ~Ahead(td[u]) /\ mro'[td[u]] = mro[td[u]]
    BY <1>0, <1>5, <1>6, <2>1 DEF Ahead
  <2>3. Resolve(td[u], name[u])' = Resolve(td[u], name[u])
    BY <1>0, <1>7, <2>1, <2>2 DEF Resolve
  <2>4. CASE pc[u] = "publish"
    BY <2>1, <2>2, <2>3, <2>4 DEF LookupRight
  <2>5. CASE pc[u] = "lookup"
    <3>1. /\ Resolve(td[u], name[u]) = Find(path[u], attr, name[u])
          /\ Range(path[u]) \subseteq Range(mro[td[u]])
      BY <2>2, <2>5 DEF LookupRight
    <3>2. path[u] \in Seq(Exists)
      BY DEF TypeOK
    <3>3. ASSUME NEW i \in DOMAIN path[u]
          PROVE  attr'[path[u][i]] = attr[path[u][i]]
      <4>1. path[u][i] \in Exists /\ path[u][i] \in Range(path[u])
        BY <3>2 DEF Range
      <4>2. path[u][i] # tp
        BY <2>2, <3>1, <4>1
      <4> QED
        BY <4>1, <4>2
    <3>4. Find(path[u], attr', name[u]) = Find(path[u], attr, name[u])
      BY <3>2, <3>3, SameAnswer
    <3> QED
      BY <2>1, <2>2, <2>3, <2>5, <3>1, <3>4
  <2> QED
    BY <2>1, <2>4, <2>5
<1> QED
  BY <1>1, <1>2, <1>4, <1>8, <1>9, <1>10, <1>11

\* IInv is preserved when an attribute of a type is assigned or deleted.
LEMMA SetAttrInv ==
  ASSUME IInv, NEW t \in Thread, NEW tp \in Type, NEW n \in Name,
         NEW a \in {None, "cpp", "py"}, SetAttr(t, tp, n, a)
  PROVE  IInv'
<1>1. /\ tp \in Exists /\ mro' = mro /\ attr' = [attr EXCEPT ![tp][n] = a]
      /\ Modified(t, tp)
  BY DEF SetAttr
<1>2. mro' \in [Exists -> Seq(Exists)] /\ LinearMro'
  BY <1>1 DEF IInv, TypeOK, LinearMro, Exists
<1>3. /\ attr' \in [Exists -> [Name -> {None, "cpp", "py"}]]
      /\ \A s \in Exists : s # tp => attr'[s] = attr[s]
  BY <1>1 DEF IInv, TypeOK
<1> QED
  BY <1>1, <1>2, <1>3, ModifiedInv

\* IInv is preserved when a class gets another, marked, base.
LEMMA SetBasesInv ==
  ASSUME Tame, IInv, NEW t \in Thread, NEW tp \in Type, NEW base \in Type,
         SetBases(t, tp, base)
  PROVE  IInv'
<1>1. /\ tp \in Exists /\ base \in Exists /\ base \in marked
      /\ ~Contains(mro[base], tp) /\ Moved(tp, base) /\ attr' = attr /\ Modified(t, tp)
  BY TrampolineAssumption DEF SetBases, Tame
<1>2. Range(mro[base]) \subseteq marked
  BY <1>1 DEF IInv, MarksClosed, Range
<1>3. /\ mro' \in [Exists -> Seq(Exists)] /\ LinearMro'
      /\ \A s \in Exists : tp \notin Range(mro[s]) => mro'[s] = mro[s]
      /\ \A s \in Exists : tp \in Range(mro[s]) =>
           /\ tp \in Range(mro'[s])
           /\ Range(mro'[s]) \subseteq Range(mro[s]) \cup marked
  BY <1>1, <1>2, MovedLinear DEF IInv
<1>4. /\ attr' \in [Exists -> [Name -> {None, "cpp", "py"}]]
      /\ \A s \in Exists : s # tp => attr'[s] = attr[s]
  BY <1>1 DEF IInv, TypeOK
<1> QED
  BY <1>1, <1>3, <1>4, ModifiedInv

\* Types appear, without mark and table, or disappear; nobody had them.
LEMMA TypesFrame ==
  ASSUME IInv, NEW E, E \subseteq Exists, E \subseteq Exists',
         UNCHANGED <<cls, epoch, pc, self, name, td, seenEpoch, value, path, todo, at>>,
         \A s \in E : /\ mro'[s] = mro[s] /\ attr'[s] = attr[s] /\ table'[s] = table[s]
                      /\ s \in marked' <=> s \in marked
                      /\ Range(mro[s]) \subseteq E,
         \A s \in Exists' \ E : s \notin marked' /\ \A m \in Name : table'[s][m] = None,
         \A u \in Thread :
           pc[u] \in {"probe", "attached", "mark", "again", "lookup", "publish"} => td[u] \in E,
         \A u \in Thread : pc[u] \in {"modified", "subclasses"} => at[u] \in E,
         \A u \in Thread : Range(path[u]) \subseteq E
  PROVE  Engaged' /\ EpochBound' /\ MarksClosed' /\ MarkOrder' /\ CacheRight' /\ LookupRight'
<1> USE DEF IInv
<1>1. \A s \in E : (Reached(s)' <=> Reached(s)) /\ (Ahead(s)' <=> Ahead(s))
  BY DEF Reached, Ahead
<1>2. ASSUME NEW line \in Seq(Exists), Range(line) \subseteq E
      PROVE  \A m : Find(line, attr', m) = Find(line, attr, m)
  <2>1. \A i \in DOMAIN line : attr'[line[i]] = attr[line[i]]
    BY <1>2 DEF Range
  <2> QED
    BY <2>1, SameAnswer
<1>3. ASSUME NEW s \in E
      PROVE  \A m : Resolve(s, m)' = Resolve(s, m)
  <2>1. mro[s] \in Seq(Exists) /\ mro'[s] = mro[s] /\ Range(mro[s]) \subseteq E
    BY DEF TypeOK
  <2> QED
    BY <1>2, <2>1 DEF Resolve
<1>4. Engaged' /\ EpochBound'
  BY DEF Engaged, EpochBound, Uncounted
<1>5. MarksClosed'
  <2> SUFFICES ASSUME NEW s \in Exists', NEW i \in DOMAIN mro'[s],
                      s \in marked' \/ \E m \in Name : table'[s][m] # None
               PROVE  mro'[s][i] \in marked'
    BY DEF MarksClosed
  <2>1. s \in E
    OBVIOUS
  <2>2. mro'[s] = mro[s] /\ mro[s][i] \in marked /\ mro[s][i] \in E
    BY <2>1 DEF MarksClosed, Range
  <2> QED
    BY <2>2
<1>6. MarkOrder'
  <2> SUFFICES ASSUME NEW u \in Thread
               PROVE  Marking(u)'
    BY DEF MarkOrder
  <2>1. Marking(u)
    BY DEF MarkOrder
  <2>2. ASSUME pc[u] = "mark"
        PROVE  td[u] \in marked' \cup Range(path[u])
    BY <2>1, <2>2 DEF Marking
  <2>3. ASSUME pc[u] = "mark", NEW i \in DOMAIN path[u], NEW a \in Range(mro'[path[u][i]])
        PROVE  a \in marked' \/ \E j \in i..Len(path[u]) : path[u][j] = a
    <3>1. path[u][i] \in E
      BY DEF Range
    <3>2. a \in Range(mro[path[u][i]]) /\ a \in E
      BY <3>1
    <3>3. a \in marked \/ \E j \in i..Len(path[u]) : path[u][j] = a
      BY <2>1, <2>3, <3>2 DEF Marking
    <3> QED
      BY <3>2, <3>3
  <2> QED
    BY <2>1, <2>2, <2>3 DEF Marking
<1>7. CacheRight'
  <2> SUFFICES ASSUME NEW s \in Exists', NEW m \in Name
               PROVE  table'[s][m] \in {None, Resolve(s, m)'} \/ Reached(s)'
    BY DEF CacheRight
  <2>1. CASE s \in E
    BY <1>1, <1>3, <2>1 DEF CacheRight
  <2>2. CASE s \notin E
    BY <2>2
  <2> QED
    BY <2>1, <2>2
<1>8. LookupRight'
  <2> SUFFICES ASSUME NEW u \in Thread, pc[u] \in {"lookup", "publish"},
                      seenEpoch[u] = epoch, ~Ahead(td[u])'
               PROVE  /\ pc[u] = "publish" => Resolve(td[u], name[u])' = value[u]
                      /\ pc[u] = "lookup" =>
                           /\ Resolve(td[u], name[u])' = Find(path[u], attr', name[u])
                           /\ Range(path[u]) \subseteq Range(mro'[td[u]])
    BY DEF LookupRight, Resolve, Ahead
  <2>1. td[u] \in E /\ mro'[td[u]] = mro[td[u]] /\ td'[u] = td[u] /\ name'[u] = name[u]
    OBVIOUS
  <2>2. ~Ahead(td[u])
    BY <2>1 DEF Ahead
  <2>3. Resolve(td[u], name[u])' = Resolve(td[u], name[u])
    BY <1>3, <2>1 DEF Resolve
  <2>4. Find(path[u], attr', name[u]) = Find(path[u], attr, name[u])
    BY <1>2 DEF TypeOK
  <2> QED
    BY <2>1, <2>2, <2>3, <2>4 DEF LookupRight
<1> QED
  BY <1>4, <1>5, <1>6, <1>7, <1>8

\* IInv is preserved when a program creates a class.
LEMMA NewSubclassInv ==
  ASSUME IInv, NEW t \in Thread, NEW tp \in Type, NEW base \in Type,
         NewSubclass(t, tp, base)
  PROVE  IInv'
<1> USE DEF IInv
<1>0. /\ tp \notin Exists /\ base \in Exists /\ Exists' = Exists \cup {tp}
      /\ DOMAIN mro' = Exists \cup {tp}
      /\ \A s \in Exists : mro'[s] = mro[s] /\ attr'[s] = attr[s] /\ table'[s] = table[s]
      /\ mro'[tp] = <<tp>> \o mro[base] /\ table'[tp] = Unresolved
      /\ UNCHANGED <<cls, marked, epoch, pc, self, name, td, seenEpoch, value, path, todo, at>>
  BY DEF NewSubclass, call, walk, Exists
<1>1. /\ attr' \in [Exists' -> [Name -> {None, "cpp", "py"}]]
      /\ table' \in [Exists' -> [Name -> {None, "override", "no_override"}]]
  BY <1>0 DEF NewSubclass, TypeOK, Unresolved
<1>2. /\ mro[base] \in Seq(Exists) /\ mro'[tp] \in Seq(Exists')
      /\ Len(mro'[tp]) = Len(mro[base]) + 1 /\ mro'[tp][1] = tp /\ mro'[tp] # <<>>
      /\ \A i \in 1..Len(mro[base]) : mro'[tp][i + 1] = mro[base][i]
  <2>1. mro[base] \in Seq(Exists) /\ mro[base] \in Seq(Exists')
    BY <1>0, SeqMonotonic DEF TypeOK
  <2>2. <<tp>> \in Seq(Exists')
    BY <1>0
  <2> QED
    BY <1>0, <2>1, <2>2
<1>3. mro' \in [Exists' -> Seq(Exists')]
  <2>1. \A s \in Exists : mro'[s] \in Seq(Exists')
    BY <1>0, SeqMonotonic DEF TypeOK
  <2>2. mro' = [s \in Exists' |-> mro'[s]]
    BY <1>0 DEF NewSubclass
  <2> QED
    BY <1>0, <1>2, <2>1, <2>2
<1>4. path' \in [Thread -> Seq(Exists')]
  BY <1>0, SeqMonotonic DEF TypeOK
<1>5. TypeOK'
  BY <1>0, <1>1, <1>3, <1>4 DEF TypeOK
<1>6. LinearMro'
  <2>1. ASSUME NEW s \in Exists
        PROVE  /\ mro'[s] # <<>> /\ mro'[s][1] = s
               /\ \A i \in DOMAIN mro'[s] :
                    mro'[mro'[s][i]] = SubSeq(mro'[s], i, Len(mro'[s]))
    <3>1. \A i \in DOMAIN mro[s] : mro[s][i] \in Exists
      BY DEF TypeOK
    <3> QED
      BY <1>0, <3>1 DEF LinearMro
  <2>2. ASSUME NEW i \in DOMAIN mro'[tp]
        PROVE  mro'[mro'[tp][i]] = SubSeq(mro'[tp], i, Len(mro'[tp]))
    <3> DEFINE q == mro'[tp]
    <3>0. q \in Seq(Exists') /\ i \in 1..Len(q) /\ Len(q) \in Nat
      BY <1>2
    <3>1. CASE i = 1
      <4>1. SubSeq(q, 1, Len(q)) = q
        BY <3>0, SubSeqFull
      <4> QED
        BY <1>2, <3>1, <4>1
    <3>2. CASE i # 1
      <4> DEFINE j == i - 1
                 r == mro[base]
      <4>1. j \in 1..Len(r) /\ i = j + 1 /\ Len(q) = Len(r) + 1 /\ r \in Seq(Exists)
        BY <1>2, <3>0, <3>2
      <4>2. q[i] = r[j] /\ r[j] \in Exists
        BY <1>2, <4>1
      <4>3. mro'[q[i]] = SubSeq(r, j, Len(r))
        <5>1. mro[r[j]] = SubSeq(r, j, Len(r))
          BY <1>0, <4>1 DEF LinearMro
        <5> QED
          BY <1>0, <4>2, <5>1
      <4>4. \A k \in 1..Len(r) : q[k + 1] = r[k]
        BY <1>2
      <4> HIDE DEF q, r, j
      <4>5. /\ SubSeq(r, j, Len(r)) \in Seq(Exists)
            /\ Len(SubSeq(r, j, Len(r))) = Len(r) - j + 1
            /\ \A k \in 1..Len(r) - j + 1 : SubSeq(r, j, Len(r))[k] = r[j + k - 1]
        BY <4>1, Suffix
      <4>6. /\ SubSeq(q, i, Len(q)) \in Seq(Exists')
            /\ Len(SubSeq(q, i, Len(q))) = Len(q) - i + 1
            /\ \A k \in 1..Len(q) - i + 1 : SubSeq(q, i, Len(q))[k] = q[i + k - 1]
        BY <3>0, Suffix
      <4>7. Len(q) - i + 1 = Len(r) - j + 1 /\ Len(r) \in Nat /\ j \in Nat \ {0}
        BY <4>1
      <4>8. ASSUME NEW k \in 1..Len(r) - j + 1
            PROVE  q[i + k - 1] = r[j + k - 1]
        <5>1. j + k - 1 \in 1..Len(r) /\ i + k - 1 = (j + k - 1) + 1
          BY <4>1, <4>7
        <5> QED
          BY <4>4, <5>1
      <4>9. SubSeq(q, i, Len(q)) = SubSeq(r, j, Len(r))
        <5> DEFINE x == SubSeq(q, i, Len(q))
                   y == SubSeq(r, j, Len(r))
        <5>1. y \in Seq(Exists')
          BY <1>0, <4>5, SeqMonotonic
        <5>2. x \in Seq(Exists') /\ Len(x) = Len(y) /\ \A k \in 1..Len(x) : x[k] = y[k]
          BY <4>5, <4>6, <4>7, <4>8
        <5> HIDE DEF x, y
        <5>3. x = y
          BY <5>1, <5>2, SeqEqual
        <5> QED
          BY <5>3 DEF x, y
      <4> QED
        BY <4>3, <4>9 DEF q
    <3> QED
      BY <3>1, <3>2
  <2> QED
    BY <1>0, <1>2, <2>1, <2>2 DEF LinearMro
<1>7. Engaged' /\ EpochBound' /\ MarksClosed' /\ MarkOrder' /\ CacheRight' /\ LookupRight'
  <2>1. \A s \in Exists' \ Exists : s \notin marked' /\ \A m \in Name : table'[s][m] = None
    BY <1>0 DEF Unresolved, TypeOK
  <2>2. \A s \in Exists : Range(mro[s]) \subseteq Exists
    BY Line
  <2>3. \A u \in Thread :
          /\ pc[u] \in {"probe", "attached", "mark", "again", "lookup", "publish"} =>
               td[u] \in Exists
          /\ pc[u] \in {"modified", "subclasses"} => at[u] \in Exists
          /\ Range(path[u]) \subseteq Exists
    BY DEF Engaged, TypeOK, Range
  <2> QED
    BY <1>0, <2>1, <2>2, <2>3, TypesFrame
<1> QED
  BY <1>5, <1>6, <1>7

\* IInv is preserved when the collector frees a class, if objects keep theirs.
LEMMA CollectTypeInv ==
  ASSUME Tame, IInv, NEW tp \in Type, CollectType(tp)
  PROVE  IInv'
<1> USE TrampolineAssumption DEF IInv
<1>0. /\ tp \in Exists /\ Exists' = Exists \ {tp} /\ Collect
      /\ \A o \in Object : cls[o] # tp
      /\ Subclasses(tp) = {}
      /\ \A u \in Thread : at[u] # tp /\ tp \notin todo[u] /\ tp \notin Range(path[u])
      /\ mro' = [s \in Exists' |-> mro[s]]
      /\ attr' = [s \in Exists' |-> attr[s]]
      /\ table' = [s \in Exists' |-> table[s]]
      /\ marked' = marked \ {tp}
      /\ UNCHANGED <<cls, epoch, pc, self, name, td, seenEpoch, value, path, todo, at>>
  BY DEF CollectType, call, walk, Exists
<1>1. \A s \in Exists' : Range(mro[s]) \subseteq Exists'
  <2> SUFFICES ASSUME NEW s \in Exists'
               PROVE  tp \notin Range(mro[s])
    <3>1. \A s \in Exists : Range(mro[s]) \subseteq Exists
      BY Line, Zenon
    <3> QED
      BY <1>0, <3>1
  <2>1. s \in Exists /\ tp # s
    BY <1>0
  <2>2. tp \in Range(mro[s]) => Subclasses(tp) \cap Range(mro[s]) # {}
    BY <2>1, Child, Zenon
  <2> QED
    BY <1>0, <2>2, Zenon
<1>2. ASSUME NEW q \in Seq(Exists), Range(q) \subseteq Exists'
      PROVE  q \in Seq(Exists')
  BY <1>2 DEF Range
<1>3. TypeOK'
  <2>1. mro' \in [Exists' -> Seq(Exists')]
    BY <1>0, <1>1, <1>2 DEF TypeOK
  <2>2. \A u \in Thread : path[u] \in Seq(Exists')
    <3> SUFFICES ASSUME NEW u \in Thread
                 PROVE  path[u] \in Seq(Exists')
      OBVIOUS
    <3>1. path[u] \in Seq(Exists) /\ Range(path[u]) \subseteq Exists'
      BY <1>0 DEF TypeOK, Range
    <3> QED
      BY <1>2, <3>1
  <2>3. path' \in [Thread -> Seq(Exists')]
    BY <1>0, <2>2 DEF TypeOK
  <2>4. cls' \in [Object -> Exists'] /\ at' \in [Thread -> Exists' \cup {None}]
        /\ todo' \in [Thread -> SUBSET Exists'] /\ marked' \subseteq Exists'
    BY <1>0 DEF TypeOK
  <2>5. attr' \in [Exists' -> [Name -> {None, "cpp", "py"}]]
        /\ table' \in [Exists' -> [Name -> {None, "override", "no_override"}]]
    BY <1>0 DEF TypeOK
  <2> QED
    BY <1>0, <2>1, <2>3, <2>4, <2>5 DEF TypeOK
<1>4. LinearMro'
  <2>1. \A s \in Exists' : \A i \in DOMAIN mro[s] : mro[s][i] \in Exists'
    BY <1>1 DEF Range
  <2> QED
    BY <1>0, <2>1 DEF LinearMro
<1>5. Engaged' /\ EpochBound' /\ MarksClosed' /\ MarkOrder' /\ CacheRight' /\ LookupRight'
  <2>1. \A u \in Thread :
          /\ pc[u] \in {"probe", "attached", "mark", "again", "lookup", "publish"} =>
               td[u] \in Exists'
          /\ pc[u] \in {"modified", "subclasses"} => at[u] \in Exists'
          /\ Range(path[u]) \subseteq Exists'
    BY <1>0 DEF Engaged, TypeOK, Range
  <2>2. \A s \in Exists' : /\ mro'[s] = mro[s] /\ attr'[s] = attr[s] /\ table'[s] = table[s]
                           /\ s \in marked' <=> s \in marked
    BY <1>0
  <2> QED
    BY <1>0, <1>1, <2>1, <2>2, TypesFrame
<1> QED
  BY <1>3, <1>4, <1>5

-----------------------------------------------------------------------------
(* The theorems.                                                           *)

\* Initially nothing is marked, cached or under way.
LEMMA InitInv ==
  ASSUME Init
  PROVE  IInv
<1> USE TrampolineAssumption DEF Init, Exists
<1>1. TypeOK
  BY DEF TypeOK, Phases, Unresolved
<1>2. LinearMro
  BY DEF LinearMro
<1>3. EpochBound
  <2>1. Uncounted = {}
    BY DEF Uncounted
  <2> QED
    BY <2>1, FS_EmptySet DEF EpochBound
<1>4. Engaged /\ MarkOrder /\ LookupRight
  BY DEF Engaged, MarkOrder, Marking, LookupRight
<1>5. MarksClosed /\ CacheRight
  BY DEF MarksClosed, CacheRight, Unresolved
<1> QED
  BY <1>1, <1>2, <1>3, <1>4, <1>5 DEF IInv

\* Every step of a tame program preserves IInv.
LEMMA NextInv ==
  ASSUME Tame, IInv, [Next]_vars
  PROVE  IInv'
<1>1. CASE UNCHANGED vars
  <2> USE <1>1 DEF vars, shared, call, walk, IInv
  <2>1. TypeOK' /\ LinearMro'
    BY DEF TypeOK, LinearMro, Exists
  <2>2. EpochBound' /\ Engaged'
    BY DEF EpochBound, Uncounted, Engaged, Exists
  <2>3. MarksClosed' /\ MarkOrder'
    BY DEF MarksClosed, MarkOrder, Marking, Exists
  <2>4. CacheRight'
    BY DEF CacheRight, Reached, Ahead, Resolve, Exists
  <2>5. LookupRight'
    BY DEF LookupRight, Ahead, Resolve
  <2> QED
    BY <2>1, <2>2, <2>3, <2>4, <2>5
<1>2. ASSUME NEW t \in Thread, Step(t)
      PROVE  IInv'
  <2>1. CASE Probe(t) \/ Reread(t) \/ ReadEpoch(t) \/ ProbeAgain(t)
    BY <2>1, ProbeInv, RereadInv, ReadEpochInv, ProbeAgainInv
  <2>2. CASE Lookup(t) \/ LookupNext(t) \/ Publish(t) \/ Return(t)
    BY <2>2, LookupInv, LookupNextInv, PublishInv, ReturnInv
  <2>3. CASE Mark(t) \/ EpochInc(t) \/ ListSubclasses(t) \/ WalkDone(t)
    BY <2>3, MarkInv, EpochIncInv, ListSubclassesInv, WalkDoneInv
  <2>4. CASE \E tp \in Type : Visit(t, tp)
    BY <2>4, VisitInv
  <2> QED
    BY <1>2, <2>1, <2>2, <2>3, <2>4 DEF Step
<1>3. ASSUME NEW t \in Thread, Program(t)
      PROVE  IInv'
  <2>1. CASE \E o \in Object, n \in Name : Enter(t, o, n)
    BY <2>1, EnterInv
  <2>2. CASE \E tp \in Type, n \in Name, a \in {None, "cpp", "py"} : SetAttr(t, tp, n, a)
    BY <2>2, SetAttrInv
  <2>3. CASE \E tp, base \in Type : SetBases(t, tp, base) \/ NewSubclass(t, tp, base)
    BY <2>3, SetBasesInv, NewSubclassInv
  <2>4. CASE \E o \in Object, tp \in Type : SetClass(t, o, tp)
    BY <2>4, SetClassInv
  <2> QED
    BY <1>3, <2>1, <2>2, <2>3, <2>4 DEF Program
<1>4. CASE \E tp \in Type : CollectType(tp)
  BY <1>4, CollectTypeInv
<1> QED
  BY <1>1, <1>2, <1>3, <1>4 DEF Next

\* The inductive invariant: in programs that rebase classes only below marked ones
\* and do not both reassign __class__ and drop classes, every wrong table entry has a
\* walk on its way to it and every mark is closed under bases.
THEOREM Invariance ==
  ASSUME Tame
  PROVE  Spec => []IInv
<1>1. Init => IInv
  BY InitInv
<1>2. IInv /\ [Next]_vars => IInv'
  BY NextInv
<1> QED
  BY <1>1, <1>2, PTL DEF Spec

\* Every variable keeps its type.
THEOREM TypeCorrect ==
  ASSUME Tame
  PROVE  Spec => []TypeOK
<1>1. IInv => TypeOK
  BY DEF IInv
<1> QED
  BY <1>1, Invariance, PTL

\* A type that is marked or has a table has only marked ancestors, whatever threads
\* mark, publish and modify at the same time (trampoline_mark, trampoline_publish).
THEOREM ClosesMarks ==
  ASSUME Tame
  PROVE  Spec => []MarksClosed
<1>1. IInv => MarksClosed
  BY DEF IInv
<1> QED
  BY <1>1, Invariance, PTL

\* When no modification is being propagated, every published override is what a
\* lookup would find now (trampoline_enter, nb_trampoline_invalidate).
THEOREM NeverStale ==
  ASSUME Tame
  PROVE  Spec => []NoStaleOverride
<1>1. IInv => NoStaleOverride
  <2> SUFFICES ASSUME IInv, Walking = {}, NEW tp \in Exists, NEW n \in Name
               PROVE  table[tp][n] \in {None, Resolve(tp, n)}
    BY DEF NoStaleOverride
  <2>1. ~Reached(tp)
    BY DEF Reached, Ahead, Walking
  <2> QED
    BY <2>1 DEF IInv, CacheRight
<1> QED
  BY <1>1, Invariance, PTL

-----------------------------------------------------------------------------
(* What calls act on, where no class is rebased and type_lookup is atomic. *)

\* The calls that will still use an answer, or look for one.
Active == {t \in Thread : pc[t] \in {"probe", "attached", "mark", "again", "lookup", "publish"}}

\* Walk w will still clear the table of tp, if it finds the way marked.
Coming(w, tp) ==
  \/ pc[w] = "modified" /\ at[w] \in Range(mro[tp])
  \/ pc[w] \in {"visit", "subclasses"} /\ todo[w] \cap Range(mro[tp]) # {}
  \/ pc[w] = "subclasses" /\ at[w] # tp /\ at[w] \in Range(mro[tp])

\* x is what n was in tp before the modification of w.
Before(w, tp, n, x) == tp \in DOMAIN prior[w] /\ prior[w][tp][n] = x

\* A wrong table entry was right before a modification that will clear it.
StaleKnown ==
  \A tp \in Exists, n \in Name :
    \/ table[tp][n] \in {None, Resolve(tp, n)}
    \/ \E w \in Thread : Coming(w, tp) /\ Before(w, tp, n, table[tp][n])

\* So was a wrong answer that passes the epoch check: the modification is still
\* to be counted.
Timely(u) == pc[u] = "publish" /\ seenEpoch[u] = epoch
FoundKnown ==
  \A u \in Thread : Timely(u) =>
    \/ value[u] = Resolve(td[u], name[u])
    \/ \E w \in Thread : /\ pc[w] = "modified" /\ at[w] \in Range(mro[td[u]])
                         /\ Before(w, td[u], name[u], value[u])

\* A call may act on what the lookup gives now, on what the table has, and on what
\* some call is about to publish there.
NowRight == \A t \in Active : Resolve(td[t], name[t]) \in right[t]
EntryRight == \A t \in Active : table[td[t]][name[t]] \in right[t] \cup {None}
FoundRight ==
  \A u \in Thread, t \in Active :
    Timely(u) /\ td[t] = td[u] /\ name[t] = name[u] => value[u] \in right[t]
HeldRight == \A t \in Thread : pc[t] \in {"publish", "return"} => value[t] \in right[t]

DInv ==
  /\ DOMAIN prior = Thread /\ DOMAIN right = Thread
  /\ StaleKnown /\ FoundKnown /\ NowRight /\ EntryRight /\ FoundRight /\ HeldRight

\* A walk that is on its way to a type is not over.
LEMMA ComingWalks ==
  ASSUME NEW w \in Thread, NEW tp, Coming(w, tp)
  PROVE  w \in Walking
  BY DEF Coming, Walking

\* A call that reads the class now may act on its table and on what is about to be
\* published there.
LEMMA Fresh ==
  ASSUME IInv, DInv, NEW tp \in Exists, NEW n \in Name
  PROVE  /\ Resolve(tp, n) \in Answers(tp, n)
         /\ table[tp][n] \in Answers(tp, n) \cup {None}
         /\ \A u \in Thread : Timely(u) /\ td[u] = tp /\ name[u] = n =>
              value[u] \in Answers(tp, n)
<1>1. Resolve(tp, n) \in Answers(tp, n)
  BY DEF Answers
<1>2. ASSUME NEW w \in Walking, NEW x, Before(w, tp, n, x)
      PROVE  x \in Answers(tp, n)
  BY <1>2 DEF Answers, Before
<1>3. table[tp][n] \in Answers(tp, n) \cup {None}
  BY <1>1, <1>2, ComingWalks DEF DInv, StaleKnown
<1>4. ASSUME NEW u \in Thread, Timely(u), td[u] = tp, name[u] = n
      PROVE  value[u] \in Answers(tp, n)
  <2>1. CASE value[u] = Resolve(tp, n)
    BY <1>1, <2>1
  <2>2. CASE value[u] # Resolve(tp, n)
    <3>1. PICK w \in Thread : pc[w] = "modified" /\ Before(w, tp, n, value[u])
      BY <1>4, <2>2 DEF DInv, FoundKnown
    <3> QED
      BY <1>2, <3>1 DEF Walking
  <2> QED
    BY <2>1, <2>2
<1> QED
  BY <1>1, <1>3, <1>4

\* A step of a call, or of a program, that publishes nothing and changes no type.
LEMMA OwnStep ==
  ASSUME IInv, DInv, NEW t \in Thread,
         UNCHANGED <<mro, attr, table, epoch, todo, at, prior>>,
         \A u \in Thread \ {t} :
           /\ pc'[u] = pc[u] /\ td'[u] = td[u] /\ name'[u] = name[u]
           /\ value'[u] = value[u] /\ seenEpoch'[u] = seenEpoch[u] /\ right'[u] = right[u],
         DOMAIN right' = Thread,
         {pc[t], pc'[t]} \cap {"modified", "visit", "subclasses"} = {},
         pc'[t] \in {"publish", "return"} => value'[t] \in right'[t],
         t \in Active' =>
           /\ Resolve(td'[t], name'[t]) \in right'[t]
           /\ table[td'[t]][name'[t]] \in right'[t] \cup {None}
           /\ \A u \in Thread \ {t} :
                Timely(u) /\ td[u] = td'[t] /\ name[u] = name'[t] => value[u] \in right'[t],
         pc'[t] = "publish" => value'[t] = Resolve(td'[t], name'[t])
  PROVE  DInv'
<1> USE DEF DInv
<1>1. \A s, m : Resolve(s, m)' = Resolve(s, m)
  BY DEF Resolve
<1>2. \A w \in Thread :
        /\ pc'[w] = "modified" <=> pc[w] = "modified"
        /\ pc'[w] = "visit" <=> pc[w] = "visit"
        /\ pc'[w] = "subclasses" <=> pc[w] = "subclasses"
  OBVIOUS
<1>3. \A w \in Thread : \A s : Coming(w, s)' <=> Coming(w, s)
  BY <1>2 DEF Coming
<1>4. \A w, s, m, x : Before(w, s, m, x)' <=> Before(w, s, m, x)
  BY DEF Before
<1>5. StaleKnown'
  BY <1>1, <1>3, <1>4 DEF StaleKnown, Exists
<1>6. \A u \in Thread \ {t} : Timely(u)' <=> Timely(u)
  BY DEF Timely
<1>7. FoundKnown'
  <2> SUFFICES ASSUME NEW u \in Thread, Timely(u)',
                      value'[u] # Resolve(td'[u], name'[u])
               PROVE  \E w \in Thread :
                        /\ pc'[w] = "modified" /\ at'[w] \in Range(mro'[td'[u]])
                        /\ Before(w, td[u], name[u], value[u])'
    BY DEF FoundKnown, Resolve
  <2>1. u # t
    BY DEF Timely
  <2>2. PICK w \in Thread : /\ pc[w] = "modified" /\ at[w] \in Range(mro[td[u]])
                            /\ Before(w, td[u], name[u], value[u])
    BY <1>6, <2>1 DEF FoundKnown
  <2> QED
    BY <1>2, <2>1, <2>2 DEF Before
<1>8. NowRight' /\ EntryRight'
  <2> SUFFICES ASSUME NEW u \in Thread, u \in Active'
               PROVE  /\ Resolve(td'[u], name'[u]) \in right'[u]
                      /\ table'[td'[u]][name'[u]] \in right'[u] \cup {None}
    BY DEF NowRight, EntryRight, Active, Resolve
  <2>1. CASE u = t
    BY <2>1
  <2>2. CASE u # t
    <3>1. u \in Active
      BY <2>2 DEF Active
    <3> QED
      BY <2>2, <3>1 DEF NowRight, EntryRight
  <2> QED
    BY <2>1, <2>2
<1>9. FoundRight'
  <2> SUFFICES ASSUME NEW u \in Thread, NEW v \in Thread, v \in Active', Timely(u)',
                      td'[v] = td'[u], name'[v] = name'[u]
               PROVE  value'[u] \in right'[v]
    BY DEF FoundRight, Active
  <2>1. CASE u = t
    <3>1. value'[u] = Resolve(td'[v], name'[v])
      BY <2>1 DEF Timely
    <3> QED
      BY <1>8, <3>1 DEF NowRight, Resolve
  <2>2. CASE u # t /\ v = t
    BY <1>6, <2>2
  <2>3. CASE u # t /\ v # t
    <3>1. v \in Active /\ Timely(u)
      BY <1>6, <2>3 DEF Active
    <3> QED
      BY <2>3, <3>1 DEF FoundRight
  <2> QED
    BY <2>1, <2>2, <2>3
<1>10. HeldRight'
  BY DEF HeldRight
<1> QED
  BY <1>5, <1>7, <1>8, <1>9, <1>10

\* DInv is preserved when a call reads the class, first or again.
LEMMA ReadsDInv ==
  ASSUME IInv, DInv, NEW t \in Thread,
         Reread(t) \/ \E o \in Object, n \in Name : Enter(t, o, n)
  PROVE  DInv'
<1>1. PICK tp \in Exists, n \in Name :
        /\ td' = [td EXCEPT ![t] = tp] /\ name'[t] = n
        /\ right' = [right EXCEPT ![t] = Answers(tp, n)]
        /\ \A u \in Thread \ {t} : name'[u] = name[u]
        /\ UNCHANGED <<mro, attr, table, epoch, seenEpoch, value, walk>>
        /\ \E l \in {"probe", "mark"} : pc' = [pc EXCEPT ![t] = l]
        /\ pc[t] \in {"idle", "attached"}
  <2>1. CASE Reread(t)
    <3>1. name[t] \in Name /\ cls[self[t]] \in Exists
      BY <2>1 DEF Reread, IInv, Engaged, TypeOK
    <3> QED
      BY <2>1, <3>1 DEF Reread, Goto, Set, shared
  <2>2. ASSUME NEW o \in Object, NEW n \in Name, Enter(t, o, n)
        PROVE  /\ cls[o] \in Exists
               /\ td' = [td EXCEPT ![t] = cls[o]] /\ name'[t] = n
               /\ right' = [right EXCEPT ![t] = Answers(cls[o], n)]
               /\ \A u \in Thread \ {t} : name'[u] = name[u]
               /\ UNCHANGED <<mro, attr, table, epoch, seenEpoch, value, walk>>
               /\ pc' = [pc EXCEPT ![t] = "probe"] /\ pc[t] = "idle"
    BY <2>2 DEF Enter, Goto, Set, shared, IInv, TypeOK
  <2> QED
    BY <2>1, <2>2
<1>2. /\ td \in [Thread -> Type \cup {None}] /\ pc \in [Thread -> Phases]
      /\ DOMAIN right = Thread
  BY DEF IInv, TypeOK, DInv
<1>3. /\ td'[t] = tp /\ right'[t] = Answers(tp, n) /\ pc'[t] \in {"probe", "mark"}
      /\ DOMAIN right' = Thread
      /\ \A u \in Thread \ {t} :
           pc'[u] = pc[u] /\ td'[u] = td[u] /\ right'[u] = right[u]
  BY <1>1, <1>2
<1>4. /\ Resolve(tp, n) \in right'[t]
      /\ table[tp][n] \in right'[t] \cup {None}
      /\ \A u \in Thread : Timely(u) /\ td[u] = tp /\ name[u] = n => value[u] \in right'[t]
  BY <1>3, Fresh
<1> QED
  BY <1>1, <1>3, <1>4, OwnStep DEF walk

\* DInv is preserved when a call answers from the table, marks, reads the epoch,
\* looks the name up or returns, and when an object gets another class.
LEMMA CallsDInv ==
  ASSUME IInv, DInv, AtomicLookup, NEW t \in Thread,
         \/ Probe(t) \/ Mark(t) \/ ReadEpoch(t) \/ ProbeAgain(t) \/ Lookup(t)
         \/ LookupNext(t) \/ Return(t)
         \/ \E o \in Object, tp \in Type : SetClass(t, o, tp)
  PROVE  DInv'
<1> USE DEF Goto, Set, shared, call, walk
<1>1. /\ td \in [Thread -> Type \cup {None}] /\ pc \in [Thread -> Phases]
      /\ DOMAIN right = Thread /\ value \in [Thread -> {None, "override", "no_override"}]
      /\ seenEpoch \in [Thread -> 0..MaxMods] /\ name \in [Thread -> Name \cup {None}]
  BY DEF IInv, TypeOK, DInv
<1>2. /\ UNCHANGED <<mro, attr, table, epoch, todo, at, prior>>
      /\ \A u \in Thread \ {t} :
           /\ pc'[u] = pc[u] /\ td'[u] = td[u] /\ name'[u] = name[u]
           /\ value'[u] = value[u] /\ seenEpoch'[u] = seenEpoch[u] /\ right'[u] = right[u]
      /\ DOMAIN right' = Thread
  <2>1. CASE Probe(t) \/ ProbeAgain(t)
    BY <1>1, <2>1 DEF Probe, ProbeAgain
  <2>2. CASE Mark(t) \/ ReadEpoch(t) \/ \E o \in Object, tp \in Type : SetClass(t, o, tp)
    BY <1>1, <2>2 DEF Mark, ReadEpoch, SetClass
  <2>3. CASE Lookup(t) \/ LookupNext(t)
    BY <1>1, <2>3 DEF Lookup, LookupNext
  <2>4. CASE Return(t)
    BY <1>1, <2>4 DEF Return
  <2> QED
    BY <2>1, <2>2, <2>3, <2>4
<1>3. {pc[t], pc'[t]} \cap {"modified", "visit", "subclasses"} = {}
  <2>1. CASE Probe(t) \/ ProbeAgain(t)
    BY <1>1, <2>1 DEF Probe, ProbeAgain
  <2>2. CASE Mark(t) \/ ReadEpoch(t) \/ \E o \in Object, tp \in Type : SetClass(t, o, tp)
    BY <1>1, <2>2 DEF Mark, ReadEpoch, SetClass
  <2>3. CASE Lookup(t) \/ LookupNext(t)
    BY <1>1, <2>3 DEF Lookup, LookupNext
  <2>4. CASE Return(t)
    BY <1>1, <2>4 DEF Return
  <2> QED
    BY <2>1, <2>2, <2>3, <2>4
<1>4. ~Return(t) => right'[t] = right[t] /\ td'[t] = td[t] /\ name'[t] = name[t]
  BY DEF Probe, ProbeAgain, Mark, ReadEpoch, SetClass, Lookup, LookupNext
<1>5. t \in Active' => t \in Active /\ ~Return(t)
  BY <1>1 DEF Active, Probe, ProbeAgain, Mark, ReadEpoch, SetClass, Lookup, LookupNext, Return
<1>6. t \in Active' =>
        /\ Resolve(td'[t], name'[t]) \in right'[t]
        /\ table[td'[t]][name'[t]] \in right'[t] \cup {None}
        /\ \A u \in Thread \ {t} :
             Timely(u) /\ td[u] = td'[t] /\ name[u] = name'[t] => value[u] \in right'[t]
  BY <1>4, <1>5 DEF DInv, NowRight, EntryRight, FoundRight
<1>7. pc'[t] = "publish" => value'[t] = Resolve(td'[t], name'[t])
  <2>1. CASE Lookup(t)
    BY <1>1, <2>1 DEF Lookup
  <2>2. CASE ~Lookup(t)
    BY <1>1, <2>2 DEF Probe, ProbeAgain, Mark, ReadEpoch, SetClass, LookupNext, Return
  <2> QED
    BY <2>1, <2>2
<1>8. pc'[t] \in {"publish", "return"} => value'[t] \in right'[t]
  <2>1. CASE Probe(t) \/ ProbeAgain(t)
    <3>1. t \in Active /\ right' = right /\ value'[t] = table[td[t]][name[t]]
      BY <1>1, <2>1 DEF Probe, ProbeAgain, Active
    <3>2. pc'[t] \in {"publish", "return"} => value'[t] # None
      BY <1>1, <2>1 DEF Probe, ProbeAgain
    <3> QED
      BY <3>1, <3>2 DEF DInv, EntryRight
  <2>2. CASE Mark(t) \/ ReadEpoch(t) \/ \E o \in Object, tp \in Type : SetClass(t, o, tp)
    BY <1>1, <2>2 DEF Mark, ReadEpoch, SetClass
  <2>3. CASE Lookup(t)
    <3>1. t \in Active /\ right' = right /\ value'[t] = Resolve(td[t], name[t])
      BY <1>1, <2>3 DEF Lookup, Active
    <3> QED
      BY <3>1 DEF DInv, NowRight
  <2>4. CASE LookupNext(t)
    BY <2>4 DEF LookupNext
  <2>5. CASE Return(t)
    BY <1>1, <2>5 DEF Return
  <2> QED
    BY <2>1, <2>2, <2>3, <2>4, <2>5
<1> HIDE DEF Goto, Set, shared, call, walk
<1> QED
  BY <1>2, <1>3, <1>6, <1>7, <1>8, OwnStep

\* DInv is preserved when a call publishes what it found, or has to look again.
LEMMA PublishDInv ==
  ASSUME IInv, DInv, NEW t \in Thread, Publish(t)
  PROVE  DInv'
<1> USE DEF DInv
<1>1. /\ pc[t] = "publish" /\ td[t] \in Exists /\ name[t] \in Name /\ t \in Active
      /\ UNCHANGED <<mro, attr, epoch, td, name, seenEpoch, right, todo, at, prior>>
      /\ pc'[t] \in {"return", "mark"}
      /\ pc'[t] = "return" => value'[t] = value[t]
      /\ \A u \in Thread \ {t} : pc'[u] = pc[u] /\ value'[u] = value[u]
  <2>1. pc[t] = "publish" /\ td[t] \in Exists /\ name[t] \in Name /\ t \in Active
    BY DEF Publish, IInv, Engaged, Active
  <2>2. pc \in [Thread -> Phases] /\ value \in [Thread -> {None, "override", "no_override"}]
    BY DEF IInv, TypeOK
  <2>3. CASE seenEpoch[t] = epoch
    BY <2>1, <2>2, <2>3 DEF Publish, walk, Goto
  <2>4. CASE seenEpoch[t] # epoch
    BY <2>1, <2>2, <2>4 DEF Publish, walk, Goto, Set
  <2> QED
    BY <2>1, <2>3, <2>4
<1>2. \A s \in Exists, m \in Name :
        \/ table'[s][m] = table[s][m]
        \/ s = td[t] /\ m = name[t] /\ table'[s][m] = value[t] /\ Timely(t)
  <2>1. table \in [Exists -> [Name -> {None, "override", "no_override"}]]
    BY DEF IInv, TypeOK
  <2>2. CASE table' = table
    BY <2>2
  <2>3. CASE /\ seenEpoch[t] = epoch
             /\ table' = [table EXCEPT ![td[t]][name[t]] = value[t]]
    BY <1>1, <2>1, <2>3 DEF Timely
  <2> QED
    BY <2>2, <2>3 DEF Publish
<1>3. /\ \A s, m : Resolve(s, m)' = Resolve(s, m)
      /\ \A w \in Thread : \A s : Coming(w, s)' <=> Coming(w, s)
      /\ \A w, s, m, x : Before(w, s, m, x)' <=> Before(w, s, m, x)
      /\ \A u \in Thread \ {t} : Timely(u)' <=> Timely(u)
      /\ ~Timely(t)'
      /\ Active' \subseteq Active
  BY <1>1 DEF Resolve, Coming, Before, Timely, Active
<1>4. StaleKnown'
  <2> SUFFICES ASSUME NEW s \in Exists, NEW m \in Name
               PROVE  \/ table'[s][m] \in {None, Resolve(s, m)}
                      \/ \E w \in Thread : Coming(w, s) /\ Before(w, s, m, table'[s][m])
    BY <1>1, <1>3 DEF StaleKnown, Exists
  <2>1. CASE table'[s][m] = table[s][m]
    BY <2>1 DEF StaleKnown
  <2>2. CASE table'[s][m] # table[s][m]
    <3>1. s = td[t] /\ m = name[t] /\ table'[s][m] = value[t] /\ Timely(t)
      BY <1>2, <2>2
    <3> QED
      BY <3>1 DEF FoundKnown, Coming
  <2> QED
    BY <2>1, <2>2
<1>5. FoundKnown'
  <2> SUFFICES ASSUME NEW u \in Thread, Timely(u)',
                      value'[u] # Resolve(td[u], name[u])
               PROVE  \E w \in Thread : /\ pc'[w] = "modified" /\ at[w] \in Range(mro[td[u]])
                                        /\ Before(w, td[u], name[u], value'[u])
    BY <1>1, <1>3 DEF FoundKnown
  <2>1. u # t /\ Timely(u) /\ value'[u] = value[u]
    BY <1>1, <1>3
  <2>2. PICK w \in Thread : /\ pc[w] = "modified" /\ at[w] \in Range(mro[td[u]])
                            /\ Before(w, td[u], name[u], value[u])
    BY <2>1 DEF FoundKnown
  <2> QED
    BY <1>1, <2>1, <2>2
<1>6. NowRight'
  BY <1>1, <1>3 DEF NowRight
<1>7. EntryRight'
  <2> SUFFICES ASSUME NEW u \in Active
               PROVE  table'[td[u]][name[u]] \in right[u] \cup {None}
    BY <1>1, <1>3 DEF EntryRight
  <2>1. td[u] \in Exists /\ name[u] \in Name
    BY DEF IInv, Engaged, Active
  <2>2. CASE table'[td[u]][name[u]] = table[td[u]][name[u]]
    BY <2>2 DEF EntryRight
  <2>3. CASE table'[td[u]][name[u]] # table[td[u]][name[u]]
    BY <1>2, <2>1, <2>3 DEF FoundRight
  <2> QED
    BY <2>2, <2>3
<1>8. FoundRight'
  <2> SUFFICES ASSUME NEW u \in Thread, NEW v \in Active', Timely(u)',
                      td[v] = td[u], name[v] = name[u]
               PROVE  value'[u] \in right[v]
    BY <1>1 DEF FoundRight
  <2>1. u # t /\ Timely(u) /\ value'[u] = value[u] /\ v \in Active
    BY <1>1, <1>3
  <2> QED
    BY <2>1 DEF FoundRight
<1>9. HeldRight'
  BY <1>1 DEF HeldRight
<1> QED
  BY <1>1, <1>4, <1>5, <1>6, <1>7, <1>8, <1>9

\* A step of a walk leaves what calls hold alone; tables only lose entries.
LEMMA WalkStep ==
  ASSUME IInv, DInv, NEW t \in Thread,
         UNCHANGED <<mro, attr, call>>,
         DOMAIN prior' = Thread,
         \A u \in Thread \ {t} :
           pc'[u] = pc[u] /\ at'[u] = at[u] /\ todo'[u] = todo[u] /\ prior'[u] = prior[u],
         pc[t] \in {"modified", "visit", "subclasses"},
         pc'[t] \in {"visit", "subclasses", "idle"},
         pc[t] = "modified" <=> epoch' # epoch,
         epoch' \in {epoch, epoch + 1},
         \A s \in Exists, m \in Name : table'[s][m] \in {None, table[s][m]},
         \A s \in Exists, m \in Name : Coming(t, s) =>
           table'[s][m] = None \/ (Coming(t, s)' /\ prior'[t] = prior[t])
  PROVE  DInv'
<1> USE DEF DInv
<1>1. /\ \A s, m : Resolve(s, m)' = Resolve(s, m)
      /\ Active' = Active
      /\ UNCHANGED <<td, name, value, seenEpoch, right>>
  BY DEF Resolve, Active, call
<1>2. \A u \in Thread : Timely(u)' => Timely(u) /\ pc[t] # "modified"
  <2> SUFFICES ASSUME NEW u \in Thread, Timely(u)'
               PROVE  Timely(u) /\ pc[t] # "modified"
    OBVIOUS
  <2>1. u # t /\ pc[u] = "publish" /\ seenEpoch[u] = epoch'
    BY <1>1 DEF Timely
  <2>2. seenEpoch[u] <= epoch /\ seenEpoch[u] \in Nat /\ epoch \in Nat
    BY TrampolineAssumption DEF IInv, EpochBound, TypeOK
  <2>3. epoch' = epoch
    BY <2>1, <2>2
  <2> QED
    BY <2>1, <2>3 DEF Timely
<1>3. FoundKnown'
  <2> SUFFICES ASSUME NEW u \in Thread, Timely(u)',
                      value[u] # Resolve(td[u], name[u])
               PROVE  \E w \in Thread : /\ pc'[w] = "modified" /\ at'[w] \in Range(mro[td[u]])
                                        /\ Before(w, td[u], name[u], value[u])'
    BY <1>1 DEF FoundKnown
  <2>1. PICK w \in Thread : /\ pc[w] = "modified" /\ at[w] \in Range(mro[td[u]])
                            /\ Before(w, td[u], name[u], value[u])
    BY <1>2 DEF FoundKnown
  <2>2. w # t
    BY <1>2, <2>1
  <2> QED
    BY <1>1, <2>1, <2>2 DEF Before
<1>7. StaleKnown'
  <2> SUFFICES ASSUME NEW s \in Exists, NEW m \in Name,
                      table'[s][m] \notin {None, Resolve(s, m)}
               PROVE  \E w \in Thread :
                        Coming(w, s)' /\ Before(w, s, m, table[s][m])' /\ table'[s][m] = table[s][m]
    BY <1>1 DEF StaleKnown, Exists, Before
  <2>1. table'[s][m] = table[s][m]
    OBVIOUS
  <2>2. PICK w \in Thread : Coming(w, s) /\ Before(w, s, m, table[s][m])
    BY <2>1 DEF StaleKnown
  <2>3. CASE w = t
    BY <2>1, <2>2, <2>3 DEF Before
  <2>4. CASE w # t
    BY <2>1, <2>2, <2>4 DEF Before, Coming
  <2> QED
    BY <2>3, <2>4
<1>4. NowRight' /\ HeldRight'
  BY <1>1 DEF NowRight, HeldRight
<1>5. EntryRight'
  <2> SUFFICES ASSUME NEW u \in Active
               PROVE  table'[td[u]][name[u]] \in right[u] \cup {None}
    BY <1>1 DEF EntryRight
  <2>1. td[u] \in Exists /\ name[u] \in Name
    BY DEF IInv, Engaged, Active
  <2> QED
    BY <2>1 DEF EntryRight
<1>6. FoundRight'
  BY <1>1, <1>2 DEF FoundRight
<1> QED
  BY <1>1, <1>3, <1>4, <1>5, <1>6, <1>7

\* DInv is preserved by the steps of a walk.
LEMMA WalksDInv ==
  ASSUME IInv, DInv, NEW t \in Thread,
         \/ EpochInc(t) \/ ListSubclasses(t) \/ WalkDone(t)
         \/ \E tp \in Type : Visit(t, tp)
  PROVE  DInv'
<1> USE DEF Goto, Set, shared, walk
<1>1. /\ pc \in [Thread -> Phases] /\ at \in [Thread -> Exists \cup {None}]
      /\ todo \in [Thread -> SUBSET Exists] /\ DOMAIN prior = Thread
      /\ table \in [Exists -> [Name -> {None, "override", "no_override"}]]
      /\ epoch \in Nat
  BY TrampolineAssumption DEF IInv, TypeOK, DInv
<1>2. CASE EpochInc(t)
  <2>1. /\ pc[t] = "modified" /\ pc' = [pc EXCEPT ![t] = "visit"] /\ epoch' = epoch + 1
        /\ todo' = [todo EXCEPT ![t] = {at[t]}] /\ at' = [at EXCEPT ![t] = None]
        /\ UNCHANGED <<mro, attr, table, call, prior>>
    BY <1>2 DEF EpochInc
  <2>2. \A s : Coming(t, s) => Coming(t, s)'
    BY <1>1, <2>1 DEF Coming
  <2> QED
    BY <1>1, <2>1, <2>2, WalkStep
<1>3. CASE ListSubclasses(t)
  <2>1. /\ pc[t] = "subclasses" /\ pc' = [pc EXCEPT ![t] = "visit"]
        /\ todo' = [todo EXCEPT ![t] = todo[t] \cup Subclasses(at[t])]
        /\ at' = [at EXCEPT ![t] = None]
        /\ UNCHANGED <<mro, attr, table, epoch, call, prior>>
    BY <1>3 DEF ListSubclasses
  <2>2. ASSUME NEW s \in Exists, Coming(t, s)
        PROVE  Coming(t, s)'
    <3>1. todo[t] \cap Range(mro[s]) # {} \/ Subclasses(at[t]) \cap Range(mro[s]) # {}
      BY <2>1, <2>2, Child DEF Coming, IInv
    <3>2. pc'[t] = "visit" /\ todo'[t] = todo[t] \cup Subclasses(at[t])
      BY <1>1, <2>1
    <3> QED
      BY <2>1, <3>1, <3>2 DEF Coming
  <2>3. /\ pc'[t] = "visit"
        /\ \A u \in Thread \ {t} : pc'[u] = pc[u] /\ at'[u] = at[u] /\ todo'[u] = todo[u]
    BY <1>1, <2>1
  <2> QED
    BY <1>1, <2>1, <2>2, <2>3, WalkStep
<1>4. CASE WalkDone(t)
  <2>1. /\ pc[t] = "visit" /\ todo[t] = {} /\ pc' = [pc EXCEPT ![t] = "idle"]
        /\ prior' = [prior EXCEPT ![t] = <<>>]
        /\ UNCHANGED <<mro, attr, table, epoch, call, todo, at>>
    BY <1>4 DEF WalkDone
  <2>2. \A s : ~Coming(t, s)
    BY <2>1 DEF Coming
  <2> QED
    BY <1>1, <2>1, <2>2, WalkStep
<1>5. ASSUME NEW tp \in Type, Visit(t, tp)
      PROVE  DInv'
  <2>1. /\ pc[t] = "visit" /\ tp \in todo[t] /\ tp \in Exists
        /\ todo' = [todo EXCEPT ![t] = todo[t] \ {tp}]
        /\ UNCHANGED <<mro, attr, epoch, call, prior>>
    BY <1>1, <1>5 DEF Visit
  <2>2. \/ tp \notin marked /\ UNCHANGED <<table, at, pc>>
        \/ /\ tp \in marked
           /\ table' = [table EXCEPT ![tp] = Unresolved]
           /\ at' = [at EXCEPT ![t] = tp] /\ pc' = [pc EXCEPT ![t] = "subclasses"]
    BY <1>5 DEF Visit
  <2>3. \A s \in Exists, m \in Name :
          /\ table'[s][m] \in {None, table[s][m]}
          /\ s = tp /\ tp \in marked => table'[s][m] = None
    BY <1>1, <2>1, <2>2 DEF Unresolved
  <2>4. ASSUME NEW s \in Exists, NEW m \in Name, Coming(t, s), table'[s][m] # None
        PROVE  Coming(t, s)'
    <3>1. tp \in Range(mro[s]) => tp \in marked /\ s # tp
      BY <2>3, <2>4 DEF IInv, MarksClosed, Range
    <3>2. CASE tp \in Range(mro[s])
      BY <1>1, <2>1, <2>2, <3>1, <3>2 DEF Coming
    <3>3. CASE tp \notin Range(mro[s])
      BY <1>1, <2>1, <2>2, <2>4, <3>3 DEF Coming
    <3> QED
      BY <3>2, <3>3
  <2>5. /\ pc'[t] \in {"visit", "subclasses"}
        /\ \A u \in Thread \ {t} : pc'[u] = pc[u] /\ at'[u] = at[u] /\ todo'[u] = todo[u]
    BY <1>1, <2>1, <2>2
  <2> QED
    BY <1>1, <2>1, <2>3, <2>4, <2>5, WalkStep
<1> QED
  BY <1>2, <1>3, <1>4, <1>5

\* DInv is preserved when an attribute of a type is assigned or deleted.
LEMMA SetAttrDInv ==
  ASSUME IInv, DInv, NEW t \in Thread, NEW tp \in Type, NEW n \in Name,
         NEW a \in {None, "cpp", "py"}, SetAttr(t, tp, n, a)
  PROVE  DInv'
<1> USE DEF DInv
<1>1. /\ pc[t] = "idle" /\ tp \in Exists /\ mro' = mro
      /\ attr' = [attr EXCEPT ![tp][n] = a]
      /\ pc' = [pc EXCEPT ![t] = "modified"] /\ at' = [at EXCEPT ![t] = tp]
      /\ prior' = [prior EXCEPT ![t] = [s \in Exists |-> [m \in Name |-> Resolve(s, m)]]]
      /\ right' = [u \in Thread |->
           IF u \in Calling THEN right[u] \cup {Find(mro'[td[u]], attr', name[u])}
                            ELSE right[u]]
      /\ UNCHANGED <<table, epoch, name, td, seenEpoch, value, todo>>
  BY DEF SetAttr, Modified, Goto, Set
<1>2. /\ pc \in [Thread -> Phases] /\ at \in [Thread -> Exists \cup {None}]
      /\ attr \in [Exists -> [Name -> {None, "cpp", "py"}]]
      /\ mro \in [Exists -> Seq(Exists)]
      /\ value \in [Thread -> {None, "override", "no_override"}]
  BY DEF IInv, TypeOK
<1>3. /\ pc'[t] = "modified" /\ at'[t] = tp /\ DOMAIN prior' = Thread /\ DOMAIN right' = Thread
      /\ \A u \in Thread \ {t} : pc'[u] = pc[u] /\ at'[u] = at[u] /\ prior'[u] = prior[u]
      /\ \A s \in Exists, m \in Name :
           s \in DOMAIN prior'[t] /\ prior'[t][s][m] = Resolve(s, m)
      /\ \A u \in Thread : right[u] \subseteq right'[u]
  BY <1>1, <1>2
<1>4. /\ \A s, m, x : \A w \in Thread \ {t} : Before(w, s, m, x)' <=> Before(w, s, m, x)
      /\ \A s \in Exists : \A w \in Thread : Coming(w, s) => w # t /\ Coming(w, s)'
      /\ \A s \in Exists : tp \in Range(mro[s]) => Coming(t, s)'
      /\ \A s \in Exists, m \in Name : tp \notin Range(mro[s]) => Resolve(s, m)' = Resolve(s, m)
      /\ \A u \in Thread : Timely(u)' => u # t /\ Timely(u)
      /\ Active' \subseteq Active /\ Exists' = Exists
  <2>1. /\ \A s, m, x : \A w \in Thread \ {t} : Before(w, s, m, x)' <=> Before(w, s, m, x)
        /\ \A s \in Exists : \A w \in Thread : Coming(w, s) => w # t /\ Coming(w, s)'
        /\ \A s \in Exists : tp \in Range(mro[s]) => Coming(t, s)'
    BY <1>1, <1>3 DEF Before, Coming
  <2>2. ASSUME NEW s \in Exists, NEW m \in Name, tp \notin Range(mro[s])
        PROVE  Resolve(s, m)' = Resolve(s, m)
    <3>1. \A i \in DOMAIN mro[s] : attr'[mro[s][i]] = attr[mro[s][i]]
      BY <1>1, <1>2, <2>2 DEF Range
    <3> QED
      BY <1>1, <1>2, <3>1, SameAnswer DEF Resolve
  <2>3. /\ \A u \in Thread : Timely(u)' => u # t /\ Timely(u)
        /\ Active' \subseteq Active /\ Exists' = Exists
    BY <1>1, <1>3 DEF Timely, Active, Exists
  <2> QED
    BY <2>1, <2>2, <2>3
<1>5. \A u \in Active : td[u] \in Exists /\ name[u] \in Name
  BY DEF Active, IInv, Engaged
<1>6. StaleKnown'
  <2> SUFFICES ASSUME NEW s \in Exists, NEW m \in Name,
                      table[s][m] \notin {None, Resolve(s, m)'}
               PROVE  \E w \in Thread : Coming(w, s)' /\ Before(w, s, m, table[s][m])'
    BY <1>1, <1>4 DEF StaleKnown
  <2>1. CASE table[s][m] = Resolve(s, m)
    <3>1. Coming(t, s)' /\ s \in DOMAIN prior'[t] /\ prior'[t][s][m] = table[s][m]
      BY <1>3, <1>4, <2>1
    <3> QED
      BY <1>1, <3>1 DEF Before
  <2>2. CASE table[s][m] # Resolve(s, m)
    <3>1. PICK w \in Thread : Coming(w, s) /\ Before(w, s, m, table[s][m])
      BY <2>2 DEF StaleKnown
    <3>2. w # t /\ Coming(w, s)'
      BY <1>4, <3>1
    <3> QED
      BY <1>1, <1>3, <3>1, <3>2 DEF Before
  <2> QED
    BY <2>1, <2>2
<1>7. FoundKnown'
  <2> SUFFICES ASSUME NEW u \in Thread, Timely(u),
                      value[u] # Resolve(td[u], name[u])'
               PROVE  \E w \in Thread : /\ pc'[w] = "modified" /\ at'[w] \in Range(mro[td[u]])
                                        /\ Before(w, td[u], name[u], value[u])'
    BY <1>1, <1>4 DEF FoundKnown
  <2>0. u \in Active
    BY DEF Timely, Active
  <2>1. td[u] \in Exists /\ name[u] \in Name
    BY <1>5, <2>0
  <2>2. CASE value[u] = Resolve(td[u], name[u])
    <3>1. tp \in Range(mro[td[u]])
      BY <1>1, <1>4, <2>1, <2>2
    <3>2. td[u] \in DOMAIN prior'[t] /\ prior'[t][td[u]][name[u]] = value[u]
      BY <1>3, <2>1, <2>2
    <3> QED
      BY <1>1, <1>3, <3>1, <3>2 DEF Before
  <2>3. CASE value[u] # Resolve(td[u], name[u])
    <3>1. PICK w \in Thread : /\ pc[w] = "modified" /\ at[w] \in Range(mro[td[u]])
                              /\ Before(w, td[u], name[u], value[u])
      BY <2>3 DEF FoundKnown
    <3>2. w # t
      BY <1>1, <3>1
    <3> QED
      BY <1>1, <1>3, <3>1, <3>2 DEF Before
  <2> QED
    BY <2>2, <2>3
<1>8. NowRight'
  <2> SUFFICES ASSUME NEW u \in Active
               PROVE  Find(mro'[td[u]], attr', name[u]) \in right'[u]
    BY <1>1, <1>4 DEF NowRight, Resolve
  <2>1. td[u] # None
    BY <1>5, TrampolineAssumption DEF IInv, TypeOK
  <2> QED
    BY <1>1, <2>1 DEF Calling, Active
<1>9. EntryRight' /\ FoundRight'
  <2>1. \A u \in Active' : u \in Active /\ u \in Thread /\ right[u] \subseteq right'[u]
    BY <1>3, <1>4 DEF Active
  <2>2. EntryRight'
    BY <1>1, <2>1 DEF EntryRight
  <2>3. FoundRight'
    <3> SUFFICES ASSUME NEW u \in Thread, NEW v \in Active', Timely(u)',
                        td[v] = td[u], name[v] = name[u]
                 PROVE  value[u] \in right'[v]
      BY <1>1 DEF FoundRight
    <3>1. Timely(u)
      BY <1>4
    <3> QED
      BY <2>1, <3>1 DEF FoundRight
  <2> QED
    BY <2>2, <2>3
<1>10. HeldRight'
  BY <1>1, <1>3 DEF HeldRight
<1> QED
  BY <1>3, <1>6, <1>7, <1>8, <1>9, <1>10

\* DInv is preserved when a class appears or disappears.
LEMMA TypesDInv ==
  ASSUME IInv, DInv, IInv',
         \/ \E t \in Thread, tp, base \in Type : NewSubclass(t, tp, base)
         \/ \E tp \in Type : CollectType(tp)
  PROVE  DInv'
<1> USE DEF DInv
<1> DEFINE E == Exists \cap Exists'
<1>1. /\ UNCHANGED <<epoch, pc, name, td, seenEpoch, value, right, todo, at, prior>>
      /\ \A s \in E : mro'[s] = mro[s] /\ attr'[s] = attr[s] /\ table'[s] = table[s]
      /\ \A s \in Exists' \ E : \A m \in Name : table'[s][m] = None
  <2>1. ASSUME NEW t \in Thread, NEW tp \in Type, NEW base \in Type, NewSubclass(t, tp, base)
        PROVE  /\ UNCHANGED <<epoch, pc, name, td, seenEpoch, value, right, todo, at, prior>>
               /\ \A s \in E : mro'[s] = mro[s] /\ attr'[s] = attr[s] /\ table'[s] = table[s]
               /\ \A s \in Exists' \ E : \A m \in Name : table'[s][m] = None
    <3>1. /\ UNCHANGED <<epoch, pc, call, walk>> /\ tp \notin Exists
          /\ mro' = [s \in Exists \cup {tp} |-> IF s = tp THEN <<tp>> \o mro[base] ELSE mro[s]]
          /\ table' = [s \in Exists \cup {tp} |-> IF s = tp THEN Unresolved ELSE table[s]]
      BY <2>1 DEF NewSubclass
    <3>2. Exists' = Exists \cup {tp} /\ E = Exists
      BY <3>1 DEF Exists
    <3>3. \A s \in Exists : attr'[s] = attr[s]
      BY <2>1, <3>1 DEF NewSubclass
    <3> QED
      BY <3>1, <3>2, <3>3 DEF call, walk, Unresolved
  <2>2. ASSUME NEW tp \in Type, CollectType(tp)
        PROVE  /\ UNCHANGED <<epoch, pc, name, td, seenEpoch, value, right, todo, at, prior>>
               /\ \A s \in E : mro'[s] = mro[s] /\ attr'[s] = attr[s] /\ table'[s] = table[s]
               /\ \A s \in Exists' \ E : \A m \in Name : table'[s][m] = None
    BY <2>2 DEF CollectType, call, walk, Exists
  <2> QED
    BY <2>1, <2>2
<1>2. \A s \in E : \A m : Resolve(s, m)' = Resolve(s, m)
  <2> SUFFICES ASSUME NEW s \in E
               PROVE  \A m : Find(mro[s], attr', m) = Find(mro[s], attr, m)
    BY <1>1 DEF Resolve
  <2>1. mro[s] \in Seq(Exists) /\ Range(mro'[s]) \subseteq Exists' /\ Range(mro[s]) \subseteq Exists
    BY DEF IInv, TypeOK, Range
  <2>2. mro'[s] = mro[s]
    BY <1>1
  <2>3. \A i \in DOMAIN mro[s] : attr'[mro[s][i]] = attr[mro[s][i]]
    BY <1>1, <2>1, <2>2 DEF Range
  <2> QED
    BY <2>1, <2>3, SameAnswer
<1>3. /\ \A w \in Thread : \A s \in E : Coming(w, s) => Coming(w, s)'
      /\ \A w, s, m, x : Before(w, s, m, x)' <=> Before(w, s, m, x)
      /\ \A u \in Thread : Timely(u)' <=> Timely(u)
      /\ Active' = Active
  BY <1>1 DEF Coming, Before, Timely, Active
<1>4. \A u \in Active : td[u] \in E /\ name[u] \in Name
  <2> SUFFICES ASSUME NEW u \in Active
               PROVE  td[u] \in E /\ name[u] \in Name
    OBVIOUS
  <2>1. td[u] \in Exists /\ name[u] \in Name
    BY DEF Active, IInv, Engaged
  <2>2. td[u] \in Exists'
    BY <1>1 DEF Active, IInv, Engaged
  <2> QED
    BY <2>1, <2>2
<1> HIDE DEF E
<1>5. StaleKnown'
  <2> SUFFICES ASSUME NEW s \in Exists', NEW m \in Name,
                      table'[s][m] \notin {None, Resolve(s, m)'}
               PROVE  \E w \in Thread : Coming(w, s)' /\ Before(w, s, m, table[s][m])'
                                        /\ table'[s][m] = table[s][m]
    BY DEF StaleKnown, Before
  <2>1. s \in E /\ s \in Exists /\ table'[s][m] = table[s][m]
    BY <1>1 DEF E
  <2>2. PICK w \in Thread : Coming(w, s) /\ Before(w, s, m, table[s][m])
    BY <1>2, <2>1 DEF StaleKnown
  <2>3. Coming(w, s)'
    BY <1>3, <2>1, <2>2
  <2> QED
    BY <1>1, <2>1, <2>2, <2>3 DEF Before
<1>6. FoundKnown'
  <2> SUFFICES ASSUME NEW u \in Thread, Timely(u),
                      value[u] # Resolve(td[u], name[u])'
               PROVE  \E w \in Thread : /\ pc[w] = "modified" /\ at[w] \in Range(mro'[td[u]])
                                        /\ Before(w, td[u], name[u], value[u])'
    BY <1>1, <1>3 DEF FoundKnown
  <2>0. u \in Active
    BY DEF Timely, Active
  <2>1. td[u] \in E /\ name[u] \in Name
    BY <1>4, <2>0
  <2>2. value[u] # Resolve(td[u], name[u])
    BY <1>1, <1>2, <2>1
  <2>3. PICK w \in Thread : /\ pc[w] = "modified" /\ at[w] \in Range(mro[td[u]])
                            /\ Before(w, td[u], name[u], value[u])
    BY <2>2 DEF FoundKnown
  <2> QED
    BY <1>1, <2>1, <2>3 DEF Before
<1>7. NowRight'
  <2> SUFFICES ASSUME NEW u \in Active
               PROVE  Resolve(td[u], name[u])' \in right[u]
    BY <1>1, <1>3 DEF NowRight
  <2>1. Resolve(td[u], name[u])' = Resolve(td[u], name[u])
    BY <1>1, <1>2, <1>4
  <2> QED
    BY <2>1 DEF NowRight
<1>8. EntryRight' /\ FoundRight' /\ HeldRight'
  <2>1. EntryRight'
    BY <1>1, <1>3, <1>4 DEF EntryRight
  <2> QED
    BY <1>1, <1>3, <2>1 DEF FoundRight, HeldRight
<1> QED
  BY <1>1, <1>5, <1>6, <1>7, <1>8

\* Nobody has an answer initially.
LEMMA InitDInv ==
  ASSUME Init
  PROVE  DInv
<1>1. Active = {} /\ \A t \in Thread : pc[t] = "idle"
  BY DEF Init, Active
<1>2. \A s \in Exists, m \in Name : table[s][m] = None
  BY DEF Init, Exists, Unresolved
<1> QED
  BY <1>1, <1>2 DEF Init, DInv, StaleKnown, FoundKnown, Timely, NowRight, EntryRight,
                    FoundRight, HeldRight

\* Every step preserves DInv.
LEMMA NextDInv ==
  ASSUME Tame, Rebase = "never", AtomicLookup, IInv, DInv, [Next]_vars
  PROVE  DInv'
<1>1. CASE UNCHANGED vars
  <2> USE <1>1 DEF vars, shared, call, walk, DInv
  <2>1. Active' = Active /\ \A u : Timely(u)' <=> Timely(u)
    BY DEF Active, Timely
  <2>2. StaleKnown'
    BY DEF StaleKnown, Exists, Resolve, Coming, Before
  <2>3. FoundKnown'
    BY <2>1 DEF FoundKnown, Resolve, Before
  <2>4. NowRight' /\ EntryRight' /\ FoundRight' /\ HeldRight'
    BY <2>1 DEF NowRight, EntryRight, FoundRight, HeldRight, Resolve
  <2> QED
    BY <2>2, <2>3, <2>4
<1>2. ASSUME NEW t \in Thread, Step(t)
      PROVE  DInv'
  <2>1. CASE Probe(t) \/ Mark(t) \/ ReadEpoch(t) \/ ProbeAgain(t) \/ Lookup(t)
             \/ LookupNext(t) \/ Return(t)
    BY <2>1, CallsDInv
  <2>2. CASE EpochInc(t) \/ ListSubclasses(t) \/ WalkDone(t) \/ \E tp \in Type : Visit(t, tp)
    BY <2>2, WalksDInv
  <2>3. CASE Reread(t) \/ Publish(t)
    BY <2>3, ReadsDInv, PublishDInv
  <2> QED
    BY <1>2, <2>1, <2>2, <2>3 DEF Step
<1>3. ASSUME NEW t \in Thread, Program(t)
      PROVE  DInv'
  <2>1. CASE \E o \in Object, n \in Name : Enter(t, o, n)
    BY <2>1, ReadsDInv
  <2>2. CASE \E tp \in Type, n \in Name, a \in {None, "cpp", "py"} : SetAttr(t, tp, n, a)
    BY <2>2, SetAttrDInv
  <2>3. CASE \E tp, base \in Type : SetBases(t, tp, base) \/ NewSubclass(t, tp, base)
    <3>1. ASSUME NEW tp \in Type, NEW base \in Type, NewSubclass(t, tp, base)
          PROVE  DInv'
      <4>1. IInv'
        BY <3>1, NewSubclassInv
      <4> QED
        BY <3>1, <4>1, TypesDInv
    <3> QED
      BY <2>3, <3>1 DEF SetBases
  <2>4. CASE \E o \in Object, tp \in Type : SetClass(t, o, tp)
    BY <2>4, CallsDInv
  <2> QED
    BY <1>3, <2>1, <2>2, <2>3, <2>4 DEF Program
<1>4. CASE \E tp \in Type : CollectType(tp)
  <2>1. IInv'
    BY <1>4, CollectTypeInv
  <2> QED
    BY <1>4, <2>1, TypesDInv
<1> QED
  BY <1>1, <1>2, <1>3, <1>4 DEF Next

\* Virtual dispatch is linearizable where no program assigns to __bases__ and
\* type_lookup() is atomic: the answer of a call, from the table or looked up, was the
\* one of its class while the call was under way, or the one from before a
\* modification that was still invalidating (trampoline_enter).  Without either
\* restriction this is false with three threads.
THEOREM DispatchesRight ==
  ASSUME Tame, Rebase = "never", AtomicLookup
  PROVE  Spec => []DispatchRight
<1>1. Init => IInv /\ DInv
  BY InitInv, InitDInv
<1>2. IInv /\ DInv /\ [Next]_vars => IInv' /\ DInv'
  BY NextInv, NextDInv
<1>3. DInv => DispatchRight
  BY DEF DInv, HeldRight, DispatchRight
<1> QED
  BY <1>1, <1>2, <1>3, PTL DEF Spec
=============================================================================
