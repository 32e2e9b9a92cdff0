------------------------------ MODULE BoundMap ------------------------------
(* Maps bound with bind_map(), with std::map as the type of the container, and  *)
(* the cursor iterator over them, which keeps its position as a copy of the last *)
(* key and looks it up again on every step.  An operation or a step holds the    *)
(* lock of the map, hence is one step here.                                     *)
EXTENDS Integers, FiniteSets, SequencesExt

CONSTANTS Key,          \* integers, ordered as the keys of a std::map are
          Value, Map,
          Assignable,   \* whether values can be assigned (otherwise: only constructed)
          NoIter

VARIABLES map,          \* contents of the maps
          iter,         \* an iterator: owner, cursor, size, done
          freed         \* a loop has gone on from a node that was erased

bmVars == <<map, iter, freed>>

NoKey == -1                                             \* std::nullopt
Gone == Cardinality(Key) + 1                            \* (size_t) -1
Empty == [k \in {} |-> k]
Put(f, k, v) == [x \in DOMAIN f \cup {k} |-> IF x = k THEN v ELSE f[x]]
Drop(f, k) == [x \in DOMAIN f \ {k} |-> f[x]]

Order(f) == SetToSortSeq(DOMAIN f, LAMBDA i, j : i < j)     \* of iteration

Init == map = [m \in Map |-> Empty] /\ iter = NoIter /\ freed = FALSE

(* One of the maps changes.  lasting (a ghost) are the keys that have been in    *)
(* the map since its iterator was made.                                         *)
Store(m, f) == /\ map' = [map EXCEPT ![m] = f]
               /\ iter' = IF iter # NoIter /\ iter.owner = m
                          THEN [iter EXCEPT !.lasting = @ \cap DOMAIN f] ELSE iter

-----------------------------------------------------------------------------
(* map_set()                                                                    *)

\* Mutant: the element that is already there stays.
MapSetEmplace(f, k, v) == IF k \in DOMAIN f THEN f ELSE Put(f, k, v)
MapSet(f, k, v) ==
    LET emplace(g) == IF k \in DOMAIN g THEN g ELSE Put(g, k, v)
    IN  IF Assignable THEN Put(f, k, v)
        ELSE IF k \in DOMAIN f THEN emplace(Drop(f, k)) ELSE emplace(f)

SetItem(m, k, v) == Store(m, MapSet(map[m], k, v)) /\ UNCHANGED freed

DelItem(m, k) == k \in DOMAIN map[m] /\ Store(m, Drop(map[m], k)) /\ UNCHANGED freed

Clear(m) == Store(m, Empty) /\ UNCHANGED freed

\* Mutant: a map is updated with itself.
SkipsNever(m, m2) == FALSE
Skips(m, m2) == m = m2

\* The loop over m2 sets one element of m after the other; an element of a value
\* that cannot be assigned is erased first, with its node.
Updated(m, m2) == FoldLeft(LAMBDA f, k : MapSet(f, k, map[m2][k]), map[m], Order(map[m2]))
Update(m, m2) ==
    IF Skips(m, m2) THEN UNCHANGED bmVars
    ELSE /\ Store(m, Updated(m, m2))
         /\ freed' = (freed \/ (m = m2 /\ ~Assignable /\ map[m] # Empty))

Construct(m, m2) == Store(m, map[m2]) /\ UNCHANGED freed

-----------------------------------------------------------------------------
(* The cursor iterator, of the map or of one of its views.  Ghosts: the keys whose *)
(* elements it has yielded, those whose elements could not be converted (refused), *)
(* and how the last step ended.                                                   *)

MakeIterator(m) ==
    /\ iter' = [owner |-> m, cursor |-> NoKey, size |-> Cardinality(DOMAIN map[m]),
                done |-> FALSE, yielded |-> <<>>, refused |-> {},
                lasting |-> DOMAIN map[m], last |-> "none"]
    /\ UNCHANGED <<map, freed>>

\* Mutant: the size is left alone, the next step may go on.
FailedNot(i) == i
Failed(i) == [i EXCEPT !.size = Gone]

\* Mutant: the end is not recorded.
FinishedNot(i) == i
Finished(i) == [i EXCEPT !.done = TRUE]

\* Mutant: a cursor that is gone starts over.
SuccessorRestart(o, k) == IF k \in ToSet(o) THEN SelectInSeq(o, LAMBDA x : x = k) + 1 ELSE 1
\* Mutant: a cursor that is gone counts as the end.
SuccessorEnd(o, k) == IF k \in ToSet(o) THEN SelectInSeq(o, LAMBDA x : x = k) + 1 ELSE Len(o) + 1
Successor(o, k) == IF k \in ToSet(o) THEN SelectInSeq(o, LAMBDA x : x = k) + 1 ELSE 0

Step ==
    LET o == Order(map[iter.owner])
        next == IF iter.cursor = NoKey THEN 1 ELSE Successor(o, iter.cursor)
    IN  CASE iter.done                      -> [iter EXCEPT !.last = "stop"]
          [] ~iter.done /\ Len(o) # iter.size -> Failed([iter EXCEPT !.last = "error"])
          [] OTHER ->
               IF next = 0 THEN Failed([iter EXCEPT !.last = "error"])
               ELSE IF next > Len(o) THEN Finished([iter EXCEPT !.last = "stop"])
               ELSE [iter EXCEPT !.cursor = o[next], !.last = "yield",
                                 !.yielded = Append(@, o[next])]

\* Bound: what is yielded twice.
NextStep == /\ iter # NoIter /\ Len(iter.yielded) <= Cardinality(Key)
         /\ iter' = Step /\ UNCHANGED <<map, freed>>

\* The caster of the element returns null, with a Python error: the cursor has moved
\* on, and the next step goes on from there.
\* Mutant: a step whose element is refused is tried again.
NextRefusedStays == /\ iter # NoIter /\ Step.last = "yield"
                    /\ iter' = [iter EXCEPT !.last = "refused", !.refused = @ \cup {Step.cursor}]
                    /\ UNCHANGED <<map, freed>>
NextRefused == /\ iter # NoIter /\ Step.last = "yield"
               /\ iter' = [Step EXCEPT !.last = "refused", !.refused = @ \cup {Step.cursor},
                                       !.yielded = iter.yielded]
               /\ UNCHANGED <<map, freed>>

\* Looking up the cursor, copying the next key or accessing the element throws; the
\* cursor is then the old one, none or the new one.
NextThrows ==
    /\ iter # NoIter /\ ~iter.done /\ iter.size = Cardinality(DOMAIN map[iter.owner])
    /\ \/ /\ iter.cursor # NoKey
          /\ iter' = Failed([iter EXCEPT !.last = "error"])
       \/ /\ Step.last = "yield"
          /\ \E cursor \in {NoKey, Step.cursor} :
                iter' = Failed([iter EXCEPT !.cursor = cursor, !.last = "error"])
    /\ UNCHANGED <<map, freed>>

-----------------------------------------------------------------------------
Next == \/ \E m \in Map, k \in Key, v \in Value : SetItem(m, k, v)
        \/ \E m \in Map, k \in Key : DelItem(m, k)
        \/ \E m \in Map : Clear(m)
        \/ \E m, m2 \in Map : Update(m, m2) \/ Construct(m, m2)
        \/ \E m \in Map : MakeIterator(m)
        \/ NextStep
        \/ NextRefused
        \/ NextThrows

Spec == Init /\ [][Next]_bmVars

-----------------------------------------------------------------------------
\* Updating a map merges the other one into it, whatever the values are capable
\* of, and never goes on from an erased node (bind_map.h:171-183).
UpdateRight ==
    /\ ~freed
    /\ \A m, m2 \in Map : m # m2 =>
         Updated(m, m2) = [k \in DOMAIN map[m] \cup DOMAIN map[m2] |->
                              IF k \in DOMAIN map[m2] THEN map[m2][k] ELSE map[m][k]]

\* An iterator over a map comes to no key twice, whatever happens to the map between
\* two steps (make_iterator.h:253-265): what it yields is ascending, and what it could
\* not convert is never yielded.
YieldsOnce ==
    iter # NoIter =>
        /\ \A i, j \in 1 .. Len(iter.yielded) : i < j => iter.yielded[i] < iter.yielded[j]
        /\ \A i \in 1 .. Len(iter.yielded) : iter.yielded[i] \notin iter.refused

\* When an iterator over a map ends it has yielded every key that was in the map all
\* the time, or has raised the error of the conversion of its element.
NoKeyMissed ==
    iter # NoIter /\ iter.last = "stop" =>
        iter.lasting \subseteq ToSet(iter.yielded) \cup iter.refused

\* An iterator that has raised StopIteration goes on raising it, and one that has
\* raised an error of its own, for a map that changed (test_stl_bind_map.py:286-303) or
\* an exception while it advanced, goes on raising errors, even when the map is
\* brought back to what it was.  An error of the element's conversion is not final.
StaysEndedStep ==
    iter # NoIter /\ iter.last \in {"stop", "error"} => iter'.last \in {iter.last, "none"}
StaysEnded == [][StaysEndedStep]_bmVars
=============================================================================
