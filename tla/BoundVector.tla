---------------------------- MODULE BoundVector ----------------------------
(* Vectors bound with bind_vector(), the index-based iterator over them and   *)
(* the generic iterator over a C++ range (make_iterator).  An operation holds  *)
(* the lock of the vector, hence is one step.  Positions are zero-based, as in *)
(* the code; two arguments that are the same vector are the same variable.     *)
EXTENDS Integers, SequencesExt

CONSTANTS Elem, Vec,
          MaxLen,       \* bound: elements of a vector
          NoIter

VARIABLES vec,          \* the C++ vectors
          iter          \* an iterator: its position, and whether it has ended

bvVars == <<vec, iter>>

Npos == MaxLen + 1                              \* (size_t) -1
At(v, i) == v[i + 1]
Insert(v, i, x) == InsertAt(v, i + 1, x)
Erase(v, i) == RemoveAt(v, i + 1)
EraseRange(v, i, j) == SubSeq(v, 1, i) \o SubSeq(v, j + 1, Len(v))
Fail == Npos                                    \* an exception left the operation

Init == /\ vec = [v \in Vec |-> <<>>]
        /\ iter = NoIter

(* Python's slice object, and the bounds it has for a container of n elements. *)
Slice == [start : -(MaxLen + 1) .. MaxLen + 1, stop : -(MaxLen + 1) .. MaxLen + 1,
          step : {-2, -1, 1, 2}]
Compute(s, n) ==
    LET up == s.step > 0
        Clip(i) == CASE i < -n          -> IF up THEN 0 ELSE -1
                     [] i < 0 /\ i >= -n -> i + n
                     [] i >= n          -> IF up THEN n ELSE n - 1
                     [] OTHER           -> i
        start == Clip(s.start)
        stop == Clip(s.stop)
    IN  [start |-> start, stop |-> stop, step |-> s.step,
         length |-> CASE up /\ start < stop  -> (stop - start - 1) \div s.step + 1
                      [] ~up /\ stop < start -> (start - stop - 1) \div (-s.step) + 1
                      [] OTHER               -> 0]

Wrap(i, n) == LET j == IF i < 0 THEN i + n ELSE i
              IN  IF j < 0 \/ j >= n THEN Fail ELSE j

-----------------------------------------------------------------------------
(* Operations with a slice, with the loops of the code.                        *)

GetSlice(v, s) ==
    LET c == Compute(s, Len(v)) IN [i \in 1 .. c.length |-> At(v, c.start + (i - 1) * c.step)]

Stored(v, c, Src(_, _)) ==
    FoldLeft(LAMBDA w, i : [w EXCEPT ![c.start + (i - 1) * c.step + 1] = Src(w, i)],
             v, [i \in 1 .. c.length |-> i])
\* Mutant: the source is read while it is overwritten.
SetSliceInPlace(v, s, value, self) ==
    Stored(v, Compute(s, Len(v)), LAMBDA w, i : IF self THEN w[i] ELSE value[i])
SetSlice(v, s, value, self) ==
    LET copy == value IN Stored(v, Compute(s, Len(v)), LAMBDA w, i : copy[i])

\* Mutant: the bounds of a slice with a negative step are not exchanged.
DelSliceUnswapped(v, s) ==
    LET c == Compute(s, Len(v))
        stop == c.start + (c.length - 1) * c.step
    IN  FoldLeft(LAMBDA w, i : IF stop - (i - 1) * c.step \in 0 .. Len(w) - 1
                               THEN Erase(w, stop - (i - 1) * c.step) ELSE w,
                 v, [i \in 1 .. c.length |-> i])
DelSlice(v, s) ==
    LET c == Compute(s, Len(v))
        last == c.start + (c.length - 1) * c.step
        start == IF c.start > last THEN last ELSE c.start
        stop == IF c.start > last THEN c.start ELSE last
        step == IF c.start > last THEN -c.step ELSE c.step
    IN  CASE c.length = 0               -> v
          [] c.length > 0 /\ step = 1   -> EraseRange(v, start, stop + 1)
          [] c.length > 0 /\ step # 1   ->
                FoldLeft(LAMBDA w, i : Erase(w, stop - (i - 1) * step), v,
                         [i \in 1 .. c.length |-> i])

\* Mutant: the range of the source is inserted after its storage has moved.
ExtendedMoved(v, src, self) == IF self THEN v ELSE v \o src
Extended(v, src, self) ==
    IF self THEN FoldLeft(LAMBDA w, i : w \o <<At(w, i)>>, v, [i \in 1 .. Len(v) |-> i - 1])
            ELSE v \o src

-----------------------------------------------------------------------------
Put(a, v) == Len(v) <= MaxLen /\ vec' = [vec EXCEPT ![a] = v] /\ UNCHANGED iter

AppendItem(a, x) == Put(a, vec[a] \o <<x>>)

InsertItem(a, i, x) ==
    LET j == IF i < 0 THEN i + Len(vec[a]) ELSE i
    IN  0 <= j /\ j <= Len(vec[a]) /\ Put(a, Insert(vec[a], j, x))

Pop(a, i) == Wrap(i, Len(vec[a])) # Fail /\ Put(a, Erase(vec[a], Wrap(i, Len(vec[a]))))

Extend(a, b) == Put(a, Extended(vec[a], vec[b], a = b))

SetItem(a, i, x) ==
    LET j == Wrap(i, Len(vec[a])) IN j # Fail /\ Put(a, [vec[a] EXCEPT ![j + 1] = x])

SetItems(a, s, b) == /\ Compute(s, Len(vec[a])).length = Len(vec[b])
                     /\ Put(a, SetSlice(vec[a], s, vec[b], a = b))

DelItems(a, s) == Put(a, DelSlice(vec[a], s))

RemoveItem(a, x) == LET p == SelectInSeq(vec[a], LAMBDA y : y = x)
                 IN  p > 0 /\ Put(a, Erase(vec[a], p - 1))

Clear(a) == Put(a, <<>>)

\* A new vector: a copy, a slice, or the elements of a list.
Construct(a, b, s) == Put(a, GetSlice(vec[b], s))

-----------------------------------------------------------------------------
(* Iterators, one at a time.                                                   *)

MakeIndexIterator(a) == /\ iter' = [kind |-> "index", owner |-> a, index |-> 0, ended |-> FALSE]
                        /\ UNCHANGED vec

\* Mutant: an iterator at the end keeps its position.
StopKeeping(i) == i.index
Stop(i) == Npos

NextIndex == /\ iter # NoIter /\ iter.kind = "index"
             /\ iter' = IF iter.index >= Len(vec[iter.owner])
                        THEN [iter EXCEPT !.index = Stop(iter), !.ended = TRUE]
                        ELSE [iter EXCEPT !.index = @ + 1]
             /\ UNCHANGED vec

MakeIterator(n) == /\ iter' = [kind |-> "range", it |-> 0, end |-> n, first_or_done |-> TRUE,
                               got |-> {}, ended |-> FALSE]
                   /\ UNCHANGED vec

\* Mutant: reaching the end is not recorded.
AtEndForgotten == FALSE
AtEnd == TRUE

NextInRange ==
    /\ iter # NoIter /\ iter.kind = "range"
    /\ iter.it <= iter.end          \* bound: the increments past the end
    /\ LET it == IF iter.first_or_done THEN iter.it ELSE iter.it + 1
       IN  iter' = IF it = iter.end
                   THEN [iter EXCEPT !.it = it, !.first_or_done = AtEnd, !.ended = TRUE]
                   ELSE [iter EXCEPT !.it = it, !.first_or_done = FALSE, !.got = @ \cup {it}]
    /\ UNCHANGED vec

-----------------------------------------------------------------------------
Index == -(MaxLen + 1) .. MaxLen + 1

Next == \/ \E a \in Vec, x \in Elem : AppendItem(a, x) \/ RemoveItem(a, x)
        \/ \E a \in Vec, x \in Elem, i \in Index : InsertItem(a, i, x) \/ SetItem(a, i, x)
        \/ \E a \in Vec, i \in Index : Pop(a, i)
        \/ \E a, b \in Vec : Extend(a, b)
        \/ \E a, b \in Vec, s \in Slice : SetItems(a, s, b) \/ Construct(a, b, s)
        \/ \E a \in Vec, s \in Slice : DelItems(a, s)
        \/ \E a \in Vec : Clear(a) \/ MakeIndexIterator(a)
        \/ \E n \in 0 .. MaxLen : MakeIterator(n)
        \/ NextIndex
        \/ NextInRange

Spec == Init /\ [][Next]_bvVars

-----------------------------------------------------------------------------
(* The positions a slice selects, as Python defines them: those between start  *)
(* and stop (excluded) that lie a multiple of step after start.                *)
Selected(s, n) ==
    LET c == Compute(s, n)
    IN  {i \in 0 .. n - 1 :
            /\ \E k \in 0 .. n : i = c.start + k * c.step
            /\ IF c.step > 0 THEN i >= c.start /\ i < c.stop ELSE i <= c.start /\ i > c.stop}
Listed(S, up) == SetToSortSeq(S, LAMBDA i, j : IF up THEN i < j ELSE i > j)

\* Deleting, reading and assigning a slice of a vector do what Python's list
\* does, for every start, stop and step, also when the source of the assignment
\* is the vector itself (v[::-1] = v): bind_vector.h:192-246.
SlicesRight ==
    \A a \in Vec, s \in Slice :
        LET v == vec[a]
            sel == Selected(s, Len(v))
            pos == Listed(sel, s.step > 0)
            rest == Listed(0 .. Len(v) - 1 \ sel, TRUE)
        IN  /\ DelSlice(v, s) = [i \in 1 .. Len(rest) |-> At(v, rest[i])]
            /\ GetSlice(v, s) = [i \in 1 .. Len(pos) |-> At(v, pos[i])]
            /\ \A b \in Vec :
                 Len(vec[b]) = Len(pos) =>
                   LET w == SetSlice(v, s, vec[b], a = b)
                   IN  /\ Len(w) = Len(v)
                       /\ \A i \in 1 .. Len(pos) : At(w, pos[i]) = vec[b][i]
                       /\ \A i \in 0 .. Len(v) - 1 \ sel : At(w, i) = At(v, i)

\* Extending a vector by itself doubles it (bind_vector.h:165).
ExtendRight == \A a, b \in Vec : Extended(vec[a], vec[b], a = b) = vec[a] \o vec[b]

\* An index iterator that has raised StopIteration never yields again, even when
\* the vector has grown since (make_iterator.h:192).
StaysExhausted == iter # NoIter /\ iter.kind = "index" /\ iter.ended =>
                     iter.index >= Len(vec[iter.owner])

\* An iterator over a C++ range never moves past the end, however often it is
\* asked after StopIteration, and has come to every element when it ends
\* (make_iterator.h:123-134).
RangeVisitedOnce ==
    iter # NoIter /\ iter.kind = "range" =>
        /\ iter.it <= iter.end
        /\ iter.ended => iter.got = 0 .. iter.end - 1
=============================================================================
