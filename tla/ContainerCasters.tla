-------------------------- MODULE ContainerCasters --------------------------
(* Conversions between Python containers and C++ containers (stl/detail/*.h,    *)
(* stl/pair.h, stl/tuple.h) with the helpers of common.cpp that take a sequence  *)
(* or a mapping apart and build one.  One container of Python is converted, then *)
(* one of C++.  What matters is who owns a reference to each element while       *)
(* conversions of elements fail, or run Python code that changes the source.     *)
EXTENDS Integers, FiniteSets, SequencesExt

CONSTANTS Obj,           \* the elements
          Size,          \* size of arrays, pairs and tuples; bound on all containers
          Borrowing      \* kinds whose array seq_get() returns without a copy: "tuple",
                         \* and "list" with a GIL; none with the limited API

VARIABLES src,           \* the Python container: [kind, items]
          refs,          \* reference counts of the elements
          call           \* the conversion, or NoCall

ccVars == <<src, refs, call>>

Count(o, s) == Cardinality({i \in DOMAIN s : s[i] = o})
Exchange(got, lost) == refs' = [o \in Obj |-> refs[o] + Count(o, got) - Count(o, lost)]

\* One from Python has dir = "load", one to Python dir = "store".
NoCall == [dir |-> "none"]

(* A dictionary holds its keys and values alternately.  A lazy sequence makes    *)
(* its elements when asked; a text is a str or bytes object.                     *)
Kinds == {"tuple", "list", "dict", "set", "lazy", "text"}
Init == /\ src \in [kind : Kinds, items : BoundedSeq(Obj, 2 * Size)]
        /\ src.kind # "dict" => Len(src.items) <= Size
        /\ src.kind \in {"lazy", "text"} => src.items = <<>>
        /\ src.kind = "dict" => /\ Len(src.items) % 2 = 0
                               /\ \A i, j \in DOMAIN src.items : i < j /\ i % 2 = 1 /\ j % 2 = 1
                                     => src.items[i] # src.items[j]
        /\ src.kind = "set" => IsInjective(src.items)
        /\ refs = [o \in Obj |-> Count(o, src.items)]
        /\ call = NoCall

(* Python code that takes an element, or an entry, out of the source.            *)
Stride == IF src.kind = "dict" THEN 2 ELSE 1
Mutate == /\ src.kind \in {"list", "dict", "set"} /\ src.items # <<>>
          /\ LET keep == SubSeq(src.items, 1, Len(src.items) - Stride)
             IN  /\ src' = [src EXCEPT !.items = keep]
                 /\ Exchange(<<>>, SubSeq(src.items, Len(keep) + 1, Len(src.items)))
          /\ UNCHANGED call

-----------------------------------------------------------------------------
(* From Python.  items are the elements to convert, owned whether they are held  *)
(* by a temporary, got the converted ones.                                       *)

Load(caster, items, owned, pc) ==
    [dir |-> "load", caster |-> caster, items |-> items, owned |-> owned, i |-> 1,
     got |-> <<>>, pc |-> pc]

Refuse(caster) == call' = Load(caster, <<>>, FALSE, "over") /\ UNCHANGED <<src, refs>>

\* Mutant: the snapshot does not hold its elements.
SnapshotBorrowed(caster, items) == call' = Load(caster, items, FALSE, "loop") /\ UNCHANGED refs
Snapshot(caster, items) == call' = Load(caster, items, TRUE, "loop") /\ Exchange(items, <<>>)

TakeApart(caster) ==
    \/ /\ src.kind \in {"tuple", "list"}
       /\ IF src.kind \in Borrowing
          THEN call' = Load(caster, src.items, FALSE, "loop") /\ UNCHANGED refs
          ELSE Snapshot(caster, src.items)
       /\ UNCHANGED src
    \/ src.kind = "lazy" /\ Refuse(caster)               \* the sequence raises
    \/ src.kind = "lazy" /\ \E s \in [1 .. Size -> Obj] : Snapshot(caster, s) /\ UNCHANGED src

SeqGet == call = NoCall /\ IF src.kind \in {"text", "dict", "set"} THEN Refuse("list")
                         ELSE TakeApart("list")

SeqGetWithSize(caster) ==
    /\ call = NoCall
    /\ IF src.kind \in {"text", "dict", "set"} \/ (src.kind # "lazy" /\ Len(src.items) # Size)
       THEN Refuse(caster) ELSE TakeApart(caster)

\* mapping_get(): under the lock of a dictionary; of another mapping through a list
\* of its items, which may contain something else than pairs.
MappingGet == /\ call = NoCall
              /\ \/ Refuse("dict")
                 \/ src.kind = "dict" /\ Snapshot("dict", src.items) /\ UNCHANGED src

\* The set caster goes through an iterator (of a dictionary, over its keys) and holds
\* one element at a time.
IterGet == /\ call = NoCall
           /\ IF src.kind \in {"tuple", "list", "set", "dict"}
              THEN call' = Load("set", <<>>, FALSE, "iter") /\ UNCHANGED <<src, refs>>
              ELSE Refuse("set")

\* Mutant: a caster for pairs drops its temporary like one for lists.
KeepsTempNever == FALSE
KeepsTemp == call.caster = "pair"

\* Mutant: a failed conversion forgets the temporary.
TempForgotten == <<>>
Temp == IF call.owned THEN call.items ELSE <<>>

Loading(casters) == /\ call.dir = "load" /\ call.caster \in casters
                    /\ call.pc = "loop" /\ call.i <= Len(call.items)
Converts(n) == [call EXCEPT !.i = @ + n, !.got = @ \o SubSeq(call.items, call.i, call.i + n - 1)]
Fails == [call EXCEPT !.pc = "failed"]

\* One element is converted, or is not; an entry of a dictionary with both parts.
Convert == /\ Loading({"list", "array", "pair"})
           /\ call' \in {Converts(1), Fails} /\ UNCHANGED <<src, refs>>
ConvertEntry == /\ Loading({"dict"})
                /\ call' \in {Converts(2), Fails} /\ UNCHANGED <<src, refs>>

\* After the last one the temporary goes, except for pairs and tuples, which keep
\* it until the call is over.
Loaded ==
    /\ call.dir = "load" /\ call.pc \in {"loop", "failed"}
    /\ call.pc = "loop" => call.i > Len(call.items)
    /\ IF KeepsTemp THEN UNCHANGED refs /\ call' = [call EXCEPT !.pc =
                             IF @ = "loop" THEN "done" ELSE "over"]
       ELSE /\ Exchange(<<>>, Temp)
            /\ call' = [call EXCEPT !.owned = FALSE, !.pc = IF @ = "loop" THEN "done" ELSE "over"]
    /\ UNCHANGED src

\* The next element of the iterator; a set or dictionary that has changed raises.
ConvertNext ==
    /\ call.dir = "load" /\ call.pc = "iter"
    /\ \/ /\ call.i <= Len(src.items)
          /\ call' = [call EXCEPT !.items = <<src.items[call.i]>>, !.owned = TRUE, !.pc = "one"]
          /\ Exchange(<<src.items[call.i]>>, <<>>)
       \/ /\ call.i > Len(src.items)
          /\ call' = [call EXCEPT !.pc = "done"] /\ UNCHANGED refs
       \/ /\ src.kind \in {"set", "dict"}
          /\ call' = [call EXCEPT !.pc = "over"] /\ UNCHANGED refs
    /\ UNCHANGED src

ConvertOne ==
    /\ call.dir = "load" /\ call.pc = "one"
    /\ \/ call' = [call EXCEPT !.got = Append(@, call.items[1]), !.owned = FALSE,
                              !.items = <<>>, !.i = @ + Stride, !.pc = "iter"]
       \/ call' = [call EXCEPT !.owned = FALSE, !.items = <<>>, !.pc = "over"]
    /\ Exchange(<<>>, Temp) /\ UNCHANGED src

\* The function that was called is over: the casters go.
Release == /\ call.dir = "load"
           /\ call.pc \in {"done", "over"}
           /\ Exchange(<<>>, Temp)
           /\ call' = NoCall /\ UNCHANGED src

-----------------------------------------------------------------------------
(* To Python.  slots are the elements stored so far, each with a reference.      *)

Store(kind, n) == /\ call = NoCall
                  /\ call' = [dir |-> "store", kind |-> kind, n |-> n, slots |-> <<>>, pc |-> "loop"]
                  /\ UNCHANGED <<src, refs>>

Storing(kinds) == call.dir = "store" /\ call.pc = "loop" /\ call.kind \in kinds

\* A dictionary has two slots for each of its n entries.
Width == IF call.kind = "dict" THEN 2 ELSE 1

\* Mutant: the container is returned with the elements it has.
IsFullAny == TRUE
IsFull == Len(call.slots) = Width * call.n

\* seq_builder and tuple_new(): an element is converted to a new reference and put
\* in the next slot; the container is given up when a conversion fails, or when the
\* C++ container had fewer elements than it said.
PutNext(o) == /\ Len(call.slots) < call.n
              /\ call' = [call EXCEPT !.slots = Append(@, o)]
              /\ Exchange(<<o>>, <<>>) /\ UNCHANGED src
Put(o) == Storing({"list"}) /\ PutNext(o)
PutItem(o) == Storing({"tuple"}) /\ PutNext(o)

\* Mutant: the container is abandoned with its elements.
AbandonedKept(s) == <<>>
Abandoned(s) == s

Finish == /\ IF IsFull
             THEN call' = [call EXCEPT !.pc = "done"] /\ UNCHANGED refs
             ELSE /\ call' = [call EXCEPT !.slots = <<>>, !.pc = "failed"]
                  /\ Exchange(<<>>, Abandoned(call.slots))
          /\ UNCHANGED src
Commit == Storing({"list"}) /\ Finish
TupleNew == Storing({"tuple"}) /\ Finish

\* A dictionary: key and value are converted and stored; a key that is there already
\* (an equal one) has its value replaced.  The references of the caster then go.
SetEntry(k, e) ==
    /\ Storing({"dict"}) /\ Len(call.slots) < 2 * call.n
    /\ LET at == {p \in DOMAIN call.slots : p % 2 = 1 /\ call.slots[p] = k}
       IN  IF at = {}
           THEN /\ call' = [call EXCEPT !.slots = @ \o <<k, e>>]
                /\ Exchange(<<k, e>>, <<>>)
           ELSE \E p \in at : /\ call' = [call EXCEPT !.slots[p + 1] = e, !.n = @ - 1]
                              /\ Exchange(<<e>>, <<call.slots[p + 1]>>)
    /\ UNCHANGED src

AddKey(k) == /\ Storing({"set"}) /\ Len(call.slots) < call.n
             /\ IF k \in ToSet(call.slots)
                THEN call' = [call EXCEPT !.n = @ - 1] /\ UNCHANGED refs
                ELSE call' = [call EXCEPT !.slots = Append(@, k)] /\ Exchange(<<k>>, <<>>)
             /\ UNCHANGED src

\* The last one has been stored, or one could not be converted or stored.
CommitAll == Storing({"dict", "set"}) /\ Finish

Drop == /\ call.dir = "store" /\ call.pc \in {"done", "failed"}
        /\ Exchange(<<>>, call.slots) /\ call' = NoCall /\ UNCHANGED src

-----------------------------------------------------------------------------
Next == \/ Mutate
        \/ SeqGet \/ \E caster \in {"array", "pair"} : SeqGetWithSize(caster)
        \/ MappingGet \/ IterGet
        \/ Convert \/ ConvertEntry \/ Loaded \/ ConvertNext \/ ConvertOne \/ Release
        \/ \E kind \in {"list", "tuple", "dict", "set"}, n \in 0 .. Size : Store(kind, n)
        \/ \E o \in Obj : Put(o) \/ PutItem(o) \/ AddKey(o)
        \/ \E k, e \in Obj : SetEntry(k, e)
        \/ Commit \/ TupleNew \/ CommitAll \/ Drop

Spec == Init /\ [][Next]_ccVars

-----------------------------------------------------------------------------
Holders(o) == Count(o, src.items) + CASE call.dir = "none" -> 0
                                      [] call.dir = "load" -> Count(o, Temp)
                                      [] call.dir = "store" -> Count(o, call.slots)

\* Every reference to an element has an owner, and every owner its reference,
\* wherever a conversion fails: nothing leaks and nothing is released twice
\* (common.cpp:413-446, :650-705; nb_list.h, nb_dict.h, nb_set.h).
ItemRefsExact == \A o \in Obj : refs[o] = Holders(o)

\* The elements that are still to be converted are alive and, when the array of the
\* source is read directly, are still its elements, although converting the
\* earlier ones may have run Python code (common.cpp:459, :707).
ItemsAlive ==
    call.dir = "load" /\ call.pc \in {"loop", "one"} =>
        /\ \A i \in DOMAIN call.items : i >= call.i \/ call.pc = "one" => refs[call.items[i]] > 0
        /\ call.owned \/ call.items = src.items

\* What the casters of a pair or tuple refer to lives until the function that was
\* called is over, also when the elements were made on the fly (pair.h, temp_ref).
\* A vector of pointers has no such guarantee.
PairAlive ==
    call.dir = "load" /\ call.caster = "pair" /\ call.pc = "done" =>
        \A i \in DOMAIN call.got : refs[call.got[i]] > 0

\* A container is returned with all its elements or not at all.
AllOrNothing ==
    call.dir = "store" /\ call.pc = "done" => Len(call.slots) = Width * call.n
=============================================================================
