-------------------------- MODULE InstanceContents --------------------------
(* The low-level interface nb::inst_* (nb_type.cpp): instances whose contents the *)
(* program constructs, destroys, copies and moves by hand.  A storage is the memory *)
(* inside an instance or a cell that C++ allocated; live counts the C++ objects that *)
(* were constructed there and not destroyed.                                        *)
EXTENDS Integers, FiniteSets

CONSTANTS Inst, Cell,
          Alias,         \* whether the program copies an instance onto a view of itself
          Detach,        \* whether it destructs views and fills them again
          None

VARIABLES inst,          \* an instance: [at, ready, destruct, cpp_delete, parent] or None
          live,          \* the objects in a storage
          cpp            \* the cells that C++ owns

conVars == <<inst, live, cpp>>

Storage == Inst \cup Cell

Init == /\ inst = [i \in Inst |-> None]
        /\ live = [s \in Storage |-> 0] /\ cpp = {}

Is(i) == inst[i] # None
At(s) == {i \in Inst : Is(i) /\ inst[i].at = s}
Instance(s, ready, destruct, delete, parent) ==
    [at |-> s, ready |-> ready, destruct |-> destruct, cpp_delete |-> delete, parent |-> parent]

CppNew(c) == /\ live[c] = 0 /\ At(c) = {} /\ c \notin cpp
             /\ live' = [live EXCEPT ![c] = 1] /\ cpp' = cpp \cup {c} /\ UNCHANGED inst
CppDelete(c) == /\ c \in cpp /\ At(c) = {}
                /\ live' = [live EXCEPT ![c] = @ - 1] /\ cpp' = cpp \ {c} /\ UNCHANGED inst

Alloc(i) == /\ ~Is(i)
            /\ inst' = [inst EXCEPT ![i] = Instance(i, FALSE, FALSE, FALSE, None)]
            /\ UNCHANGED <<live, cpp>>

AllocZero(i) == /\ ~Is(i)
                /\ inst' = [inst EXCEPT ![i] = Instance(i, TRUE, TRUE, FALSE, None)]
                /\ live' = [live EXCEPT ![i] = 1] /\ UNCHANGED cpp

TakeOwnership(i, c) == /\ ~Is(i) /\ c \in cpp /\ At(c) = {}
                       /\ inst' = [inst EXCEPT ![i] = Instance(c, TRUE, TRUE, TRUE, None)]
                       /\ cpp' = cpp \ {c} /\ UNCHANGED live

\* A view of what C++ owns, or of the contents of another instance, its parent.
Reference(i, s, p) ==
    /\ ~Is(i) /\ i # s
    /\ IF p = None THEN s \in cpp ELSE Is(p) /\ inst[p].ready /\ inst[p].at = s
    /\ inst' = [inst EXCEPT ![i] = Instance(s, TRUE, FALSE, FALSE, p)]
    /\ UNCHANGED <<live, cpp>>

\* inst_zero(), or a constructor that the program runs in the storage, followed by
\* inst_mark_ready().
Owned(i) == [inst EXCEPT ![i].ready = TRUE, ![i].destruct = TRUE,
                         ![i].cpp_delete = @ \/ inst[i].at # i]
Fill(i) == /\ Is(i) /\ ~inst[i].ready /\ live[inst[i].at] = 0
           /\ inst' = Owned(i) /\ live' = [live EXCEPT ![inst[i].at] = 1] /\ UNCHANGED cpp

\* The program contributes two rules: it detaches no views, unless Detach, and it
\* destructs nothing that others look at.
Viewed(i) == \E j \in At(inst[i].at) : j # i

Destruct(i) ==
    /\ Is(i) /\ ~Viewed(i) /\ (Detach \/ inst[i].destruct \/ ~inst[i].ready)
    /\ inst' = [inst EXCEPT ![i].ready = FALSE, ![i].destruct = FALSE]
    /\ live' = IF inst[i].destruct THEN [live EXCEPT ![inst[i].at] = @ - 1] ELSE live
    /\ UNCHANGED cpp

\* Mutants: the old contents are not destructed; a view becomes an owner.
EmptiedNot(d) == live
KeepsNever(d) == FALSE
\* inst_copy_move(): the contents that are there are destructed, whoever owns them ...
Emptied(d) == IF inst[d].ready THEN [live EXCEPT ![inst[d].at] = @ - 1] ELSE live
\* ... and the instance keeps its destruct flag.
Keeps(d) == inst[d].ready

CopyMove(d, s) ==
    /\ d # s /\ Is(d) /\ Is(s) /\ inst[s].ready
    /\ Alias \/ inst[d].at # inst[s].at
    /\ LET e == Emptied(d) IN
       \* what is constructed from a destroyed source is no object
       live' = [e EXCEPT ![inst[d].at] = @ + (IF e[inst[s].at] > 0 THEN 1 ELSE 0)]
    /\ inst' = [inst EXCEPT ![d].ready = TRUE,
                            ![d].destruct = IF Keeps(d) THEN @ ELSE TRUE]
    /\ UNCHANGED cpp

\* inst_dealloc(), when no view keeps the instance alive.
Dealloc(i) ==
    /\ Is(i) /\ \A j \in Inst : Is(j) => inst[j].parent # i
    /\ inst' = [inst EXCEPT ![i] = None]
    /\ live' = IF inst[i].destruct THEN [live EXCEPT ![inst[i].at] = @ - 1] ELSE live
    /\ UNCHANGED cpp

Next == \/ \E i \in Inst : \/ Alloc(i) \/ AllocZero(i) \/ Fill(i) \/ Destruct(i) \/ Dealloc(i)
                           \/ \E c \in Cell : TakeOwnership(i, c)
                           \/ \E s \in Storage, p \in Inst \cup {None} : Reference(i, s, p)
                           \/ \E s \in Inst : CopyMove(i, s)
        \/ \E c \in Cell : CppNew(c) \/ CppDelete(c)

Spec == Init /\ [][Next]_conVars

-----------------------------------------------------------------------------
Ready(s) == {i \in At(s) : inst[i].ready}
Owners(s) == {i \in At(s) : inst[i].destruct}

\* An instance is ready exactly when there is one C++ object where it points, through
\* every sequence of nb::inst_* calls: none is destroyed twice, constructed over
\* another, or read after its destructor (nb_type.cpp:2554-2658).
ContentsExact ==
    \A s \in Storage : /\ live[s] \in 0..1
                       /\ Ready(s) # {} => live[s] = 1

\* Whatever lives has one owner, who destroys it: C++, or one instance.  Copying onto
\* a view leaves it a view (nb_type.cpp:2611-2630).
OneDestroyer ==
    \A s \in Storage : live[s] = Cardinality(Owners(s)) + (IF s \in cpp THEN 1 ELSE 0)
=============================================================================
