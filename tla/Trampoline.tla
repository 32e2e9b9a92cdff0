----------------------------- MODULE Trampoline -----------------------------
(***************************************************************************)
(* The cache of Python overrides of C++ virtual functions, src/trampoline. *)
(* cpp, together with the type modifications that invalidate it            *)
(* (nb_type_setattro in src/nb_type.cpp).                                  *)
(*                                                                         *)
(* Every type has an immutable table that maps method names to "override"  *)
(* or "no override"; a missing entry is unresolved.  Calls probe the table *)
(* without a lock.  On a miss they mark the type and its bases, look the   *)
(* name up and publish the result under the type's critical section,       *)
(* unless the epoch moved.  A modification changes the type first, then    *)
(* moves the epoch, then walks the marked part of the subclass tree and    *)
(* drops the tables.  One action is one atomic access or critical section; *)
(* under the GIL fewer of these interleavings are possible.                *)
(***************************************************************************)
EXTENDS Naturals, Sequences, SequencesExt, FiniteSets

CONSTANTS
  Thread,        \* threads that call virtual functions or modify types
  Type,          \* nanobind types and Python classes derived from them
  Object,        \* C++ objects with a Python wrapper
  Name,          \* names of virtual functions
  InitMro,       \* MROs of the types that exist initially
  InitCls,       \* class of every object initially
  MaxMods,       \* bound on the number of type modifications
  AtomicLookup,  \* type_lookup() is atomic (not the limited-API fallback)
  Rebase,        \* programs assign to __bases__: "never", only to classes
                 \* that are "marked", or to "any"
  Reassign,      \* programs assign to the __class__ of an object
  Collect        \* programs drop classes, and the collector frees them

None == "none"

ASSUME TrampolineAssumption ==
  /\ None \notin Type /\ IsFiniteSet(Thread)
  /\ DOMAIN InitMro \subseteq Type
  /\ InitMro \in [DOMAIN InitMro -> Seq(DOMAIN InitMro)]
  /\ \A tp \in DOMAIN InitMro :
       /\ InitMro[tp] # <<>> /\ InitMro[tp][1] = tp
       /\ \A i \in DOMAIN InitMro[tp] :
            InitMro[InitMro[tp][i]] = SubSeq(InitMro[tp], i, Len(InitMro[tp]))
  /\ InitCls \in [Object -> DOMAIN InitMro]
  /\ MaxMods \in Nat
  /\ Rebase \in {"never", "marked", "any"}
  /\ AtomicLookup \in BOOLEAN /\ Reassign \in BOOLEAN /\ Collect \in BOOLEAN

VARIABLES
  mro,       \* MRO of every existing type, the type itself first
  attr,      \* attr[tp][n]: "cpp" (a bound C++ function), "py" or None
  cls,       \* class of every object (Py_TYPE)
  table,     \* table[tp][n]: "override", "no_override" or None (unresolved)
  marked,    \* types with the subtree mark
  epoch,     \* nb_internals::trampoline_epoch
  pc, self, name, td, seenEpoch, value, path,   \* of a call
  todo, at, prior,                              \* of a modification
  right      \* history: answers that were right at some time during the call

shared == <<mro, attr, cls, table, marked, epoch>>
call == <<self, name, td, seenEpoch, value, path, right>>
walk == <<todo, at, prior>>
vars == <<shared, pc, call, walk>>

Exists == DOMAIN mro
Subclasses(tp) == {s \in Exists : Len(mro[s]) > 1 /\ mro[s][2] = tp}

\* trampoline_resolve: the first type of the MRO that has the attribute tells
\* whether it is one of nanobind's function types; None if the lookup fails.
Classify(a) == CASE a = "cpp" -> "no_override" [] a = "py" -> "override" [] OTHER -> None
Find(line, as, n) ==
  LET hits == {i \in DOMAIN line : as[line[i]][n] # None}
  IN  IF hits = {} THEN None
      ELSE Classify(as[line[CHOOSE i \in hits : \A j \in hits : i <= j]][n])
Resolve(tp, n) == Find(mro[tp], attr, n)

Unresolved == [n \in Name |-> None]

Init ==
  /\ mro = InitMro
  /\ attr = [tp \in DOMAIN InitMro |->
               [n \in Name |-> IF Len(mro[tp]) = 1 THEN "cpp" ELSE None]]
  /\ cls = InitCls
  /\ table = [tp \in DOMAIN InitMro |-> Unresolved]
  /\ marked = {}
  /\ epoch = 0
  /\ pc = [t \in Thread |-> "idle"]
  /\ self = [t \in Thread |-> None]
  /\ name = [t \in Thread |-> None]
  /\ td = [t \in Thread |-> None]
  /\ seenEpoch = [t \in Thread |-> 0]
  /\ value = [t \in Thread |-> None]
  /\ path = [t \in Thread |-> <<>>]
  /\ todo = [t \in Thread |-> {}]
  /\ at = [t \in Thread |-> None]
  /\ prior = [t \in Thread |-> <<>>]
  /\ right = [t \in Thread |-> {}]

-----------------------------------------------------------------------------
(* trampoline_enter()                                                      *)

Goto(t, l) == pc' = [pc EXCEPT ![t] = l]
Set(f, t, x) == [f EXCEPT ![t] = x]

\* Modifications whose walk is not over: until then the answer from before
\* the modification may still be given.
Walking == {w \in Thread : pc[w] \in {"modified", "visit", "subclasses"}}

Answers(tp, n) ==
  {Resolve(tp, n)} \cup {prior[w][tp][n] : w \in {u \in Walking : tp \in DOMAIN prior[u]}}

Enter(t, o, n) ==
  /\ pc[t] = "idle"
  /\ self' = Set(self, t, o)
  /\ name' = Set(name, t, n)
  /\ td' = Set(td, t, cls[o])
  /\ right' = Set(right, t, Answers(cls[o], n))
  /\ Goto(t, "probe")
  /\ UNCHANGED <<shared, seenEpoch, value, path, walk>>

\* The lock-free probe; a thread without interpreter state may run it.
Probe(t) ==
  /\ pc[t] = "probe"
  /\ value' = Set(value, t, table[td[t]][name[t]])
  /\ Goto(t, IF value'[t] # None THEN "return" ELSE "attached")
  /\ UNCHANGED <<shared, self, name, td, seenEpoch, path, right, walk>>

\* The thread state is attached; the class is read once more.
Reread(t) ==
  /\ pc[t] = "attached"
  /\ td' = Set(td, t, cls[self[t]])
  /\ right' = Set(right, t, Answers(cls[self[t]], name[t]))
  /\ LET tp == cls[self[t]] IN
       path' = Set(path, t, IF tp \in marked THEN <<>> ELSE mro[tp])
  /\ Goto(t, "mark")
  /\ UNCHANGED <<shared, self, name, seenEpoch, value, walk>>

\* Mutant: the type first, its bases later.
MarkDown(t) ==
  /\ pc[t] = "mark" /\ path[t] # <<>>
  /\ marked' = marked \cup {Head(path[t])}
  /\ path' = Set(path, t, Tail(path[t]))
  /\ UNCHANGED <<mro, attr, cls, table, epoch, pc, self, name, td, seenEpoch,
                 value, right, walk>>

\* trampoline_mark: one base at a time, the type itself last.
Mark(t) ==
  /\ pc[t] = "mark" /\ path[t] # <<>>
  /\ marked' = marked \cup {Last(path[t])}
  /\ path' = Set(path, t, Front(path[t]))
  /\ UNCHANGED <<mro, attr, cls, table, epoch, pc, self, name, td, seenEpoch,
                 value, right, walk>>

ReadEpoch(t) ==
  /\ pc[t] = "mark" /\ path[t] = <<>>
  /\ seenEpoch' = Set(seenEpoch, t, epoch)
  /\ Goto(t, "again")
  /\ UNCHANGED <<shared, self, name, td, value, path, right, walk>>

ProbeAgain(t) ==
  /\ pc[t] = "again"
  /\ value' = Set(value, t, table[td[t]][name[t]])
  /\ path' = Set(path, t, IF value'[t] # None THEN <<>> ELSE mro[td[t]])
  /\ Goto(t, IF value'[t] # None THEN "return" ELSE "lookup")
  /\ UNCHANGED <<shared, self, name, td, seenEpoch, right, walk>>

\* type_lookup: atomic in CPython's own lookup, one namespace of the MRO after
\* the other in the fallback for the limited API.
Lookup(t) ==
  /\ pc[t] = "lookup" /\ AtomicLookup
  /\ value' = Set(value, t, Resolve(td[t], name[t]))
  /\ path' = Set(path, t, <<>>)
  /\ Goto(t, IF value'[t] # None THEN "publish" ELSE "return")
  /\ UNCHANGED <<shared, self, name, td, seenEpoch, right, walk>>

LookupNext(t) ==
  /\ pc[t] = "lookup" /\ ~AtomicLookup
  /\ LET a == IF path[t] = <<>> THEN None ELSE attr[Head(path[t])][name[t]] IN
       /\ value' = Set(value, t, Classify(a))
       /\ path' = Set(path, t, IF a # None \/ path[t] = <<>> THEN <<>> ELSE Tail(path[t]))
       /\ Goto(t, IF a # None THEN "publish"
                  ELSE IF path[t] = <<>> THEN "return" ELSE "lookup")
  /\ UNCHANGED <<shared, self, name, td, seenEpoch, right, walk>>

\* Mutant: publishes without looking at the epoch.
PublishAlways(t) ==
  /\ pc[t] = "publish"
  /\ IF TRUE
       THEN /\ table' = IF table[td[t]][name[t]] # None THEN table
                        ELSE [table EXCEPT ![td[t]][name[t]] = value[t]]
            /\ marked' = marked \cup {td[t]}
            /\ Goto(t, "return")
            /\ UNCHANGED value
       ELSE /\ Goto(t, "mark")
            /\ value' = Set(value, t, None)
            /\ UNCHANGED <<table, marked>>
  /\ UNCHANGED <<mro, attr, cls, epoch, self, name, td, seenEpoch, path, right, walk>>

\* Mutant: resolves again without reading the epoch again.
PublishStuck(t) ==
  /\ pc[t] = "publish"
  /\ IF seenEpoch[t] = epoch
       THEN /\ table' = IF table[td[t]][name[t]] # None THEN table
                        ELSE [table EXCEPT ![td[t]][name[t]] = value[t]]
            /\ marked' = marked \cup {td[t]}
            /\ Goto(t, "return")
            /\ UNCHANGED value
       ELSE /\ Goto(t, "again")
            /\ value' = Set(value, t, None)
            /\ UNCHANGED <<table, marked>>
  /\ UNCHANGED <<mro, attr, cls, epoch, self, name, td, seenEpoch, path, right, walk>>

\* Under the critical section of the type: compare the epoch and publish, or
\* resolve again.  An entry that is already there stays.
Publish(t) ==
  /\ pc[t] = "publish"
  /\ IF seenEpoch[t] = epoch
       THEN /\ table' = IF table[td[t]][name[t]] # None THEN table
                        ELSE [table EXCEPT ![td[t]][name[t]] = value[t]]
            /\ marked' = marked \cup {td[t]}
            /\ Goto(t, "return")
            /\ UNCHANGED value
       ELSE /\ Goto(t, "mark")
            /\ value' = Set(value, t, None)
            /\ UNCHANGED <<table, marked>>
  /\ UNCHANGED <<mro, attr, cls, epoch, self, name, td, seenEpoch, path, right, walk>>

\* The answer is used: dispatch to Python, run the C++ method, or raise.
Return(t) ==
  /\ pc[t] = "return"
  /\ self' = Set(self, t, None)
  /\ name' = Set(name, t, None)
  /\ td' = Set(td, t, None)
  /\ value' = Set(value, t, None)
  /\ seenEpoch' = Set(seenEpoch, t, 0)
  /\ right' = Set(right, t, {})
  /\ Goto(t, "idle")
  /\ UNCHANGED <<shared, path, walk>>

-----------------------------------------------------------------------------
(* Type modifications: nb_type_setattro, and nb_trampoline_invalidate.     *)

Calling == {t \in Thread : td[t] # None}
Uncounted == {t \in Thread : pc[t] = "modified"}

\* The program changed attributes or MROs, of tp at least; invalidation follows.
Modified(t, tp) ==
  /\ pc[t] = "idle" /\ epoch + Cardinality(Uncounted) < MaxMods
  /\ prior' = Set(prior, t, [s \in Exists |-> [n \in Name |-> Resolve(s, n)]])
  /\ at' = Set(at, t, tp)
  /\ right' = [u \in Thread |->
       IF u \in Calling THEN right[u] \cup {Find(mro'[td[u]], attr', name[u])}
                        ELSE right[u]]
  /\ Goto(t, "modified")
  /\ UNCHANGED <<cls, table, marked, epoch, self, name, td, seenEpoch, value,
                 path, todo>>

\* Mutant: the assignment does not invalidate.
SetAttrSilent(t, tp, n, a) ==
  /\ tp \in Exists /\ attr[tp][n] # a
  /\ attr' = [attr EXCEPT ![tp][n] = a]
  /\ mro' = mro
  /\ pc[t] = "idle"
  /\ UNCHANGED <<cls, table, marked, epoch, pc, call, walk>>

SetAttr(t, tp, n, a) ==
  /\ tp \in Exists /\ attr[tp][n] # a
  /\ attr' = [attr EXCEPT ![tp][n] = a]
  /\ mro' = mro
  /\ Modified(t, tp)

\* The MRO of tp and of everything below it, when its base changes.
Moved(tp, base) ==
  mro' = [s \in Exists |->
    IF Contains(mro[s], tp)
      THEN SubSeq(mro[s], 1, CHOOSE i \in DOMAIN mro[s] : mro[s][i] = tp) \o mro[base]
      ELSE mro[s]]

\* tp.__bases__ = (base,)
SetBases(t, tp, base) ==
  /\ Rebase = "marked" => base \in marked
  /\ Rebase # "never"
  /\ {tp, base} \subseteq Exists
  /\ Len(mro[tp]) > 1 /\ base # mro[tp][2]
  /\ ~Contains(mro[base], tp)
  /\ Moved(tp, base)
  /\ attr' = attr
  /\ Modified(t, tp)

EpochInc(t) ==
  /\ pc[t] = "modified"
  /\ epoch' = epoch + 1
  /\ todo' = Set(todo, t, {at[t]})
  /\ at' = Set(at, t, None)
  /\ Goto(t, "visit")
  /\ UNCHANGED <<mro, attr, cls, table, marked, call, prior>>

\* Mutant: a type that is visited keeps its table.
VisitKeeps(t, tp) ==
  /\ pc[t] = "visit" /\ tp \in todo[t]
  /\ todo' = Set(todo, t, todo[t] \ {tp})
  /\ IF tp \in marked
       THEN /\ UNCHANGED table
            /\ at' = Set(at, t, tp)
            /\ Goto(t, "subclasses")
       ELSE UNCHANGED <<table, at, pc>>
  /\ UNCHANGED <<mro, attr, cls, marked, epoch, call, prior>>

\* Mutant: the epoch moves at every type that is visited.
VisitBumps(t, tp) ==
  /\ pc[t] = "visit" /\ tp \in todo[t]
  /\ todo' = Set(todo, t, todo[t] \ {tp})
  /\ IF tp \in marked
       THEN /\ table' = [table EXCEPT ![tp] = Unresolved]
            /\ epoch' = epoch + 1
            /\ at' = Set(at, t, tp)
            /\ Goto(t, "subclasses")
       ELSE UNCHANGED <<table, at, pc, epoch>>
  /\ UNCHANGED <<mro, attr, cls, marked, call, prior>>

\* trampoline_invalidate_rec: an unmarked type ends the branch, a marked one
\* loses its table before its subclasses are listed.  The order in which the
\* recursion visits the listed types is left open.
Visit(t, tp) ==
  /\ pc[t] = "visit" /\ tp \in todo[t]
  /\ todo' = Set(todo, t, todo[t] \ {tp})
  /\ IF tp \in marked
       THEN /\ table' = [table EXCEPT ![tp] = Unresolved]
            /\ at' = Set(at, t, tp)
            /\ Goto(t, "subclasses")
       ELSE UNCHANGED <<table, at, pc>>
  /\ UNCHANGED <<mro, attr, cls, marked, epoch, call, prior>>

\* Mutant: the walk lists the type it has visited again.
ListSelf(t) ==
  /\ pc[t] = "subclasses"
  /\ todo' = Set(todo, t, todo[t] \cup Subclasses(at[t]) \cup {at[t]})
  /\ at' = Set(at, t, None)
  /\ Goto(t, "visit")
  /\ UNCHANGED <<shared, call, prior>>

ListSubclasses(t) ==
  /\ pc[t] = "subclasses"
  /\ todo' = Set(todo, t, todo[t] \cup Subclasses(at[t]))
  /\ at' = Set(at, t, None)
  /\ Goto(t, "visit")
  /\ UNCHANGED <<shared, call, prior>>

WalkDone(t) ==
  /\ pc[t] = "visit" /\ todo[t] = {}
  /\ prior' = Set(prior, t, <<>>)
  /\ Goto(t, "idle")
  /\ UNCHANGED <<shared, call, todo, at>>

-----------------------------------------------------------------------------
(* What else programs do with types.                                       *)

\* Mutant: the subclass starts with the table of its base.
NewSubclassInherits(t, tp, base) ==
  /\ pc[t] = "idle"
  /\ tp \in Type \ Exists /\ base \in Exists
  /\ mro' = [s \in Exists \cup {tp} |-> IF s = tp THEN <<tp>> \o mro[base] ELSE mro[s]]
  /\ \E a \in [Name -> {None, "py"}] :
       attr' = [s \in Exists \cup {tp} |-> IF s = tp THEN a ELSE attr[s]]
  /\ table' = [s \in Exists \cup {tp} |-> IF s = tp THEN table[base] ELSE table[s]]
  /\ UNCHANGED <<cls, marked, epoch, pc, call, walk>>

\* class tp(base): the subclass starts without a table and without a mark.
NewSubclass(t, tp, base) ==
  /\ pc[t] = "idle"
  /\ tp \in Type \ Exists /\ base \in Exists
  /\ mro' = [s \in Exists \cup {tp} |-> IF s = tp THEN <<tp>> \o mro[base] ELSE mro[s]]
  /\ \E a \in [Name -> {None, "py"}] :
       attr' = [s \in Exists \cup {tp} |-> IF s = tp THEN a ELSE attr[s]]
  /\ table' = [s \in Exists \cup {tp} |-> IF s = tp THEN Unresolved ELSE table[s]]
  /\ UNCHANGED <<cls, marked, epoch, pc, call, walk>>

\* o.__class__ = tp
SetClass(t, o, tp) ==
  /\ Reassign
  /\ pc[t] = "idle"
  /\ tp \in Exists \ {cls[o]}
  /\ cls' = [cls EXCEPT ![o] = tp]
  /\ UNCHANGED <<mro, attr, table, marked, epoch, pc, call, walk>>

\* Mutant: trampoline_mark borrows the classes of the MRO.
CollectHeld(tp) ==
  /\ Collect
  /\ tp \in Exists /\ Len(mro[tp]) > 1
  /\ \A o \in Object : cls[o] # tp
  /\ Subclasses(tp) = {}
  /\ \A t \in Thread : at[t] # tp /\ tp \notin todo[t]
  /\ mro' = [s \in Exists \ {tp} |-> mro[s]]
  /\ attr' = [s \in Exists \ {tp} |-> attr[s]]
  /\ table' = [s \in Exists \ {tp} |-> table[s]]
  /\ marked' = marked \ {tp}
  /\ UNCHANGED <<cls, epoch, pc, call, walk>>

\* The collector frees a class without instances and subclasses, and
\* nb_trampoline_free its tables.  An MRO that a thread goes through and a walk
\* hold references to their classes; a call holds none to its own.
CollectType(tp) ==
  /\ Collect
  /\ tp \in Exists /\ Len(mro[tp]) > 1
  /\ \A o \in Object : cls[o] # tp
  /\ Subclasses(tp) = {}
  /\ \A t \in Thread : at[t] # tp /\ tp \notin todo[t] \cup Range(path[t])
  /\ mro' = [s \in Exists \ {tp} |-> mro[s]]
  /\ attr' = [s \in Exists \ {tp} |-> attr[s]]
  /\ table' = [s \in Exists \ {tp} |-> table[s]]
  /\ marked' = marked \ {tp}
  /\ UNCHANGED <<cls, epoch, pc, call, walk>>

-----------------------------------------------------------------------------
Step(t) ==
  \/ Probe(t) \/ Reread(t) \/ Mark(t) \/ ReadEpoch(t) \/ ProbeAgain(t)
  \/ Lookup(t) \/ LookupNext(t) \/ Publish(t) \/ Return(t)
  \/ EpochInc(t) \/ ListSubclasses(t) \/ WalkDone(t)
  \/ \E tp \in Type : Visit(t, tp)

Program(t) ==
  \/ \E o \in Object, n \in Name : Enter(t, o, n)
  \/ \E tp \in Type, n \in Name, a \in {None, "cpp", "py"} : SetAttr(t, tp, n, a)
  \/ \E tp, base \in Type : SetBases(t, tp, base) \/ NewSubclass(t, tp, base)
  \/ \E o \in Object, tp \in Type : SetClass(t, o, tp)

Next ==
  \/ \E t \in Thread : Step(t) \/ Program(t)
  \/ \E tp \in Type : CollectType(tp)

Spec == Init /\ [][Next]_vars
FairSpec == Spec /\ \A t \in Thread : WF_vars(Step(t))
-----------------------------------------------------------------------------
(* Properties.                                                             *)

Phases == {"idle", "probe", "attached", "mark", "again", "lookup", "publish",
           "return", "modified", "visit", "subclasses"}

TypeOK ==
  /\ Exists \subseteq Type
  /\ mro \in [Exists -> Seq(Exists)]
  /\ attr \in [Exists -> [Name -> {None, "cpp", "py"}]]
  /\ cls \in [Object -> Exists]
  /\ table \in [Exists -> [Name -> {None, "override", "no_override"}]]
  /\ marked \subseteq Exists
  /\ epoch \in 0..MaxMods
  /\ pc \in [Thread -> Phases]
  /\ self \in [Thread -> Object \cup {None}]
  /\ name \in [Thread -> Name \cup {None}]
  /\ td \in [Thread -> Type \cup {None}]
  /\ seenEpoch \in [Thread -> 0..MaxMods]
  /\ value \in [Thread -> {None, "override", "no_override"}]
  /\ path \in [Thread -> Seq(Exists)]
  /\ todo \in [Thread -> SUBSET Exists]
  /\ at \in [Thread -> Exists \cup {None}]

\* The cache tells the truth: once no modification has its walk ahead of it, an
\* entry is what looking the name up now would give, in every type, however
\* publications, marks and walks were interleaved.
NoStaleOverride ==
  Walking = {} =>
    \A tp \in Exists, n \in Name : table[tp][n] \in {None, Resolve(tp, n)}

\* A marked type has marked ancestors, so a walk that stops at an unmarked type
\* misses no table (trampoline.cpp, trampoline_mark and trampoline_publish).
MarksClosed ==
  \A tp \in Exists :
    tp \in marked \/ (\E n \in Name : table[tp][n] # None)
      => \A i \in DOMAIN mro[tp] : mro[tp][i] \in marked

\* What makes NoStaleOverride and MarksClosed inductive.  The MRO of a type goes
\* on like the MRO of each type in it (nanobind classes have one base).
LinearMro ==
  \A tp \in Exists :
    /\ mro[tp] # <<>> /\ mro[tp][1] = tp
    /\ \A i \in DOMAIN mro[tp] : mro[mro[tp][i]] = SubSeq(mro[tp], i, Len(mro[tp]))

\* Every modification that is not yet counted has room in the bound.
EpochBound ==
  /\ epoch + Cardinality(Uncounted) <= MaxMods
  /\ \A t \in Thread : seenEpoch[t] <= epoch

\* A call knows its object, method and class, and a class that objects keep
\* is not collected; a walk knows the type it is at.
Engaged ==
  \A t \in Thread :
    /\ pc[t] \in {"probe", "attached", "mark", "again", "lookup", "publish"} =>
         /\ self[t] \in Object /\ name[t] \in Name /\ td[t] \in Exists
         /\ Collect => \E o \in Object : cls[o] = td[t]
    /\ pc[t] \in {"modified", "subclasses"} => at[t] \in Exists

\* The classes a thread still has to mark are in the order of the MRO, and no
\* call goes on before its class is marked.
Marking(t) ==
  /\ pc[t] = "mark" =>
       /\ td[t] \in marked \cup Range(path[t])
       /\ \A i \in DOMAIN path[t] : \A a \in Range(mro[path[t][i]]) :
            a \in marked \/ \E j \in i..Len(path[t]) : path[t][j] = a
  /\ pc[t] \in {"again", "lookup", "publish"} => td[t] \in marked
  /\ pc[t] = "publish" => path[t] = <<>>
MarkOrder == \A t \in Thread : Marking(t)

\* Some modification still has to visit tp, as long as what leads to tp is marked;
\* and one of these has not moved the epoch yet.
Ahead(tp) == \E w \in Thread : pc[w] = "modified" /\ at[w] \in Range(mro[tp])
Reached(tp) ==
  \/ Ahead(tp)
  \/ \E w \in Thread :
       \/ pc[w] \in {"visit", "subclasses"} /\ todo[w] \cap Range(mro[tp]) # {}
       \/ pc[w] = "subclasses" /\ at[w] # tp /\ at[w] \in Range(mro[tp])

\* A table is wrong only while a walk is on its way to it, and a call that will
\* pass the epoch check has a right answer or such a modification has just happened.
CacheRight ==
  \A tp \in Exists, n \in Name :
    table[tp][n] \in {None, Resolve(tp, n)} \/ Reached(tp)
LookupRight ==
  \A t \in Thread :
    pc[t] \in {"lookup", "publish"} /\ seenEpoch[t] = epoch /\ ~Ahead(td[t]) =>
      /\ pc[t] = "publish" => Resolve(td[t], name[t]) = value[t]
      /\ pc[t] = "lookup" =>
           /\ Resolve(td[t], name[t]) = Find(path[t], attr, name[t])
           /\ Range(path[t]) \subseteq Range(mro[td[t]])

IInv ==
  /\ TypeOK /\ LinearMro /\ EpochBound /\ Engaged /\ MarksClosed /\ MarkOrder
  /\ CacheRight /\ LookupRight

\* Programs for which the cache works: the findings are about the others.
Tame == Rebase # "any" /\ (Collect => ~Reassign)

\* Virtual dispatch is linearizable: the answer a call acts on was, at some time
\* between reading the class of the object and returning, the one the class
\* gives, or the one from before a modification that was still invalidating.
DispatchRight ==
  \A t \in Thread : pc[t] = "return" => value[t] \in right[t]

\* The tables a call may be reading belong to a type that has not been freed:
\* "No reader can remain at that point because its existence would require
\* holding a reference to the type" (trampoline.cpp, Life cycle).
ReaderHoldsType ==
  \A t \in Calling : td[t] \in Exists

\* A call that a modification forces to resolve again gets through, and a walk
\* ends: neither waits for another thread.
CallsReturn == \A t \in Thread : pc[t] = "probe" ~> pc[t] = "idle"
WalksEnd == \A t \in Thread : pc[t] = "modified" ~> pc[t] = "idle"
=============================================================================
