--------------------------- MODULE SharedHolders ---------------------------
(* std::shared_ptr across the language border (stl/shared_ptr.h).  A shared_ptr  *)
(* to an object that a Python instance contains owns a reference to the instance; *)
(* an instance that refers to an object of C++ keeps a shared_ptr.  Types with    *)
(* enable_shared_from_this find the owner there is already.  The drop of the last *)
(* shared_ptr and its deleter are two steps, between which other threads run.     *)
EXTENDS Integers, FiniteSets

CONSTANTS Obj,
          Esft,          \* the objects of types with enable_shared_from_this
          Cb,            \* control blocks of shared_ptrs
          MaxHeld,       \* bound: references and shared_ptrs the program holds
          None

VARIABLES life,          \* "none", "inline" (in an instance), "heap", or "gone"
          inst,          \* the instance of an object: [refs, kept], or None
          user,          \* references to the instance that the program holds
          cb,            \* control blocks: [obj, count, deleter, held], or None
          weak,          \* weak_this of an object: a control block or None
          alive          \* the interpreter

shVars == <<life, inst, user, cb, weak, alive>>

Init == /\ life = [o \in Obj |-> "none"] /\ inst = [o \in Obj |-> None]
        /\ user = [o \in Obj |-> 0]
        /\ cb = [c \in Cb |-> None] /\ weak = [o \in Obj |-> None]
        /\ alive = TRUE

Live(c) == c # None /\ cb[c] # None /\ cb[c].count > 0
Exists(o) == life[o] \in {"inline", "heap"}
\* Whether an instance, or a control block that another thread has just released, may
\* still be handed to somebody: who passes one on holds it.
HasInst(o) == inst[o] # None /\ user[o] > 0

-----------------------------------------------------------------------------
(* The objects of the program: created by Python, or with make_shared().          *)

PyNew(o) == /\ alive /\ life[o] = "none"
            /\ life' = [life EXCEPT ![o] = "inline"]
            /\ inst' = [inst EXCEPT ![o] = [refs |-> 1, kept |-> None]]
            /\ user' = [user EXCEPT ![o] = 1]
            /\ UNCHANGED <<cb, weak, alive>>

Block(o, deleter) == [obj |-> o, count |-> 1, deleter |-> deleter, held |-> 1]
\* A new shared_ptr sets weak_this, unless it is in use.
Joined(o, c) == IF o \in Esft /\ ~Live(weak[o]) THEN [weak EXCEPT ![o] = c] ELSE weak

MakeShared(o, c) == /\ life[o] = "none" /\ cb[c] = None
                    /\ life' = [life EXCEPT ![o] = "heap"]
                    /\ cb' = [cb EXCEPT ![c] = Block(o, "delete")]
                    /\ weak' = Joined(o, c)
                    /\ UNCHANGED <<inst, user, alive>>

-----------------------------------------------------------------------------
(* from_python() and from_cpp().                                                 *)

\* Mutant: an owner that is there already is not looked for.
FindNever(o) == FALSE
Find(o) == o \in Esft /\ Live(weak[o])

FromPython(o, c) ==
    /\ alive /\ HasInst(o)
    /\ IF Find(o)
       THEN /\ cb[weak[o]].held < MaxHeld
            /\ cb' = [cb EXCEPT ![weak[o]].count = @ + 1, ![weak[o]].held = @ + 1]
            /\ UNCHANGED <<inst, weak>>
       ELSE /\ cb[c] = None                            \* shared_from_python()
            /\ cb' = [cb EXCEPT ![c] = Block(o, "py_decref")]
            /\ inst' = [inst EXCEPT ![o].refs = @ + 1]
            /\ weak' = Joined(o, c)
    /\ UNCHANGED <<life, user, alive>>

\* Mutant: a new instance refers to the object without keeping the shared_ptr.
KeptNever(c) == None
Kept(c) == c

\* nb_type_put() finds the instance of the object, or makes one that refers to it;
\* a new one keeps a copy of the shared_ptr (shared_from_cpp).
FromCpp(c) ==
    /\ alive /\ cb[c] # None /\ cb[c].held > 0
    /\ LET o == cb[c].obj IN
       /\ user[o] < MaxHeld
       /\ user' = [user EXCEPT ![o] = @ + 1]
       /\ IF inst[o] # None
          THEN inst' = [inst EXCEPT ![o].refs = @ + 1] /\ UNCHANGED cb
          ELSE /\ inst' = [inst EXCEPT ![o] = [refs |-> 1, kept |-> Kept(c)]]
               /\ cb' = IF Kept(c) = None THEN cb ELSE [cb EXCEPT ![c].count = @ + 1]
    /\ UNCHANGED <<life, weak, alive>>

-----------------------------------------------------------------------------
(* Copies go away.                                                               *)

CppDrop(c) == /\ cb[c] # None /\ cb[c].held > 0
              /\ cb' = [cb EXCEPT ![c].count = @ - 1, ![c].held = @ - 1]
              /\ UNCHANGED <<life, inst, user, weak, alive>>

\* Mutant: the shared_ptr that an instance kept is not deleted with it.
ReleasedNever(blocks, k) == blocks
Released(blocks, k) ==
    IF k = None THEN blocks ELSE [blocks EXCEPT ![k].count = @ - 1]

\* A reference to an instance goes; the last one destroys the instance, the object
\* in it, and the copy of the shared_ptr it keeps.
Decref(o, blocks) ==
    IF inst[o].refs > 1
    THEN inst' = [inst EXCEPT ![o].refs = @ - 1] /\ UNCHANGED life /\ cb' = blocks
    ELSE /\ inst' = [inst EXCEPT ![o] = None]
         /\ life' = [life EXCEPT ![o] = IF @ = "inline" THEN "gone" ELSE @]
         /\ cb' = Released(blocks, inst[o].kept)

PyDrop(o) == /\ alive /\ HasInst(o)
             /\ user' = [user EXCEPT ![o] = @ - 1]
             /\ Decref(o, cb) /\ UNCHANGED <<weak, alive>>

\* Mutant: the reference is released whether there is an interpreter or not.
GuardedNever == TRUE
Guarded == alive

\* The deleter of a control block without owners.
Delete(c) ==
    /\ cb[c] # None /\ cb[c].count = 0
    /\ LET o == cb[c].obj
           freed == [cb EXCEPT ![c] = None]
       IN  IF cb[c].deleter = "py_decref"
           THEN IF Guarded THEN Decref(o, freed)
                ELSE cb' = freed /\ UNCHANGED <<life, inst>>
           ELSE cb' = freed /\ life' = [life EXCEPT ![o] = "gone"] /\ UNCHANGED inst
    /\ weak' = [o \in Obj |-> IF weak[o] = c THEN None ELSE weak[o]]
    /\ UNCHANGED <<user, alive>>

\* The interpreter is gone; the instances stay where they are.
Shutdown == alive /\ alive' = FALSE /\ UNCHANGED <<life, inst, user, cb, weak>>

-----------------------------------------------------------------------------
Next == \/ \E o \in Obj : PyNew(o) \/ PyDrop(o)
        \/ \E o \in Obj, c \in Cb : MakeShared(o, c) \/ FromPython(o, c)
        \/ \E c \in Cb : FromCpp(c) \/ CppDrop(c) \/ Delete(c)
        \/ Shutdown

Spec == Init /\ [][Next]_shVars

-----------------------------------------------------------------------------
\* While a shared_ptr or an instance exists, so does the object it refers to,
\* whichever of them was first and whichever goes last (shared_ptr.h:45-56).
PointeeAlive ==
    /\ \A c \in Cb : Live(c) => Exists(cb[c].obj)
    /\ \A o \in Obj : inst[o] # None => Exists(o)

\* An object that neither the program nor a step under way refers to has been
\* destroyed: the two kinds of reference never keep each other alive.
Collected ==
    alive => \A o \in Obj : Exists(o) =>
        user[o] > 0 \/ \E c \in Cb : cb[c] # None /\ cb[c].obj = o
                                     /\ (cb[c].held > 0 \/ cb[c].count = 0)

\* An object of a type with enable_shared_from_this has one family of owners at a
\* time (shared_ptr.h:85-98).
OneFamily ==
    \A o \in Esft, c, d \in Cb :
        Live(c) /\ Live(d) /\ cb[c].obj = o /\ cb[d].obj = o => c = d

\* After the interpreter has gone no reference count of Python changes.
UntouchedStep == ~alive => inst' = inst
UntouchedAfterShutdown == [][UntouchedStep]_shVars
=============================================================================
