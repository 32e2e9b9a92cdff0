-------------------------- MODULE FunctionHolders --------------------------
(* Python callables in std::function objects (stl/function.h).  C++ copies, moves *)
(* and destroys the wrappers wherever it likes, threads without a thread state    *)
(* and the time after the interpreter has gone included.                          *)
EXTENDS Integers, FiniteSets

CONSTANTS Fn,            \* Python callables
          Holder,        \* places for a std::function
          MaxUser,       \* bound: references that Python code holds to a callable
          Free,          \* no std::function there
          Null           \* a wrapper without a callable

VARIABLES f,             \* the callable of the wrapper in a place
          user,          \* references of Python code to a callable
          refs,          \* its reference count
          alive          \* the interpreter

fnVars == <<f, user, refs, alive>>

Init == /\ f = [h \in Holder |-> Free]
        /\ user = [v \in Fn |-> 1] /\ refs = [v \in Fn |-> 1] /\ alive = TRUE

\* Mutant: the destructor does not ask whether there is an interpreter.
GuardedNever == TRUE
\* cleanup_guard: a thread state for as long as the guard lasts, or none any more.
Guarded == alive

FromPython(h, v) == /\ alive /\ user[v] > 0 /\ f[h] = Free
                    /\ f' = [f EXCEPT ![h] = v] /\ refs' = [refs EXCEPT ![v] = @ + 1]
                    /\ UNCHANGED <<user, alive>>

\* Mutant: a copy shares the reference of the original.
CopiedShared(v) == [f |-> v, refs |-> refs]
Copied(v) == IF v # Null /\ alive THEN [f |-> v, refs |-> [refs EXCEPT ![v] = @ + 1]]
             ELSE [f |-> Null, refs |-> refs]

Copy(h, k) == /\ f[h] # Free /\ f[k] = Free
              /\ f' = [f EXCEPT ![k] = Copied(f[h]).f] /\ refs' = Copied(f[h]).refs
              /\ UNCHANGED <<user, alive>>

Move(h, k) == /\ f[h] # Free /\ f[k] = Free
              /\ f' = [f EXCEPT ![k] = f[h], ![h] = Null]
              /\ UNCHANGED <<user, refs, alive>>

Destroy(h) == /\ f[h] # Free
              /\ f' = [f EXCEPT ![h] = Free]
              /\ IF f[h] # Null /\ Guarded THEN refs' = [refs EXCEPT ![f[h]] = @ - 1]
                 ELSE UNCHANGED refs
              /\ UNCHANGED <<user, alive>>

\* The callable itself goes back to Python.
FromCpp(h) == /\ alive /\ f[h] \in Fn /\ user[f[h]] < MaxUser
              /\ user' = [user EXCEPT ![f[h]] = @ + 1]
              /\ refs' = [refs EXCEPT ![f[h]] = @ + 1]
              /\ UNCHANGED <<f, alive>>

PyDrop(v) == /\ alive /\ user[v] > 0
             /\ user' = [user EXCEPT ![v] = @ - 1] /\ refs' = [refs EXCEPT ![v] = @ - 1]
             /\ UNCHANGED <<f, alive>>

Shutdown == alive /\ alive' = FALSE /\ UNCHANGED <<f, user, refs>>

Next == \/ \E h \in Holder, v \in Fn : FromPython(h, v)
        \/ \E h, k \in Holder : Copy(h, k) \/ Move(h, k)
        \/ \E h \in Holder : Destroy(h) \/ FromCpp(h)
        \/ \E v \in Fn : PyDrop(v)
        \/ Shutdown

Spec == Init /\ [][Next]_fnVars

-----------------------------------------------------------------------------
\* While there is an interpreter a callable has exactly the references of Python code
\* and one for each wrapper that could call it (function.h:21-45).
FunctionRefsExact ==
    alive => \A v \in Fn : refs[v] = user[v] + Cardinality({h \in Holder : f[h] = v})

\* Afterwards no reference count changes, and no copy is made that could be called
\* (function.h:32-35, :42-43).
SilentStep ==
    ~alive => /\ refs' = refs
              /\ \A v \in Fn : Cardinality({h \in Holder : f'[h] = v})
                               <= Cardinality({h \in Holder : f[h] = v})
SilentAfterShutdown == [][SilentStep]_fnVars
=============================================================================
