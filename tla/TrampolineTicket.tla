-------------------------- MODULE TrampolineTicket --------------------------
(* The ticket stack of the trampolines (trampoline.cpp, trampoline.h).  A virtual *)
(* call that Python overrides leaves a ticket on the C++ stack while the override *)
(* runs.  An override that calls the bound base method gets dispatched again, and *)
(* the ticket tells that the base method is meant.  Trampoline says what the      *)
(* lookup returns; here Overrides does.                                           *)
EXTENDS Integers, Sequences, FiniteSets

CONSTANTS Thread, Obj, Key,
          Overrides,            \* the pairs of an object and a method with an override
          Pure,                 \* methods without a base implementation
          MaxDepth              \* bound on the calls in progress

VARIABLES stack,                \* the C++ frames of a thread, the innermost last
          current,              \* current_ticket: the frame it is in, or 0
          attached,             \* attachments of the thread state not released yet
          exc,                  \* an exception is in flight
          running               \* the interpreter lets threads attach

tkVars == <<stack, current, attached, exc, running>>

Init == /\ stack = [t \in Thread |-> <<>>] /\ current = [t \in Thread |-> 0]
        /\ attached = [t \in Thread |-> 0] /\ exc = [t \in Thread |-> FALSE]
        /\ running = TRUE

Ready(t) == ~exc[t] /\ Len(stack[t]) < MaxDepth
Frame(kind, o, k, prev) == [kind |-> kind, self |-> o, key |-> k, prev |-> prev]

\* The C++ base method runs, or the call fails when there is none.
ToBase(t, o, k) ==
    IF k \in Pure THEN exc' = [exc EXCEPT ![t] = TRUE] /\ UNCHANGED stack
    ELSE /\ stack' = [stack EXCEPT ![t] = Append(@, Frame("base", o, k, 0))]
         /\ UNCHANGED exc

\* Mutant: the methods are compared, the objects are not.
SameMethod(t, o, k) == current[t] # 0 /\ stack[t][current[t]].key = k
\* Whether the innermost override is the one that the call would reach.
Same(t, o, k) == SameMethod(t, o, k) /\ stack[t][current[t]].self = o

\* Mutant: the thread stays attached while the base method runs.
DetachedNot(n) == n
Detached(n) == n - 1

\* A virtual call of C++ or of a bound method, from whatever runs on the thread.
Enter(t, o, k) ==
    /\ Ready(t)
    /\ IF <<o, k>> \notin Overrides \/ ~running
       THEN ToBase(t, o, k) /\ UNCHANGED <<current, attached>>
       ELSE LET n == attached[t] + 1 IN
            IF Same(t, o, k)
            THEN /\ ToBase(t, o, k) /\ UNCHANGED current
                 /\ attached' = [attached EXCEPT ![t] = Detached(n)]
            ELSE /\ stack' = [stack EXCEPT ![t] =
                                  Append(@, Frame("ticket", o, k, current[t]))]
                 /\ current' = [current EXCEPT ![t] = Len(stack[t]) + 1]
                 /\ attached' = [attached EXCEPT ![t] = n]
                 /\ UNCHANGED exc
    /\ UNCHANGED running

\* Mutant: a call that went to the base method leaves a ticket it never entered.
LeavesAlways(f) == TRUE
Leaves(f) == f.kind = "ticket"

\* The innermost call ends, by a return or because an exception unwinds its frame.
Leave(t) ==
    /\ stack[t] # <<>>
    /\ LET f == stack[t][Len(stack[t])] IN
       IF Leaves(f)
       THEN /\ current' = [current EXCEPT ![t] = f.prev]
            /\ attached' = [attached EXCEPT ![t] = @ - 1]
       ELSE UNCHANGED <<current, attached>>
    /\ stack' = [stack EXCEPT ![t] = SubSeq(@, 1, Len(@) - 1)]
    /\ UNCHANGED <<exc, running>>

Catch(t) == exc[t] /\ exc' = [exc EXCEPT ![t] = FALSE]
            /\ UNCHANGED <<stack, current, attached, running>>

Finalize == running /\ running' = FALSE /\ UNCHANGED <<stack, current, attached, exc>>

Next == \/ \E t \in Thread : \/ \E o \in Obj, k \in Key : Enter(t, o, k)
                             \/ Leave(t) \/ Catch(t)
        \/ Finalize

Spec == Init /\ [][Next]_tkVars

-----------------------------------------------------------------------------
Tickets(t) == {i \in 1..Len(stack[t]) : stack[t][i].kind = "ticket"}
\* The innermost ticket below frame i, or 0.
Below(t, i) == CHOOSE j \in Tickets(t) \cup {0} :
                   j < i /\ \A l \in Tickets(t) : l < i => l <= j

\* current_ticket, and prev from every ticket on, lead through the tickets on the
\* stack of the thread, innermost first, and never to a frame that is gone: the
\* tickets are objects on the C++ stack (trampoline.cpp:371, :405).
ChainRight ==
    \A t \in Thread : /\ current[t] = Below(t, Len(stack[t]) + 1)
                      /\ \A i \in Tickets(t) : stack[t][i].prev = Below(t, i)

\* An override that calls its own base method reaches it: no override is entered by
\* a call it makes for the same object (trampoline.cpp:373-386).  A call that is
\* overridden goes to the base method in no other case: not when another object's
\* override of the same method is running.
Delivered ==
    \A t \in Thread : \A i \in 1..Len(stack[t]) :
        LET f == stack[t][i]
            b == Below(t, i)
            again == b # 0 /\ stack[t][b].self = f.self /\ stack[t][b].key = f.key
        IN  running /\ <<f.self, f.key>> \in Overrides => (f.kind = "base" <=> again)

\* A thread is attached once for every override that runs on it: every way out of
\* trampoline_enter() and trampoline_leave() releases what it took.
Balanced == \A t \in Thread : attached[t] = Cardinality(Tickets(t))
=============================================================================
