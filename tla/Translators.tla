---------------------------- MODULE Translators ----------------------------
(* The exception translators of a domain: a list that grows at its head (error.cpp) *)
(* while other threads walk it to translate C++ exceptions (nb_func.cpp).  The body  *)
(* of a translator decides whether it handles an exception, and may throw another.   *)
EXTENDS Integers, Sequences, SequencesExt

CONSTANTS Node, Thread,
          Concurrent,    \* whether two threads register at the same time
          None

VARIABLES head,          \* translators
          next,          \* next of a node
          adding,        \* the node that a thread has allocated and not stored
          walk,          \* a translation: the node it is at, those it tried, its plan
          order          \* nodes in the order of registration (history)

transVars == <<head, next, adding, walk, order>>

Idle == [at |-> None, tried |-> <<>>, plan |-> <<>>, state |-> "idle"]
Init == /\ head = None /\ next = [n \in Node |-> None]
        /\ adding = [t \in Thread |-> None] /\ walk = [t \in Thread |-> Idle]
        /\ order = <<>>

Fresh(n) == n \notin ToSet(order) /\ \A t \in Thread : adding[t] # n
Free(t) == adding[t] = None /\ walk[t].state = "idle"

\* Mutant: the new node does not lead to the old ones.
LinkNone == None
Link == head

\* register_exception_translator(): the list is read and written in two steps.
Allocate(t, n) ==
    /\ Free(t) /\ Fresh(n) /\ (Concurrent \/ \A u \in Thread : adding[u] = None)
    /\ adding' = [adding EXCEPT ![t] = n] /\ next' = [next EXCEPT ![n] = Link]
    /\ UNCHANGED <<head, walk, order>>

Store(t) == /\ adding[t] # None
            /\ head' = adding[t] /\ order' = Append(order, adding[t])
            /\ adding' = [adding EXCEPT ![t] = None] /\ UNCHANGED <<next, walk>>

\* nb_func_convert_cpp_exception()
Begin(t) == /\ Free(t)
            /\ walk' = [walk EXCEPT ![t] = [at |-> head, tried |-> <<>>,
                           plan |-> Reverse(order), state |-> "walking"]]
            /\ UNCHANGED <<head, next, adding, order>>

\* Mutant: a translator that throws ends the translation.
GoesOnNot(n) == None
GoesOn(n) == next[n]

Try(t, handled) ==
    /\ walk[t].state = "walking" /\ walk[t].at # None
    /\ LET n == walk[t].at IN
       walk' = [walk EXCEPT ![t].tried = Append(@, n),
                            ![t].state = IF handled THEN "handled" ELSE @,
                            ![t].at = IF handled THEN n ELSE GoesOn(n)]
    /\ UNCHANGED <<head, next, adding, order>>

\* The error is set, by a translator or as a SystemError; the call returns.
Finish(t) == /\ walk[t].state = "handled" \/ (walk[t].state = "walking" /\ walk[t].at = None)
             /\ walk' = [walk EXCEPT ![t] = Idle]
             /\ UNCHANGED <<head, next, adding, order>>

Next == \E t \in Thread : \/ \E n \in Node : Allocate(t, n)
                          \/ Store(t) \/ Begin(t) \/ Finish(t)
                          \/ \E handled \in BOOLEAN : Try(t, handled)

Spec == Init /\ [][Next]_transVars

-----------------------------------------------------------------------------
\* An exception is offered to the translators that were registered when it was caught,
\* the last registered first, whatever is registered meanwhile, and it is given up
\* only after all of them (docs/exceptions.rst:111-113, nb_func.cpp:632-644).
LastFirst ==
    \A t \in Thread :
        /\ IsPrefix(walk[t].tried, walk[t].plan)
        /\ walk[t].state = "walking" /\ walk[t].at = None => walk[t].tried = walk[t].plan
=============================================================================
