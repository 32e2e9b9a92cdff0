---------------------------- MODULE PythonError ----------------------------
(* python_error, the C++ exception that carries a Python error (error.cpp,     *)
(* nb_error.h).  Errors move between the error indicators of threads and       *)
(* exception objects, which C++ copies, moves and destroys on any thread, also *)
(* while the interpreter shuts down.  The message is made on the first call of *)
(* what() and published with a compare-exchange.                               *)
EXTENDS Naturals, FiniteSets

CONSTANTS Thread, Error,   \* storage of python_error objects
          Value,           \* Python exception objects
          None

VARIABLES indicator,  \* the error indicator of each thread
          payload,    \* value and published message of each python_error; gone when destroyed
          buffers,    \* message buffers allocated, by the python_error they were made for
          refs,       \* Python references to each exception object
          cause,      \* __cause__ and __context__ of an exception object
          what,       \* what() calls under way
          alive       \* can the interpreter still be entered?

errorVars == <<indicator, payload, buffers, refs, cause, what, alive>>

Blank == [live |-> FALSE, value |-> None, msg |-> None]
NoWhat == [pc |-> "none", err |-> None, msg |-> None]

Init == /\ indicator = [t \in Thread |-> None]
        /\ payload = [e \in Error |-> Blank]
        /\ buffers = [e \in Error |-> {}]
        /\ refs = [v \in Value |-> 0]
        /\ cause = [v \in Value |-> None]
        /\ what = [t \in Thread |-> NoWhat]
        /\ alive = TRUE

(* The references to x that go when one to v goes and the exceptions in gone   *)
(* die; an exception dies with its last reference, and lets go of its cause.   *)
Lost(v, gone, x) == (IF x = v THEN 1 ELSE 0) + 2 * Cardinality({w \in gone : cause[w] = x})
Dying(v) == {x \in Value : \A gone \in SUBSET Value :
    (\A w \in Value : refs[w] \in 1 .. Lost(v, gone, w) => w \in gone) => x \in gone}
Drop(v) ==
    LET gone == Dying(v)
    IN  /\ refs' = [x \in Value |-> refs[x] - Lost(v, gone, x)]
        /\ cause' = [x \in Value |-> IF x \in gone THEN None ELSE cause[x]]
Keep == UNCHANGED <<refs, cause>>

Idle(t) == what[t] = NoWhat
Unshared(e) == \A t \in Thread : what[t].err # e

(* A Python function fails.                                                    *)
Fails(t, v) ==
    /\ alive /\ Idle(t) /\ indicator[t] = None /\ refs[v] = 0
    /\ indicator' = [indicator EXCEPT ![t] = v]
    /\ refs' = [refs EXCEPT ![v] = 1]
    /\ UNCHANGED <<payload, buffers, cause, what, alive>>

(* raise_python_error(): error_fetch() takes the reference of the indicator.   *)
Fetch(t, e) ==
    /\ alive /\ Idle(t) /\ indicator[t] # None /\ ~payload[e].live
    /\ payload' = [payload EXCEPT ![e] = [live |-> TRUE, value |-> indicator[t], msg |-> None]]
    /\ indicator' = [indicator EXCEPT ![t] = None]
    /\ UNCHANGED <<buffers, refs, cause, what, alive>>

\* Mutant: restore() keeps the value, whose reference the indicator stole.
RestoreKeeps(t, e) ==
    /\ alive /\ Idle(t) /\ Unshared(e) /\ payload[e].value # None
    /\ indicator' = [indicator EXCEPT ![t] = payload[e].value]
    /\ IF indicator[t] = None THEN Keep ELSE Drop(indicator[t])
    /\ UNCHANGED <<payload, buffers, what, alive>>

(* restore(): the indicator steals the reference; an error that was pending is *)
(* dropped.                                                                    *)
Restore(t, e) ==
    /\ alive /\ Idle(t) /\ Unshared(e) /\ payload[e].value # None
    /\ indicator' = [indicator EXCEPT ![t] = payload[e].value]
    /\ payload' = [payload EXCEPT ![e].value = None]
    /\ IF indicator[t] = None THEN Keep ELSE Drop(indicator[t])
    /\ UNCHANGED <<buffers, what, alive>>

(* Python handles the pending error.                                           *)
Handle(t) ==
    /\ alive /\ Idle(t) /\ indicator[t] # None
    /\ indicator' = [indicator EXCEPT ![t] = None]
    /\ Drop(indicator[t])
    /\ UNCHANGED <<payload, buffers, what, alive>>

\* Mutant: the copy shares the buffer of the message.
CopyShares(t, e, f) ==
    /\ Idle(t) /\ payload[e].live /\ ~payload[f].live
    /\ payload' = [payload EXCEPT ![f] = payload[e]]
    /\ refs' = IF payload[e].value # None /\ alive
               THEN [refs EXCEPT ![payload[e].value] = @ + 1] ELSE refs
    /\ UNCHANGED <<indicator, buffers, cause, what, alive>>

(* error_copy(): a reference and a message of its own.  Nobody can take a      *)
(* reference once Python cannot be entered, and nobody will release one.       *)
Copy(t, e, f) ==
    LET v == payload[e].value
        msg == payload[e].msg
    IN  /\ Idle(t) /\ payload[e].live /\ ~payload[f].live
        /\ payload' = [payload EXCEPT ![f] = payload[e]]
        /\ buffers' = IF msg = None THEN buffers ELSE [buffers EXCEPT ![f] = {msg}]
        /\ refs' = IF v # None /\ alive THEN [refs EXCEPT ![v] = @ + 1] ELSE refs
        /\ UNCHANGED <<indicator, cause, what, alive>>

(* The move constructor leaves a blank payload behind.                         *)
Move(t, e, f) ==
    /\ Idle(t) /\ Unshared(e) /\ payload[e].live /\ payload[e].value # None /\ ~payload[f].live
    /\ payload' = [payload EXCEPT ![f] = payload[e], ![e] = [Blank EXCEPT !.live = TRUE]]
    /\ buffers' = [buffers EXCEPT ![f] = buffers[e], ![e] = {}]
    /\ UNCHANGED <<indicator, refs, cause, what, alive>>

\* Mutant: error_release() does not ask whether Python can be entered.
DestroyAlways(t, e) ==
    LET v == payload[e].value
    IN  /\ Idle(t) /\ Unshared(e) /\ payload[e].live
        /\ payload' = [payload EXCEPT ![e] = Blank]
        /\ buffers' = [buffers EXCEPT ![e] = @ \ {payload[e].msg}]
        /\ IF v # None THEN Drop(v) ELSE Keep
        /\ UNCHANGED <<indicator, what, alive>>

(* error_release(): the pending error of the thread is set aside while the     *)
(* reference goes, and without Python the reference is leaked.                 *)
Destroy(t, e) ==
    LET v == payload[e].value
    IN  /\ Idle(t) /\ Unshared(e) /\ payload[e].live
        /\ payload' = [payload EXCEPT ![e] = Blank]
        /\ buffers' = [buffers EXCEPT ![e] = @ \ {payload[e].msg}]
        /\ IF v # None /\ alive THEN Drop(v) ELSE Keep
        /\ UNCHANGED <<indicator, what, alive>>

(* chain_v(): a new error, with the pending one as its cause and context.      *)
Chain(t, w) ==
    LET v == indicator[t]
    IN  /\ alive /\ Idle(t) /\ v # None /\ refs[w] = 0
        /\ indicator' = [indicator EXCEPT ![t] = w]
        /\ cause' = [cause EXCEPT ![w] = v]
        /\ refs' = [refs EXCEPT ![w] = 1, ![v] = @ + 1]
        /\ UNCHANGED <<payload, buffers, what, alive>>

(* what(): return the published message, or make one; the formatting runs      *)
(* Python code, so other threads can overtake.                                 *)
What(t, e) ==
    /\ Idle(t) /\ payload[e].live /\ payload[e].value # None
    /\ what' = [what EXCEPT ![t] =
          IF payload[e].msg # None THEN [pc |-> "got", err |-> e, msg |-> payload[e].msg]
          ELSE IF alive THEN [pc |-> "format", err |-> e, msg |-> None]
          ELSE [pc |-> "got", err |-> e, msg |-> "unavailable"]]
    /\ UNCHANGED <<indicator, payload, buffers, refs, cause, alive>>
Format(t) ==
    LET e == what[t].err
    IN  /\ what[t].pc = "format"
        /\ IF payload[e].msg # None
             THEN what' = [what EXCEPT ![t].pc = "got", ![t].msg = payload[e].msg] /\ UNCHANGED buffers
             ELSE /\ buffers' = [buffers EXCEPT ![e] = @ \cup {t}]
                  /\ what' = [what EXCEPT ![t].pc = "publish", ![t].msg = t]
        /\ UNCHANGED <<indicator, payload, refs, cause, alive>>

\* Mutant: the message is stored without a compare-exchange.
PublishStore(t) ==
    /\ what[t].pc = "publish"
    /\ payload' = [payload EXCEPT ![what[t].err].msg = what[t].msg]
    /\ what' = [what EXCEPT ![t].pc = "got"]
    /\ UNCHANGED <<indicator, buffers, refs, cause, alive>>

(* The compare-exchange: the first message stays, a later one is freed.        *)
Publish(t) ==
    LET e == what[t].err
        won == payload[e].msg = None
    IN  /\ what[t].pc = "publish"
        /\ payload' = IF won THEN [payload EXCEPT ![e].msg = what[t].msg] ELSE payload
        /\ buffers' = IF won THEN buffers ELSE [buffers EXCEPT ![e] = @ \ {what[t].msg}]
        /\ what' = [what EXCEPT ![t].pc = "got", ![t].msg = payload'[e].msg]
        /\ UNCHANGED <<indicator, refs, cause, alive>>
Read(t) ==
    /\ what[t].pc = "got"
    /\ what' = [what EXCEPT ![t] = NoWhat]
    /\ UNCHANGED <<indicator, payload, buffers, refs, cause, alive>>

(* Shutdown: threads that are inside Python finish first.                      *)
ShutDown ==
    /\ alive /\ \A t \in Thread : indicator[t] = None /\ what[t].pc \notin {"format", "publish"}
    /\ alive' = FALSE
    /\ UNCHANGED <<indicator, payload, buffers, refs, cause, what>>

Next == \/ ShutDown
        \/ \E t \in Thread :
              \/ Handle(t) \/ Format(t) \/ Publish(t) \/ Read(t)
              \/ \E v \in Value : Fails(t, v) \/ Chain(t, v)
              \/ \E e \in Error : \/ Fetch(t, e) \/ Restore(t, e) \/ Destroy(t, e) \/ What(t, e)
                                  \/ \E f \in Error : Copy(t, e, f) \/ Move(t, e, f)
Spec == Init /\ [][Next]_errorVars

-----------------------------------------------------------------------------

TypeOK == /\ indicator \in [Thread -> Value \cup {None}]
          /\ \A e \in Error : /\ payload[e].value \in Value \cup {None}
                              /\ ~payload[e].live => payload[e] = Blank
          /\ refs \in [Value -> Nat] /\ alive \in BOOLEAN

(* Every reference to an exception object has one owner: an indicator, a       *)
(* python_error, or the exception it caused (which owns two).                  *)
Owners(v) == Cardinality({t \in Thread : indicator[t] = v})
             + Cardinality({e \in Error : payload[e].value = v})
             + 2 * Cardinality({w \in Value : cause[w] = v})
ErrorRefsExact == alive => \A v \in Value : refs[v] = Owners(v)

(* An exception that is carried, pending or reported as a cause is alive, and  *)
(* stays so when carriers are copied and destroyed during shutdown.            *)
CarriedAlive == \A v \in Value : Owners(v) > 0 => refs[v] > 0

(* A message that what() returned stays valid while the exception lives, even  *)
(* if several threads ask at once, and each python_error frees its own: no     *)
(* buffer is left behind.                                                      *)
OneMessage ==
    /\ \A t \in Thread : (what[t].pc = "got" /\ what[t].msg # "unavailable") =>
          /\ what[t].msg = payload[what[t].err].msg
          /\ what[t].msg \in buffers[what[t].err]
    /\ \A e \in Error : buffers[e] = ({payload[e].msg} \ {None})
          \cup {t \in Thread : what[t].pc = "publish" /\ what[t].err = e}
=============================================================================
