----------------------------- MODULE PythonCall -----------------------------
(* Calls from C++ into Python: nb_call.h collects the arguments, obj_vectorcall *)
(* and obj_vectorcall_ex (common.cpp:160-311) lay them out for a vectorcall.     *)
(* The stack of the vectorcall borrows its entries; the names of keywords are    *)
(* owned by a tuple.  Expanding an operand of * or ** may run Python code.       *)
EXTENDS Integers, FiniteSets, SequencesExt

CONSTANTS Value, Name,   \* the objects: argument values; strings used as keywords
          NotName,       \* a value used as a key that is not a string
          MaxArgs        \* bound: entries of one call

Obj == Value \cup Name

VARIABLES user,          \* the containers of the program: an operand of *, one of **
          refs,          \* reference counts
          call           \* the call in progress

pcVars == <<user, refs, call>>

(* Items are keys and values: those of a dictionary, which are pairs, or those   *)
(* that an argument brings.                                                      *)
Lists == BoundedSeq(Value, 2)
NoItems == [keys |-> <<>>, vals |-> <<>>]
Dicts == {NoItems} \cup {[keys |-> <<k>>, vals |-> <<v>>] : k \in Name \cup {NotName}, v \in Value}

Count(o, f) == Cardinality({x \in DOMAIN f : f[x] = o})
Items(o, d) == Count(o, d.keys) + Count(o, d.vals)
\* What a sequence of sequences lists, by entry and position.
Flat(ss) == [s \in UNION {{i} \X DOMAIN ss[i] : i \in DOMAIN ss} |-> ss[s[1]][s[2]]]
Held(o, es) == Count(o, Flat([i \in DOMAIN es |-> es[i].keys]))
               + Count(o, Flat([i \in DOMAIN es |-> es[i].vals]))

Idle == [pc |-> "idle"]
Init == /\ user = [list |-> <<>>, dict |-> NoItems]
        /\ refs = [o \in Obj |-> 0]
        /\ call = Idle

\* The program changes one of its containers; during a call only while the
\* operands are expanded.
Mutate == /\ call.pc \in {"idle", "pass1"}
          /\ \/ \E s \in Lists :
                   /\ user' = [user EXCEPT !.list = s]
                   /\ refs' = [o \in Obj |-> refs[o] + Count(o, s) - Count(o, user.list)]
             \/ \E d \in Dicts :
                   /\ user' = [user EXCEPT !.dict = d]
                   /\ refs' = [o \in Obj |-> refs[o] + Items(o, d) - Items(o, user.dict)]
          /\ UNCHANGED call

-----------------------------------------------------------------------------
(* call_arg entries own a value and a name, or are an operand to expand; without *)
(* a value or a name that is needed, a conversion failed.                        *)
Entry == [kind : {"pos"}, keys : {<<>>}, vals : BoundedSeq(Value, 1)] \cup
         [kind : {"kw"}, keys : BoundedSeq(Name, 1), vals : BoundedSeq(Value, 1)] \cup
         [kind : {"star", "dstar"}, keys : {<<>>}, vals : {<<>>}]
Missing(e) == \/ e.kind \in {"pos", "kw"} /\ e.vals = <<>>
              \/ e.kind = "kw" /\ e.keys = <<>>

Begin(es) == /\ call.pc = "idle"
             /\ call' = [pc |-> "pass1", args |-> es, i |-> 1, nargs |-> 0, nkwargs |-> 0,
                         pos |-> <<>>, kw |-> <<>>, kwnames |-> <<>>]
             /\ refs' = [o \in Obj |-> refs[o] + Held(o, es)]
             /\ UNCHANGED user

ToCleanup == [call EXCEPT !.pc = "cleanup"]

Expanded(e) == IF e.kind = "star" THEN [keys |-> <<>>, vals |-> user.list] ELSE user.dict
\* Mutant: the elements are borrowed from the container that is expanded.
TakenNone(e) == NoItems
Taken(e) == Expanded(e)

PassOne ==
    /\ call.pc = "pass1" /\ call.i <= Len(call.args)
    /\ LET e == call.args[call.i]
           next == [call EXCEPT !.i = @ + 1]
           expands == e.kind \in {"star", "dstar"}
       IN  \/ (Missing(e) \/ expands) /\ call' = ToCleanup /\ UNCHANGED refs
           \/ /\ e.kind = "pos" /\ ~Missing(e)
              /\ call' = [next EXCEPT !.nargs = @ + 1] /\ UNCHANGED refs
           \/ /\ e.kind = "kw" /\ ~Missing(e)
              /\ call' = [next EXCEPT !.nkwargs = @ + 1] /\ UNCHANGED refs
           \/ /\ expands
              /\ LET x == Expanded(e)
                 IN  call' = [next EXCEPT !.args[call.i] = [e EXCEPT !.keys = x.keys, !.vals = x.vals],
                                !.nargs = IF e.kind = "star" THEN @ + Len(x.vals) ELSE @,
                                !.nkwargs = IF e.kind = "dstar" THEN @ + Len(x.keys) ELSE @]
              /\ refs' = [o \in Obj |-> refs[o] + Items(o, Taken(e))]
    /\ UNCHANGED user

\* Mutant: a dictionary is not copied but read where it is.
ContentsShared(e) == IF e.kind = "dstar" THEN user.dict ELSE [keys |-> e.keys, vals |-> e.vals]
Contents(e) == [keys |-> e.keys, vals |-> e.vals]

\* What an entry contributes to the stack and to the names of keywords.
Pos(e) == IF e.kind \in {"pos", "star"} THEN Contents(e).vals ELSE <<>>
Kw(e) == IF e.kind \in {"kw", "dstar"} THEN Contents(e).vals ELSE <<>>
Keys(e) == IF e.kind \in {"kw", "dstar"} THEN Contents(e).keys ELSE <<>>

\* The names of a dictionary are new references, those of keywords change hands.
NewKeys(e) == IF e.kind = "dstar" THEN Keys(e) ELSE <<>>
NameMoved(e) == IF e.kind = "kw" THEN [e EXCEPT !.keys = <<>>] ELSE e

\* The stack is filled up to the first dictionary with a key that is not a string.
Fills(n) == /\ \A i \in 1 .. n : NotName \notin Range(Keys(call.args[i]))
            /\ n < Len(call.args) => NotName \in Range(Keys(call.args[n + 1]))

PassTwo ==
    /\ call.pc = "pass1" /\ call.i > Len(call.args)
    /\ \/ call.nkwargs > 0 /\ call' = ToCleanup /\ UNCHANGED refs         \* out of memory
       \/ \E n \in 0 .. Len(call.args) :
              LET from == call.args IN
              /\ Fills(n)
              /\ call' = [call EXCEPT
                    !.args = [i \in DOMAIN from |-> IF i <= n THEN NameMoved(from[i]) ELSE from[i]],
                    !.pos = Flat([i \in 1 .. n |-> Pos(from[i])]),
                    !.kw = Flat([i \in 1 .. n |-> Kw(from[i])]),
                    !.kwnames = Flat([i \in 1 .. n |-> Keys(from[i])]),
                    !.pc = IF n = Len(from) THEN "calling" ELSE "cleanup"]
              /\ refs' = [o \in Obj |-> refs[o] + Count(o, Flat([i \in 1 .. n |-> NewKeys(from[i])]))]
    /\ UNCHANGED user

\* The callee returns or raises, having run any code.
Return == /\ call.pc = "calling"
          /\ call' = ToCleanup /\ UNCHANGED <<user, refs>>

\* Mutant: after an error the names are forgotten.
OwnedValuesOnly(o, c) == Held(o, c.args)
Owned(o, c) == Count(o, c.kwnames) + Held(o, c.args)

Cleanup == /\ call.pc = "cleanup"
           /\ refs' = [o \in Obj |-> refs[o] - Owned(o, call)]
           /\ call' = Idle /\ UNCHANGED user

-----------------------------------------------------------------------------
(* Calls with positional arguments only: each is new (owned) or borrowed from an  *)
(* object that the caller keeps, here in the list.                               *)
OwnedOf(es, mask) == Flat([i \in DOMAIN es |-> IF i \in mask THEN es[i] ELSE <<>>])

BeginSimple(es, mask) ==
    /\ call.pc = "idle"
    /\ \A i \in DOMAIN es : i \in mask \/ es[i] \in {<<v>> : v \in ToSet(user.list)}
    /\ call' = [pc |-> IF <<>> \in ToSet(es) THEN "released" ELSE "simple",
                args |-> es, owned |-> mask]
    /\ refs' = [o \in Obj |-> refs[o] + Count(o, OwnedOf(es, mask))]
    /\ UNCHANGED user

ReturnSimple == /\ call.pc = "simple"
                /\ call' = [call EXCEPT !.pc = "released"] /\ UNCHANGED <<user, refs>>

ReleaseSimple ==
    /\ call.pc = "released"
    /\ refs' = [o \in Obj |-> refs[o] - Count(o, OwnedOf(call.args, call.owned))]
    /\ call' = Idle /\ UNCHANGED user

-----------------------------------------------------------------------------
Next == \/ Mutate
        \/ \E es \in BoundedSeq(Entry, MaxArgs) : Begin(es)
        \/ PassOne \/ PassTwo \/ Return \/ Cleanup
        \/ \E es \in BoundedSeq(BoundedSeq(Value, 1), 2), mask \in SUBSET (1 .. 2) :
              BeginSimple(es, mask)
        \/ ReturnSimple \/ ReleaseSimple

Spec == Init /\ [][Next]_pcVars

-----------------------------------------------------------------------------
\* Every reference taken for a call is given back however the call ends: an
\* argument that could not be converted, an operand that cannot be expanded, a
\* key that is not a string, an error of the callee.
CallRefsExact ==
    \A o \in Obj :
        refs[o] = Count(o, user.list) + Items(o, user.dict) +
            CASE call.pc = "idle" -> 0
              [] call.pc \in {"simple", "released"} -> Count(o, OwnedOf(call.args, call.owned))
              [] call.pc \in {"pass1", "calling", "cleanup"} -> Owned(o, call)

\* The stack has room for exactly what is put there, although expanding a later
\* operand may change the container of an earlier one (test_functions.py:267).
StackExact ==
    call.pc = "calling" =>
        /\ Cardinality(DOMAIN call.pos) = call.nargs
        /\ Cardinality(DOMAIN call.kw) = call.nkwargs
        /\ Cardinality(DOMAIN call.kwnames) = call.nkwargs

\* During the call every entry of the stack and every name is alive.
StackAlive ==
    /\ call.pc = "calling" =>
        \A o \in Range(call.pos) \cup Range(call.kw) \cup Range(call.kwnames) : refs[o] > 0
    /\ call.pc = "simple" => \A i \in DOMAIN call.args : refs[call.args[i][1]] > 0
=============================================================================
