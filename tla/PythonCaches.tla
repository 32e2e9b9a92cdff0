--------------------------- MODULE PythonCaches ---------------------------
(* The caches of Python objects in nb_internals.cpp: interned strings found by *)
(* the address of a C string (cached_string) and module attributes resolved    *)
(* on first use (import_cached).  Readers take no lock; fillers take the lock  *)
(* of the internals after they made the object.  An entry borrows its object   *)
(* from the lifeline, which dies in a teardown.                                *)
(*                                                                             *)
(* One set of two name slots is modelled, so every address maps to it: Home is *)
(* the slot an address is hashed to, and its neighbour the other.              *)
EXTENDS Naturals, FiniteSets, Functions

CONSTANTS Caller, Addr, Text, Value,
          Home,     \* [Addr -> 0 .. 1]
          Empty

VARIABLES chars,     \* the text at each address; it changes when the address is reused
          slots,     \* name_cache: key and string of the two entries
          import,    \* the value of one import_cache
          attr,      \* the module attribute it stands for
          refs,      \* Python references of each object the caches made or took
          lifeline,  \* how often the lifeline lists each object
          torn,      \* has the lifeline been dropped?
          call       \* what each thread is doing

cacheVars == <<chars, slots, import, attr, refs, lifeline, torn, call>>

Object == Text \cup Value
NoEntry == [key |-> Empty, str |-> Empty]
NoCall == [pc |-> "none", addr |-> Empty, literal |-> FALSE, i |-> 0,
           vacancy |-> FALSE, obj |-> Empty, owned |-> FALSE]

Init == /\ chars = [a \in Addr |-> CHOOSE x \in Text : TRUE]
        /\ slots = [i \in 0 .. 1 |-> NoEntry]
        /\ import = Empty
        /\ attr = CHOOSE v \in Value : TRUE
        /\ refs = [x \in Object |-> IF x = attr THEN 1 ELSE 0]
        /\ lifeline = [x \in Object |-> 0]
        /\ torn = FALSE
        /\ call = [t \in Caller |-> NoCall]

Add(f, x, n) == [f EXCEPT ![x] = @ + n]
Goto(t, pc, x, owned) == call' = [call EXCEPT ![t] =
    [NoCall EXCEPT !.pc = pc, !.addr = call[t].addr, !.obj = x, !.owned = owned]]
Return(t, x, owned) == Goto(t, "use", x, owned)

(* cached_string_fast(): probe the home slot, then its neighbour.  A literal   *)
(* comes with its bound, a string built at run time without.                   *)
Ask(t, a, literal) ==
    /\ call[t].pc = "none" /\ ~torn
    /\ call' = [call EXCEPT ![t] = [NoCall EXCEPT
          !.pc = "probe", !.addr = a, !.literal = literal, !.i = Home[a]]]
    /\ UNCHANGED <<chars, slots, import, attr, refs, lifeline, torn>>

\* Mutant: only the address is compared.
MatchingKey(e, a) == e.key = a

(* name_cache_match(): the address and the characters must agree.              *)
Matching(e, a) == e.key = a /\ e.str = chars[a]
Probe(t) ==
    LET a == call[t].addr
        e == slots[call[t].i]
        vacancy == call[t].vacancy \/ e = NoEntry
    IN  /\ call[t].pc = "probe"
        /\ IF Matching(e, a) THEN Return(t, e.str, FALSE)
           ELSE call' = [call EXCEPT ![t].vacancy = vacancy, ![t].i = 1 - @,
                            ![t].pc = IF call[t].i = Home[a] THEN "probe" ELSE "miss"]
        /\ UNCHANGED <<chars, slots, import, attr, refs, lifeline, torn>>

(* cached_string_slow(): a string built at run time, or one that finds no      *)
(* room, gets an object of its own; that object is the caller's business.      *)
Plain(t) ==
    /\ call[t].pc = "miss" /\ ~(call[t].literal /\ call[t].vacancy)
    /\ call' = [call EXCEPT ![t] = NoCall]
    /\ UNCHANGED <<chars, slots, import, attr, refs, lifeline, torn>>
Intern(t) ==
    /\ call[t].pc = "miss" /\ call[t].literal /\ call[t].vacancy
    /\ refs' = Add(refs, chars[call[t].addr], 1)
    /\ Goto(t, "lock", chars[call[t].addr], TRUE)
    /\ UNCHANGED <<chars, slots, import, attr, lifeline, torn>>

\* Mutant: the slots are not checked again under the lock.
FillUnchecked(t) ==
    LET a == call[t].addr
    IN  /\ call[t].pc = "lock"
        /\ \E i \in 0 .. 1 : slots[i] = NoEntry /\ slots' = [slots EXCEPT ![i] = [key |-> a, str |-> call[t].obj]]
        /\ lifeline' = Add(lifeline, call[t].obj, 1)
        /\ Return(t, call[t].obj, FALSE)
        /\ UNCHANGED <<chars, import, attr, refs, torn>>

\* Mutant: the string is entered although the lifeline refused it.
FillRefused(t) ==
    LET a == call[t].addr
    IN  /\ call[t].pc = "lock"
        /\ \E i \in 0 .. 1 : slots[i] = NoEntry /\ slots' = [slots EXCEPT ![i] = [key |-> a, str |-> call[t].obj]]
        /\ Return(t, call[t].obj, TRUE)
        /\ UNCHANGED <<chars, import, attr, refs, lifeline, torn>>

(* Under the lock: another thread may have entered the same string, or filled  *)
(* the set; PyList_Append may fail, and a teardown may have come first.        *)
Fill(t) ==
    LET a == call[t].addr
        x == call[t].obj
        order == <<Home[a], 1 - Home[a]>>
        free == {i \in 1 .. 2 : slots[order[i]] = NoEntry}
        first == order[CHOOSE i \in free : \A j \in free : i <= j]
    IN  /\ call[t].pc = "lock"
        /\ IF \E i \in 0 .. 1 : Matching(slots[i], a)
             THEN /\ refs' = Add(refs, x, -1)
                  /\ Return(t, x, FALSE)
                  /\ UNCHANGED <<slots, lifeline>>
             ELSE \/ /\ free # {} /\ ~torn
                     /\ lifeline' = Add(lifeline, x, 1)
                     /\ slots' = [slots EXCEPT ![first] = [key |-> a, str |-> x]]
                     /\ Return(t, x, FALSE)
                     /\ UNCHANGED refs
                  \/ Return(t, x, TRUE) /\ UNCHANGED <<slots, refs, lifeline>>
        /\ UNCHANGED <<chars, import, attr, torn>>

\* Mutant: the key is not released when the operation fails.
ReleaseMaybe(t) ==
    /\ call[t].pc = "use"
    /\ \/ call[t].owned /\ refs' = Add(refs, call[t].obj, -1)
       \/ UNCHANGED refs
    /\ call' = [call EXCEPT ![t] = NoCall]
    /\ UNCHANGED <<chars, slots, import, attr, lifeline, torn>>

(* The caller (getattr_str, dict_setitem_str, ...) performs its operation,     *)
(* which may fail, and releases the key if it is owned.                        *)
Release(t) ==
    /\ call[t].pc = "use"
    /\ refs' = IF call[t].owned THEN Add(refs, call[t].obj, -1) ELSE refs
    /\ call' = [call EXCEPT ![t] = NoCall]
    /\ UNCHANGED <<chars, slots, import, attr, lifeline, torn>>

(* import_cache::get(): a load, then import_cached(), which looks the          *)
(* attribute up outside of the lock.                                           *)
Get(t) ==
    /\ call[t].pc = "none" /\ ~torn
    /\ IF import # Empty THEN Return(t, import, FALSE)
       ELSE call' = [call EXCEPT ![t].pc = "import"]
    /\ UNCHANGED <<chars, slots, import, attr, refs, lifeline, torn>>
Import(t) ==
    /\ call[t].pc = "import"
    /\ \/ /\ refs' = Add(refs, attr, 1)
          /\ Goto(t, "store", attr, TRUE)
       \/ call' = [call EXCEPT ![t] = NoCall] /\ UNCHANGED refs
    /\ UNCHANGED <<chars, slots, import, attr, lifeline, torn>>

Store(t) ==
    LET o == call[t].obj
    IN  /\ call[t].pc = "store"
        /\ \/ /\ import # Empty
              /\ refs' = Add(refs, o, -1)
              /\ Return(t, import, FALSE)
              /\ UNCHANGED <<import, lifeline>>
           \/ /\ import = Empty
              /\ refs' = Add(refs, o, -1)
              /\ call' = [call EXCEPT ![t] = NoCall]
              /\ UNCHANGED <<import, lifeline>>
           \/ /\ import = Empty /\ ~torn
              /\ lifeline' = Add(lifeline, o, 1)
              /\ import' = o
              /\ Return(t, o, FALSE)
              /\ UNCHANGED refs
        /\ UNCHANGED <<chars, slots, attr, torn>>

(* internals_dec_ref() drops the lifeline and resets both caches.  Whoever     *)
(* works with an entry counts on the internals, so nobody does by then; what a *)
(* caller is about to enter is checked against the lifeline under the lock.    *)
Teardown ==
    /\ ~torn /\ \A t \in Caller : call[t].pc \notin {"probe", "use"}
    /\ torn' = TRUE
    /\ refs' = [x \in Object |-> refs[x] - lifeline[x]]
    /\ lifeline' = [x \in Object |-> 0]
    /\ slots' = [i \in 0 .. 1 |-> NoEntry]
    /\ import' = Empty
    /\ UNCHANGED <<chars, attr, call>>
Rebuild == torn /\ torn' = FALSE
           /\ UNCHANGED <<chars, slots, import, attr, refs, lifeline, call>>

(* The memory behind an address is reused for other text while no call uses    *)
(* it; the program replaces the module attribute.                              *)
Reuse(a, x) ==
    /\ x # chars[a] /\ \A t \in Caller : call[t].addr # a
    /\ chars' = [chars EXCEPT ![a] = x]
    /\ UNCHANGED <<slots, import, attr, refs, lifeline, torn, call>>
Patch(v) ==
    /\ v # attr
    /\ attr' = v /\ refs' = Add(Add(refs, attr, -1), v, 1)
    /\ UNCHANGED <<chars, slots, import, lifeline, torn, call>>

Next == \/ \E t \in Caller : \/ \E a \in Addr, l \in BOOLEAN : Ask(t, a, l)
                             \/ Probe(t) \/ Plain(t) \/ Intern(t) \/ Fill(t) \/ Release(t)
                             \/ Get(t) \/ Import(t) \/ Store(t)
        \/ Teardown \/ Rebuild
        \/ \E a \in Addr, x \in Text : Reuse(a, x)
        \/ \E v \in Value : Patch(v)
Spec == Init /\ [][Next]_cacheVars

-----------------------------------------------------------------------------

TypeOK == /\ chars \in [Addr -> Text] /\ attr \in Value
          /\ slots \in [0 .. 1 -> [key : Addr \cup {Empty}, str : Text \cup {Empty}]]
          /\ refs \in [Object -> Nat] /\ lifeline \in [Object -> Nat]

(* A call ends with a string that spells what its argument spells, although    *)
(* the cache is keyed by an address whose content may have changed since.      *)
RightText == \A t \in Caller : (call[t].pc = "use" /\ call[t].addr # Empty) =>
                call[t].obj = chars[call[t].addr]

(* No borrowed object dies while an entry or a caller refers to it, whichever  *)
(* thread fills a slot first and whenever the lifeline goes.                   *)
BorrowedAlive ==
    /\ \A i \in 0 .. 1 : slots[i] # NoEntry => lifeline[slots[i].str] > 0
    /\ import # Empty => lifeline[import] > 0
    /\ \A t \in Caller : call[t].pc = "use" => refs[call[t].obj] > 0

(* Neither a lost race nor a failed or refused fill leaks or drops a           *)
(* reference: the count of an object is its lifeline entries, the owned        *)
(* results in use, the results being stored, and the module attribute.         *)
Owners(x) == {t \in Caller : call[t].obj = x /\ call[t].owned}
CacheRefsExact == \A x \in Object :
    refs[x] = lifeline[x] + Cardinality(Owners(x)) + (IF x = attr THEN 1 ELSE 0)

(* Racing fills never enter one string twice, which would waste the set of two *)
(* slots, and the lifeline holds one reference per entry.                      *)
NoTwins == /\ slots[0] # NoEntry => slots[0] # slots[1]
           /\ \A x \in Object : lifeline[x] =
                Cardinality({i \in 0 .. 1 : slots[i].str = x}) + (IF import = x THEN 1 ELSE 0)
=============================================================================
