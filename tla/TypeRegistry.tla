---------------------------- MODULE TypeRegistry ----------------------------
(* The registry of bound types (nb_type.cpp): records of C++ types and of their *)
(* Python subclasses, the map from C++ type to record, and the fast map keyed   *)
(* by the address of the std::type_info, of which one type may have several     *)
(* (one per shared library).  Registration is assumed not to overlap with uses  *)
(* of the same type, as nb_type_new_impl() asks.                                *)
EXTENDS Naturals, Sequences, FiniteSets, SequencesExt, Functions

CONSTANTS Type, Info,   \* C++ types and addresses of their std::type_info
          TypeOf,       \* [Info -> Type]
          Rec,          \* memory for type objects
          User,         \* threads
          MainUser,     \* owner of the only fast map of a build with a GIL
          Features,     \* of a registered type: "plain", "intrusive", "pooled", "final"
          NoRec

VARIABLES ft,       \* free-threaded build?
          slow,     \* type_c2p_slow
          fast,     \* type_c2p_fast of every thread
          types,    \* the type records
          pending,  \* the registration under way
          filling,  \* the record each thread is about to fill
          counted,  \* what type records add to shared_ref_count
          aborted

registryVars == <<ft, slow, fast, types, pending, filling, counted, aborted>>

Placeholder == "placeholder"
Free == [mem |-> "free", info |-> NoRec, base |-> NoRec, py |-> FALSE, feature |-> "plain",
         intrusive |-> NoRec, pooled |-> FALSE, arrays |-> FALSE, chain |-> <<>>]
Idle == [info |-> NoRec, base |-> NoRec, feature |-> "plain"]

Init == /\ ft \in BOOLEAN
        /\ slow = [t \in Type |-> NoRec]
        /\ fast = [u \in User |-> [i \in Info |-> NoRec]]
        /\ types = [r \in Rec |-> Free]
        /\ pending = Idle /\ filling = [u \in User |-> NoRec] /\ counted = 0 /\ aborted = FALSE

Registered == {r \in Rec : types[r].mem = "live"}
Cache(u) == IF ft THEN u ELSE MainUser

(* nb_type_new_impl(), first part: reserve the type.  One that is taken gives   *)
(* a warning and the existing type.                                             *)
Reserve(i, base, feature) ==
    /\ pending = Idle /\ slow[TypeOf[i]] = NoRec
    /\ slow' = [slow EXCEPT ![TypeOf[i]] = Placeholder]
    /\ pending' = [info |-> i, base |-> base, feature |-> feature]
    /\ UNCHANGED <<ft, fast, types, filling, counted, aborted>>

(* The part of the record that a base class passes on; an intrusive type that   *)
(* asks for a pool ends the program.                                            *)
Intrusive(r) == IF pending.feature = "intrusive" THEN r
                ELSE IF pending.base # NoRec THEN types[pending.base].intrusive ELSE NoRec
Record(r) == [Free EXCEPT !.mem = "live", !.info = pending.info, !.base = pending.base,
                 !.feature = pending.feature, !.intrusive = Intrusive(r),
                 !.pooled = pending.feature = "pooled"]
PoolingRefused == pending.feature = "pooled" /\ pending.base # NoRec
                  /\ types[pending.base].intrusive # NoRec

(* Second part: the Python type exists and is published in both maps.           *)
Publish(r) ==
    /\ pending # Idle /\ types[r].mem = "free"
    /\ types' = [types EXCEPT ![r] = Record(r)]
    /\ slow' = [slow EXCEPT ![TypeOf[pending.info]] = r]
    /\ fast' = IF ft THEN fast ELSE [fast EXCEPT ![MainUser][pending.info] = r]
    /\ counted' = counted + 1 /\ pending' = Idle
    /\ UNCHANGED <<ft, filling, aborted>>

\* Mutant: an alias is cached without being noted in the chain.
LookupUnnoted(u, i) ==
    LET r == slow[TypeOf[i]]
    IN  /\ r \notin {NoRec, Placeholder} /\ fast[Cache(u)][i] = NoRec
        /\ fast' = [fast EXCEPT ![Cache(u)][i] = r]
        /\ UNCHANGED <<ft, slow, types, pending, filling, counted, aborted>>

(* nb_type_c2p() on a miss of the fast map.                                     *)
Lookup(u, i) ==
    LET r == slow[TypeOf[i]]
    IN  /\ r \notin {NoRec, Placeholder} /\ fast[Cache(u)][i] = NoRec
        /\ fast' = [fast EXCEPT ![Cache(u)][i] = r]
        /\ types' = IF ft THEN types ELSE [types EXCEPT ![r].chain = <<i>> \o @]
        /\ UNCHANGED <<ft, slow, pending, filling, counted, aborted>>

(* implicitly_convertible(), after nb_type_c2p(): the type owns grown arrays.    *)
AddConversion(u, i) ==
    LET r == fast[Cache(u)][i]
    IN  /\ r # NoRec
        /\ types' = [types EXCEPT ![r].arrays = TRUE]
        /\ UNCHANGED <<ft, slow, fast, pending, filling, counted, aborted>>

(* A Python class statement makes a type object with an empty record; the       *)
(* record is filled by tp_init or by the first use (nb_type_ensure()), which    *)
(* takes the bases first.                                                       *)
Derive(r, base) ==
    /\ types[r].mem = "free" /\ types[base].mem \in {"blank", "live"}
    /\ types' = [types EXCEPT ![r] = [Free EXCEPT !.mem = "blank", !.base = base, !.py = TRUE]]
    /\ UNCHANGED <<ft, slow, fast, pending, filling, counted, aborted>>

(* nb_type_init_py(): assemble a copy of the base's record without what the     *)
(* base owns (its pool, chain, conversions), then publish it as a whole unless  *)
(* another thread did.                                                          *)
Assemble(u, r) ==
    /\ filling[u] = NoRec /\ types[r].mem = "blank"
    /\ types[types[r].base].mem = "live" /\ types[types[r].base].feature # "final"
    /\ filling' = [filling EXCEPT ![u] = r]
    /\ UNCHANGED <<ft, slow, fast, types, pending, counted, aborted>>
\* Mutant: the subclass shares the arrays of its base, which both will free.
InheritArrays(b, r) == [Free EXCEPT !.mem = "live", !.info = b.info, !.base = types[r].base,
                              !.py = TRUE, !.intrusive = b.intrusive, !.arrays = b.arrays]

Inherit(b, r) == [Free EXCEPT !.mem = "live", !.info = b.info, !.base = types[r].base,
                              !.py = TRUE, !.intrusive = b.intrusive]

\* Mutant: the record is published without looking whether it was by now.
FillAgain(u) ==
    LET r == filling[u]
    IN  /\ r # NoRec /\ filling' = [filling EXCEPT ![u] = NoRec]
        /\ types' = [types EXCEPT ![r] = Inherit(types[@.base], r)]
        /\ counted' = counted + 1
        /\ UNCHANGED <<ft, slow, fast, pending, aborted>>
Fill(u) ==
    LET r == filling[u]
    IN  /\ r # NoRec /\ filling' = [filling EXCEPT ![u] = NoRec]
        /\ IF types[r].mem = "blank"
             THEN /\ types' = [types EXCEPT ![r] = Inherit(types[@.base], r)]
                  /\ counted' = counted + 1
             ELSE UNCHANGED <<types, counted>>
        /\ UNCHANGED <<ft, slow, fast, pending, aborted>>

(* nb_type_unregister(): every address in the chain must be in the fast map.    *)
Erased(r) == {types[r].info} \cup Range(types[r].chain)
ChainFits(r) == /\ \A i \in Erased(r) : fast[MainUser][i] # NoRec
                /\ IsInjective(<<types[r].info>> \o types[r].chain)
Unregister(r) ==
    /\ slow' = [slow EXCEPT ![TypeOf[types[r].info]] = NoRec]
    /\ fast' = [fast EXCEPT ![MainUser] = [i \in Info |-> IF i \in Erased(r) THEN NoRec ELSE @[i]]]
    /\ aborted' = ~(slow[TypeOf[types[r].info]] # NoRec /\ ChainFits(r))

\* Mutant: a subclass takes the type of its base out of the registry.
DeallocSubclass(r) ==
    /\ types[r].mem \in {"blank", "live"} /\ ~(ft /\ ~types[r].py)
    /\ \A d \in Rec : types[d].base # r
    /\ pending.base # r /\ r \notin Range(filling)
    /\ types' = [types EXCEPT ![r] = Free]
    /\ IF types[r].mem = "live" THEN Unregister(r)
                                ELSE UNCHANGED <<slow, fast, aborted>>
    /\ counted' = IF types[r].mem = "live" THEN counted - 1 ELSE counted
    /\ UNCHANGED <<ft, pending, filling>>

(* nb_type_dealloc(), once nothing refers to the type; the types of a           *)
(* free-threaded build are immortal, but not their Python subclasses.           *)
Dealloc(r) ==
    /\ types[r].mem \in {"blank", "live"} /\ ~(ft /\ ~types[r].py)
    /\ \A d \in Rec : types[d].base # r
    /\ pending.base # r /\ r \notin Range(filling)
    /\ types' = [types EXCEPT ![r] = Free]
    /\ IF types[r].mem = "live" /\ ~types[r].py THEN Unregister(r)
                                                ELSE UNCHANGED <<slow, fast, aborted>>
    /\ counted' = IF types[r].mem = "live" THEN counted - 1 ELSE counted
    /\ UNCHANGED <<ft, pending, filling>>

Next == /\ ~aborted /\ ~PoolingRefused
        /\ \/ \E i \in Info, b \in Registered \cup {NoRec}, f \in Features : Reserve(i, b, f)
           \/ \E u \in User : \/ \E i \in Info : Lookup(u, i) \/ AddConversion(u, i)
                             \/ \E r \in Rec : Assemble(u, r)
                             \/ Fill(u)
           \/ \E r \in Rec : \/ Publish(r) \/ Dealloc(r)
                             \/ \E b \in Rec : Derive(r, b)
Spec == Init /\ [][Next]_registryVars

-----------------------------------------------------------------------------

TypeOK == /\ slow \in [Type -> Rec \cup {NoRec, Placeholder}]
          /\ fast \in [User -> [Info -> Rec \cup {NoRec}]]
          /\ counted \in 0 .. Cardinality(Rec)
          /\ \A r \in Rec : DOMAIN types[r] = DOMAIN Free

(* The fast maps never lie: an entry is the record that the registry holds for  *)
(* the type, whichever address it was looked up by, and goes when the type      *)
(* goes, so that a value of a type that was deleted is not wrapped by whatever  *)
(* took the memory of its type object.                                          *)
FastRight == \A u \in User, i \in Info : fast[u][i] # NoRec =>
    /\ slow[TypeOf[i]] = fast[u][i]
    /\ types[fast[u][i]].mem = "live" /\ ~types[fast[u][i]].py

(* The check of nb_type_unregister() never fails: the chain of a type lists     *)
(* every alias that was cached, once, and no subclass is ever unregistered.     *)
UnregisterComplete == ~aborted

(* What derived types get of their bases: the intrusive hook is inherited over  *)
(* any number of bases, C++ or Python; pools and conversion arrays, which their *)
(* owner frees, are not, and no pooled type has the hook.                       *)
Inherited == \A r \in Registered :
    /\ (types[r].base # NoRec /\ types[r].feature # "intrusive") =>
          types[r].intrusive = types[types[r].base].intrusive
    /\ types[r].pooled => types[r].intrusive = NoRec
    /\ types[r].py => ~types[r].pooled /\ ~types[r].arrays

(* Each record that was filled holds one reference to the internals, those that *)
(* never were hold none.                                                        *)
TypesCounted == counted = Cardinality(Registered)
=============================================================================
