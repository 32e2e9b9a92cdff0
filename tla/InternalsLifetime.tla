------------------------- MODULE InternalsLifetime -------------------------
(* The life of nb_internals, the record that the extension modules of a       *)
(* domain share (nb_internals.cpp): it is created by the first import, joined *)
(* by later ones, torn down when the last module, type and function that      *)
(* counts on it is gone, rebuilt when it is joined again, and deleted at exit.*)
(*                                                                            *)
(* Initialisation runs Python code, so imports interleave in every build.  In *)
(* builds without a GIL (Overlap) so do publication, adoption and teardown.   *)
EXTENDS Naturals, FiniteSets

CONSTANTS Rec,      \* memory for records
          Module,   \* extension modules of the domain
          Importer, \* threads
          NoRec,
          Overlap   \* may threads interleave inside publication, joins and teardown?

VARIABLES domain,   \* the record published in the interpreter's dictionary
          rec,      \* refs: shared_ref_count; lifeline, types: are they set?
          state,    \* the record stored in each module's state
          bound,    \* per module, the record its types and functions count on
          imp,      \* what each thread is doing
          exited

lifetimeVars == <<domain, rec, state, bound, imp, exited>>

Idle == [pc |-> "idle", mod |-> NoRec, r |-> NoRec]
Step(t, pc, m, r) == imp' = [imp EXCEPT ![t] = [pc |-> pc, mod |-> m, r |-> r]]
Done(t) == imp' = [imp EXCEPT ![t] = Idle]

Init == /\ domain = NoRec
        /\ rec = [r \in Rec |-> [mem |-> "free", refs |-> 0, lifeline |-> FALSE, types |-> FALSE]]
        /\ state = [m \in Module |-> NoRec]
        /\ bound = [m \in Module |-> NoRec]
        /\ imp = [t \in Importer |-> Idle]
        /\ exited = FALSE

(* Steps between which no Python code runs: a GIL keeps other threads out.     *)
Unbroken == {"count", "build", "joined", "teardown"}
Runs(t) == Overlap \/ \A u \in Importer \ {t} : imp[u].pc \notin Unbroken
At(t, pc) == imp[t].pc = pc /\ Runs(t)
Between(t, m) == /\ At(t, "idle") /\ ~exited
                 /\ \A u \in Importer : imp[u].mod # m

(* init_internals() and init_pyobjects().                                     *)
InitTypes(c) == [c EXCEPT !.lifeline = TRUE, !.types = TRUE]

\* Mutant: a module that is executed again is counted again.
CountAgain(t, m, r) ==
    /\ rec' = [rec EXCEPT ![r].refs = @ + 1]
    /\ state' = [state EXCEPT ![m] = r]
    /\ Step(t, "exec", m, r)

(* internals_inc_ref(), once per module even if it is executed again.         *)
Count(t, m, r) ==
    /\ rec' = [rec EXCEPT ![r].refs = IF state[m] = r THEN @ ELSE @ + 1]
    /\ state' = [state EXCEPT ![m] = r]
    /\ Step(t, "exec", m, r)

(* A module that is not loaded, or one that is loaded again (reload), finds   *)
(* the record of its domain, or makes one.                                    *)
Begin(t, m) ==
    /\ Between(t, m)
    /\ IF domain # NoRec
         THEN Step(t, "join", m, domain) /\ UNCHANGED rec
         ELSE \E r \in Rec :
                 /\ rec[r].mem = "free"
                 /\ rec' = [rec EXCEPT ![r] =
                       InitTypes([@ EXCEPT !.mem = "live", !.refs = 0])]
                 /\ Step(t, "publish", m, r)
    /\ UNCHANGED <<domain, state, bound, exited>>

\* Mutant: the record is stored whether or not there is one by now.
PublishLast(t) ==
    /\ At(t, "publish")
    /\ Step(t, "count", imp[t].mod, imp[t].r) /\ domain' = imp[t].r
    /\ UNCHANGED <<rec, state, bound, exited>>

(* PyDict_SetDefaultRef: the first one wins, and counts itself afterwards.    *)
Publish(t) ==
    /\ At(t, "publish")
    /\ IF domain # NoRec
         THEN Step(t, "discard", imp[t].mod, imp[t].r) /\ UNCHANGED domain
         ELSE Step(t, "count", imp[t].mod, imp[t].r) /\ domain' = imp[t].r
    /\ UNCHANGED <<rec, state, bound, exited>>
CountPublished(t) ==
    /\ At(t, "count") /\ Count(t, imp[t].mod, imp[t].r)
    /\ UNCHANGED <<domain, bound, exited>>

(* internals_discard(): the record was never visible to anybody else.         *)
DiscardedRec == [mem |-> "free", refs |-> 0, lifeline |-> FALSE, types |-> FALSE]
Discard(t) ==
    /\ At(t, "discard")
    /\ rec' = [rec EXCEPT ![imp[t].r] = DiscardedRec]
    /\ Step(t, "join", imp[t].mod, domain)
    /\ UNCHANGED <<domain, state, bound, exited>>

(* The capsule or the dictionary entry cannot be made: the import fails.      *)
PublishFails(t) ==
    /\ At(t, "publish")
    /\ rec' = [rec EXCEPT ![imp[t].r] = DiscardedRec]
    /\ Done(t)
    /\ UNCHANGED <<domain, state, bound, exited>>

\* Mutant: a record that is joined is taken to be complete.
JoinBlindly(t) ==
    /\ At(t, "join")
    /\ Step(t, "joined", imp[t].mod, imp[t].r)
    /\ UNCHANGED <<domain, rec, state, bound, exited>>

(* internals_join(): rebuild what a teardown removed, then count.             *)
Join(t) ==
    /\ At(t, "join")
    /\ rec' = [rec EXCEPT ![imp[t].r].lifeline = TRUE]
    /\ Step(t, IF rec[imp[t].r].lifeline THEN "joined" ELSE "build", imp[t].mod, imp[t].r)
    /\ UNCHANGED <<domain, state, bound, exited>>
Build(t) ==
    /\ At(t, "build")
    /\ rec' = [rec EXCEPT ![imp[t].r] = InitTypes(@)]
    /\ Step(t, "joined", imp[t].mod, imp[t].r)
    /\ UNCHANGED <<domain, state, bound, exited>>
CountJoined(t) ==
    /\ At(t, "joined") /\ Count(t, imp[t].mod, imp[t].r)
    /\ UNCHANGED <<domain, bound, exited>>

(* The body of NB_MODULE binds a type or a function, which counts as well,    *)
(* unless it fails before; either way the thread is done with the module.     *)
Exec(t) ==
    LET m == imp[t].mod
        r == imp[t].r
    IN  /\ At(t, "exec")
        /\ \/ /\ bound[m] = NoRec
              /\ bound' = [bound EXCEPT ![m] = r]
              /\ rec' = [rec EXCEPT ![r].refs = @ + 1]
           \/ UNCHANGED <<bound, rec>>
        /\ Done(t)
        /\ UNCHANGED <<domain, state, exited>>

(* internals_dec_ref(): at zero, the lifeline goes and the types with it.     *)
DecRef(t, r) ==
    IF rec[r].refs # 1 THEN rec' = [rec EXCEPT ![r].refs = @ - 1] /\ UNCHANGED imp
    ELSE /\ rec' = [rec EXCEPT ![r].refs = 0, ![r].lifeline = FALSE]
         /\ Step(t, "teardown", NoRec, r)

\* Mutant: the teardown counts down once more.
ResetRefs(t) ==
    /\ At(t, "teardown")
    /\ rec' = [rec EXCEPT ![imp[t].r].refs = @ - 1]
    /\ Done(t)
    /\ UNCHANGED <<domain, state, bound, exited>>

(* The pointers are reset once everything has been released.                  *)
Reset(t) ==
    /\ At(t, "teardown")
    /\ rec' = [rec EXCEPT ![imp[t].r].types = FALSE]
    /\ Done(t)
    /\ UNCHANGED <<domain, state, bound, exited>>

(* nb_module_free() or nb_anchor_free().                                      *)
Unload(t, m) ==
    /\ Between(t, m) /\ state[m] # NoRec
    /\ state' = [state EXCEPT ![m] = NoRec]
    /\ DecRef(t, state[m])
    /\ UNCHANGED <<domain, bound, exited>>

(* The last type or function of a module goes, maybe long after the module.   *)
Release(t, m) ==
    /\ Between(t, m) /\ bound[m] # NoRec
    /\ bound' = [bound EXCEPT ![m] = NoRec]
    /\ DecRef(t, bound[m])
    /\ UNCHANGED <<domain, state, exited>>

(* internals_cleanup() at exit: a record that types or functions still use    *)
(* is reported as leaked and kept.                                            *)
Leaked(r) == \E m \in Module : bound[m] = r
Exit ==
    /\ ~exited /\ \A t \in Importer : imp[t].pc = "idle"
    /\ exited' = TRUE
    /\ rec' = [r \in Rec |-> IF r = domain /\ ~Leaked(r)
                             THEN [rec[r] EXCEPT !.mem = "deleted"] ELSE rec[r]]
    /\ UNCHANGED <<domain, state, bound, imp>>

Next == \/ \E t \in Importer : \/ Publish(t) \/ CountPublished(t) \/ Discard(t) \/ PublishFails(t)
                               \/ Join(t) \/ Build(t) \/ CountJoined(t) \/ Exec(t) \/ Reset(t)
        \/ \E t \in Importer, m \in Module : Begin(t, m) \/ Unload(t, m) \/ Release(t, m)
        \/ Exit
Spec == Init /\ [][Next]_lifetimeVars

----------------------------------------------------------------------------

TypeOK ==
    /\ domain \in Rec \cup {NoRec}
    /\ rec \in [Rec -> [mem : {"free", "live", "deleted"}, refs : 0 .. 2 * Cardinality(Module),
                        lifeline : BOOLEAN, types : BOOLEAN]]
    /\ state \in [Module -> Rec \cup {NoRec}] /\ bound \in [Module -> Rec \cup {NoRec}]
    /\ exited \in BOOLEAN

Users(r) == {m \in Module : state[m] = r} \cup {m \in Module : bound[m] = r}
Quiet == \A t \in Importer : imp[t].pc \in {"idle", "exec"}

(* Whoever counts on a record can use it: while a module is loaded, or a type *)
(* or function of it alive, the internal types and the lifeline are there.    *)
(* This is what the reference count is for: a teardown must neither hit a     *)
(* record in use nor leave one that is joined again half built.               *)
Ready == ~exited => \A m \in Module : \A r \in {state[m], bound[m]} \ {NoRec} :
            rec[r].mem = "live" /\ rec[r].lifeline /\ rec[r].types

(* When no import is under way, a record without users has been torn down     *)
(* (no reference is counted twice by a reload, none is lost by a failed       *)
(* import), and no memory other than the published record is taken.           *)
NoLeak == (Quiet /\ ~exited) =>
            \A r \in Rec : /\ rec[r].lifeline => Users(r) # {}
                           /\ (rec[r].mem = "live") => r = domain

(* All modules of the domain share one record: else they would not recognise  *)
(* each other's types (imports that race to create it).                       *)
OneRecord == \A m \in Module : state[m] \in {NoRec, domain} /\ bound[m] \in {NoRec, domain}
============================================================================
