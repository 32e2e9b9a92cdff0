----------------------------- MODULE TableProofs -----------------------------
(* Proofs about what the modules and threads of a process share.  The record of a *)
(* domain is complete for whoever counts on it, whichever way imports interleave  *)
(* and fail; the caches of strings and imports answer with living, right objects; *)
(* the fast maps of the registry of types have what the registry has; errors and  *)
(* the walk of the translators lose nothing; overloads are chosen by the rules;   *)
(* calls of virtual functions reach the override that Python would choose.        *)
EXTENDS Integers, Sequences, FiniteSets, FiniteSetTheorems, SequenceTheorems, TLAPS

CONSTANTS Rec, Module, Importer, NoRec, Overlap     \* those of InternalsLifetime
VARIABLES domain, rec, state, bound, imp, exited

I == INSTANCE InternalsLifetime

CONSTANTS Caller, Addr, Text, Value, Home, Empty    \* those of PythonCaches
VARIABLES chars, slots, import, attr, refs, lifeline, torn, call

K == INSTANCE PythonCaches

CONSTANTS Type, Info, TypeOf, Mem, User, MainUser, Features, NoMem  \* of TypeRegistry
VARIABLES ft, slow, fast, types, pending, filling, counted, aborted

G == INSTANCE TypeRegistry WITH Rec <- Mem, NoRec <- NoMem

CONSTANTS Thread, Carrier, Exc, Absent              \* those of PythonError
VARIABLES indicator, payload, buffers, excs, cause, what, alive

X == INSTANCE PythonError WITH Error <- Carrier, Value <- Exc, None <- Absent, refs <- excs

CONSTANTS Node, Walker, End                         \* those of Translators
VARIABLES head, next, adding, walk, order

W == INSTANCE Translators WITH Thread <- Walker, Concurrent <- FALSE, None <- End

CONSTANTS Shape, PosArgs, KwArgs, MaxSimple, MaxOverloads   \* those of FuncDispatch
VARIABLES overloads, complexity, arrived, temps, inst

Y == INSTANCE FuncDispatch WITH chain <- overloads, call <- arrived

CONSTANTS Self, Method, Overrides, Pure, MaxDepth           \* those of TrampolineTicket
VARIABLES stack, current, attached, exc, running

V == INSTANCE TrampolineTicket WITH Obj <- Self, Key <- Method

-----------------------------------------------------------------------------
(* The record of a domain.                                                       *)

\* A GIL keeps other threads out of publication, joins and teardown.
IntLegal == IsFiniteSet(Module) /\ NoRec \notin Rec \cup Module /\ ~Overlap

Pcs == {"idle", "publish", "count", "discard", "join", "build", "joined", "exec", "teardown"}
RecordType == [mem : {"free", "live", "deleted"}, refs : Nat, lifeline : BOOLEAN, types : BOOLEAN]
ImportType == [pc : Pcs, mod : Module \cup {NoRec}, r : Rec \cup {NoRec}]
IntTypes ==
    /\ domain \in Rec \cup {NoRec} /\ rec \in [Rec -> RecordType]
    /\ state \in [Module -> Rec \cup {NoRec}] /\ bound \in [Module -> Rec \cup {NoRec}]
    /\ imp \in [Importer -> ImportType] /\ exited \in BOOLEAN

\* A record counts the modules that have it in their state, and those with types or
\* functions that count on it.
UsersIn(g, r) == {m \in Module : g[m] = r}
Counted == \A r \in Rec :
    rec[r].refs = Cardinality(UsersIn(state, r)) + Cardinality(UsersIn(bound, r))

\* A thread has a record of its own, or is at work on the one of the domain.
Private(t) == imp[t].pc \in {"publish", "discard"}
Common(t) == imp[t].pc \in {"count", "join", "build", "joined", "exec", "teardown"}
PrivateSound(t) ==
    /\ imp[t].mod \in Module /\ imp[t].r \in Rec /\ imp[t].r # domain
    /\ rec[imp[t].r].mem = "live" /\ rec[imp[t].r].lifeline /\ rec[imp[t].r].types
    /\ imp[t].pc = "discard" => domain # NoRec
CommonSound(t) ==
    /\ domain # NoRec /\ imp[t].r = domain
    /\ imp[t].pc # "teardown" => imp[t].mod \in Module
    /\ imp[t].pc = "exec" => state[imp[t].mod] = domain
    /\ imp[t].pc \in {"count", "joined"} => rec[domain].lifeline /\ rec[domain].types
    /\ imp[t].pc = "build" =>
          rec[domain].lifeline /\ ~rec[domain].types /\ rec[domain].refs = 0
    /\ imp[t].pc = "teardown" =>
          ~rec[domain].lifeline /\ rec[domain].types /\ rec[domain].refs = 0
ThreadSound(t) == (Private(t) => PrivateSound(t)) /\ (Common(t) => CommonSound(t))

Distinct == \A t, u \in Importer : Private(t) /\ Private(u) /\ imp[t].r = imp[u].r => t = u
OneUnbroken ==
    \A t, u \in Importer : imp[t].pc \in I!Unbroken /\ imp[u].pc \in I!Unbroken => t = u
\* Between those steps, the record is built exactly when somebody counts on it.
Settled ==
    (\A t \in Importer : imp[t].pc \notin I!Unbroken) /\ domain # NoRec =>
        /\ rec[domain].lifeline <=> rec[domain].refs > 0
        /\ rec[domain].types <=> rec[domain].lifeline
\* All other memory is free, or the record of a thread that may still discard it.
Spare == \A r \in Rec : r # domain =>
    \/ rec[r].mem = "free" /\ ~rec[r].lifeline
    \/ rec[r].mem = "live" /\ \E t \in Importer : Private(t) /\ imp[t].r = r
DomainLive == domain # NoRec => rec[domain].mem = "live"

Running == /\ \A t \in Importer : ThreadSound(t)
           /\ Distinct /\ OneUnbroken /\ Settled /\ Spare /\ DomainLive
IntInv == /\ IntTypes /\ I!OneRecord /\ Counted
          /\ exited => \A t \in Importer : imp[t].pc = "idle"
          /\ ~exited => Running

LEMMA UsersFinite ==
    ASSUME IntLegal, NEW g, NEW r
    PROVE  IsFiniteSet(UsersIn(g, r)) /\ Cardinality(UsersIn(g, r)) \in Nat
           /\ Cardinality(UsersIn(g, r)) <= Cardinality(Module)
<1>1. UsersIn(g, r) \subseteq Module  BY DEF UsersIn
<1> QED  BY <1>1, FS_Subset, FS_CardinalityType DEF IntLegal

LEMMA UsersNone ==
    ASSUME IntLegal, NEW g, NEW r
    PROVE  (Cardinality(UsersIn(g, r)) = 0) <=> (\A m \in Module : g[m] # r)
<1>1. UsersIn(g, r) = {} <=> \A m \in Module : g[m] # r  BY DEF UsersIn
<1> QED  BY <1>1, UsersFinite, FS_EmptySet

LEMMA IntInit == ASSUME IntLegal, I!Init PROVE IntInv
<1>1. /\ domain = NoRec /\ state = [m \in Module |-> NoRec] /\ bound = [m \in Module |-> NoRec]
      /\ rec = [r \in Rec |-> [mem |-> "free", refs |-> 0, lifeline |-> FALSE, types |-> FALSE]]
      /\ imp = [t \in Importer |-> [pc |-> "idle", mod |-> NoRec, r |-> NoRec]]
      /\ exited = FALSE
  BY DEF I!Init, I!Idle
<1>2. IntTypes  BY <1>1 DEF IntTypes, RecordType, ImportType, Pcs
<1>3. I!OneRecord  BY <1>1 DEF I!OneRecord
<1>4. Counted
  <2> SUFFICES ASSUME NEW r \in Rec
               PROVE  rec[r].refs = Cardinality(UsersIn(state, r)) + Cardinality(UsersIn(bound, r))
    BY DEF Counted
  <2>1. UsersIn(state, r) = {} /\ UsersIn(bound, r) = {}  BY <1>1 DEF UsersIn, IntLegal
  <2>2. Cardinality(UsersIn(state, r)) = 0 /\ Cardinality(UsersIn(bound, r)) = 0
    BY <2>1, FS_EmptySet
  <2>3. rec[r].refs = 0  BY <1>1
  <2> QED  BY <2>2, <2>3
<1>5. Running
  BY <1>1 DEF Running, ThreadSound, Private, Common, Distinct, OneUnbroken, I!Unbroken,
              Settled, Spare, DomainLive
<1> QED  BY <1>1, <1>2, <1>3, <1>4, <1>5 DEF IntInv

LEMMA IntParts ==
    ASSUME IntInv, ~exited
    PROVE  /\ IntTypes /\ I!OneRecord /\ Counted /\ Running
           /\ \A t \in Importer : ThreadSound(t)
           /\ Distinct /\ OneUnbroken /\ Settled /\ Spare /\ DomainLive
BY DEF IntInv, Running

\* A thread that is not idle: the process runs, and nobody else is within a section
\* that a GIL protects.
LEMMA Working ==
    ASSUME IntLegal, IntInv, NEW t \in Importer, NEW pc, I!At(t, pc), pc # "idle" \/ ~exited
    PROVE  ~exited /\ imp[t].pc = pc /\ \A u \in Importer : u # t => imp[u].pc \notin I!Unbroken
BY DEF I!At, I!Runs, IntInv, IntLegal

LEMMA Moved ==
    ASSUME IntTypes, NEW t \in Importer, NEW pc \in Pcs, NEW m \in Module \cup {NoRec},
           NEW r \in Rec \cup {NoRec}, I!Step(t, pc, m, r)
    PROVE  /\ imp' \in [Importer -> ImportType]
           /\ imp'[t].pc = pc /\ imp'[t].mod = m /\ imp'[t].r = r
           /\ \A u \in Importer : u # t => imp'[u] = imp[u]
BY DEF IntTypes, ImportType, I!Step

LEMMA Rested ==
    ASSUME IntTypes, NEW t \in Importer, I!Done(t)
    PROVE  /\ imp' \in [Importer -> ImportType] /\ imp'[t].pc = "idle"
           /\ \A u \in Importer : u # t => imp'[u] = imp[u]
BY DEF IntTypes, ImportType, Pcs, I!Done, I!Idle

LEMMA CountedSame ==
    ASSUME Counted, state' = state, bound' = bound, \A r \in Rec : rec'[r].refs = rec[r].refs
    PROVE  Counted'
BY DEF Counted, UsersIn

LEMMA PublishInv == ASSUME IntLegal, IntInv, NEW t \in Importer, I!Publish(t) PROVE IntInv'
<1>1. /\ I!At(t, "publish") /\ rec' = rec /\ state' = state /\ bound' = bound /\ exited' = exited
      /\ domain # NoRec => I!Step(t, "discard", imp[t].mod, imp[t].r) /\ domain' = domain
      /\ domain = NoRec => I!Step(t, "count", imp[t].mod, imp[t].r) /\ domain' = imp[t].r
  BY DEF I!Publish
<1>2. ~exited /\ imp[t].pc = "publish" /\ \A u \in Importer : u # t => imp[u].pc \notin I!Unbroken
  BY <1>1, Working
<1>3. /\ IntTypes /\ I!OneRecord /\ Counted
      /\ \A u \in Importer : ThreadSound(u)
      /\ Distinct /\ OneUnbroken /\ Settled /\ Spare /\ DomainLive
  BY <1>2, IntParts
<1>4. Private(t) /\ PrivateSound(t)  BY <1>2, <1>3 DEF Private, ThreadSound
<1>5. imp[t].mod \in Module /\ imp[t].r \in Rec /\ imp[t].r # domain  BY <1>4 DEF PrivateSound
<1>6. /\ imp' \in [Importer -> ImportType]
      /\ imp'[t].pc = IF domain = NoRec THEN "count" ELSE "discard"
      /\ imp'[t].mod = imp[t].mod /\ imp'[t].r = imp[t].r
      /\ \A u \in Importer : u # t => imp'[u] = imp[u]
  BY <1>1, <1>3, <1>5, Moved DEF Pcs
<1>7. IntTypes'  BY <1>1, <1>3, <1>5, <1>6 DEF IntTypes
<1>8. I!OneRecord'  BY <1>1, <1>3 DEF I!OneRecord
<1>9. Counted'  BY <1>1, <1>3, CountedSame
<1>10. CASE domain = NoRec
  <2>1. domain' = imp[t].r /\ imp'[t].pc = "count"  BY <1>1, <1>6, <1>10
  <2>2. \A u \in Importer : ~Common(u)  BY <1>3, <1>10 DEF ThreadSound, CommonSound
  <2>3. \A u \in Importer : u # t /\ Private(u) => imp[u].r # imp[t].r
    BY <1>3, <1>4 DEF Distinct
  <2>4. ~Private(t)' /\ Common(t)' /\ CommonSound(t)'
    BY <1>1, <1>4, <1>5, <1>6, <2>1 DEF Private, Common, CommonSound, PrivateSound, IntLegal
  <2>5. ASSUME NEW u \in Importer, u # t
        PROVE  (Private(u)' <=> Private(u)) /\ ~Common(u)' /\ (Private(u) => PrivateSound(u)')
    <3>1. (Private(u)' <=> Private(u)) /\ ~Common(u)'  BY <1>6, <2>2, <2>5 DEF Private, Common
    <3>2. ASSUME Private(u) PROVE PrivateSound(u)'
      <4>1. PrivateSound(u) /\ imp[u].r # imp[t].r /\ imp'[u] = imp[u]
        BY <1>3, <1>6, <2>3, <2>5, <3>2 DEF ThreadSound
      <4> QED  BY <4>1, <1>1, <2>1, <1>5 DEF PrivateSound, IntLegal
    <3> QED  BY <3>1, <3>2
  <2>6. \A u \in Importer : ThreadSound(u)'  BY <2>4, <2>5 DEF ThreadSound
  <2>7. Distinct'  BY <1>3, <1>6, <2>4, <2>5 DEF Distinct
  <2>8. OneUnbroken'  BY <1>2, <1>6 DEF OneUnbroken
  <2>9. Settled'  BY <2>1 DEF Settled, I!Unbroken
  <2>10. Spare'  BY <1>1, <1>3, <1>6, <1>10, <2>1, <2>5, <1>5 DEF Spare, IntLegal
  <2>11. DomainLive'  BY <1>1, <1>4, <2>1 DEF DomainLive, PrivateSound
  <2> QED  BY <1>1, <1>2, <1>7, <1>8, <1>9, <2>6, <2>7, <2>8, <2>9, <2>10, <2>11 DEF IntInv, Running
<1>11. CASE domain # NoRec
  <2>1. domain' = domain /\ imp'[t].pc = "discard"  BY <1>1, <1>6, <1>11
  <2>2. \A u \in Importer : (Private(u)' <=> Private(u)) /\ (Common(u)' <=> Common(u))
    BY <1>2, <1>6, <2>1 DEF Private, Common
  <2>3. \A u \in Importer : imp'[u].r = imp[u].r /\ imp'[u].mod = imp[u].mod  BY <1>6
  <2>4. \A u \in Importer : ThreadSound(u)'
    <3>1. ThreadSound(t)'
      BY <1>1, <1>4, <1>6, <1>11, <2>1, <2>2 DEF ThreadSound, PrivateSound, Private, Common
    <3>2. ASSUME NEW u \in Importer, u # t PROVE ThreadSound(u)'
      BY <3>2, <1>1, <1>3, <1>6, <2>1, <2>2 DEF ThreadSound, PrivateSound, CommonSound
    <3> QED  BY <3>1, <3>2
  <2>5. Distinct'  BY <1>3, <2>2, <2>3 DEF Distinct
  <2>6. OneUnbroken'  BY <1>3, <1>6, <2>1 DEF OneUnbroken, I!Unbroken
  <2>7. Settled'  BY <1>1, <1>2, <1>3, <1>6, <2>1 DEF Settled, I!Unbroken
  <2>8. Spare'  BY <1>1, <1>3, <2>1, <2>2, <2>3 DEF Spare
  <2>9. DomainLive'  BY <1>1, <1>3, <2>1 DEF DomainLive
  <2> QED  BY <1>1, <1>2, <1>7, <1>8, <1>9, <2>4, <2>5, <2>6, <2>7, <2>8, <2>9 DEF IntInv, Running
<1> QED  BY <1>10, <1>11

\* A step of a thread without a record of its own, on the record of the domain.
CommonStep(t) ==
    /\ ~exited /\ exited' = exited /\ domain # NoRec /\ domain' = domain
    /\ ~Private(t) /\ ~Private(t)' /\ (Common(t)' => CommonSound(t)')
    /\ \A u \in Importer : u # t => imp[u].pc \notin I!Unbroken /\ imp'[u] = imp[u]
                                    /\ (imp[u].pc = "exec" => state'[imp[u].mod] = domain)
    /\ \A r \in Rec : r # domain => rec'[r] = rec[r]
    /\ rec'[domain].mem = rec[domain].mem
    /\ imp'[t].pc \notin I!Unbroken => /\ rec'[domain].lifeline <=> rec'[domain].refs > 0
                                       /\ rec'[domain].types <=> rec'[domain].lifeline

LEMMA CommonInv ==
    ASSUME IntLegal, IntInv, IntTypes', I!OneRecord', Counted', NEW t \in Importer, CommonStep(t)
    PROVE  IntInv'
<1> USE DEF CommonStep
<1>1. /\ IntTypes /\ \A u \in Importer : ThreadSound(u)
      /\ Distinct /\ OneUnbroken /\ Settled /\ Spare /\ DomainLive
  BY IntParts
<1>2. \A u \in Importer : (Private(u)' <=> Private(u)) /\ (Private(u) => imp'[u].r = imp[u].r)
  BY DEF Private
<1>3. ASSUME NEW u \in Importer, u # t PROVE ThreadSound(u)'
  <2>1. imp'[u] = imp[u] /\ imp[u].pc \notin I!Unbroken /\ ThreadSound(u)  BY <1>1, <1>3
  <2>2. Common(u)' => CommonSound(u)'
    <3> SUFFICES ASSUME Common(u)' PROVE CommonSound(u)'
      OBVIOUS
    <3>1. Common(u) /\ imp[u].pc \in {"join", "exec"}  BY <2>1 DEF Common, I!Unbroken
    <3>2. CommonSound(u)  BY <2>1, <3>1 DEF ThreadSound
    <3> QED  BY <2>1, <3>1, <3>2, <1>3 DEF CommonSound
  <2>3. Private(u)' => PrivateSound(u)'
    <3> SUFFICES ASSUME Private(u)' PROVE PrivateSound(u)'
      OBVIOUS
    <3>1. Private(u) /\ PrivateSound(u)  BY <1>2, <2>1 DEF ThreadSound
    <3> QED  BY <2>1, <3>1 DEF PrivateSound
  <2> QED  BY <2>2, <2>3 DEF ThreadSound
<1>4. \A u \in Importer : ThreadSound(u)'  BY <1>3 DEF ThreadSound
<1>5. Distinct'  BY <1>1, <1>2 DEF Distinct
<1>6. OneUnbroken'  BY DEF OneUnbroken
<1>7. Settled'  BY DEF Settled
<1>8. Spare'  BY <1>1, <1>2 DEF Spare
<1>9. DomainLive'  BY <1>1 DEF DomainLive
<1> QED  BY <1>4, <1>5, <1>6, <1>7, <1>8, <1>9 DEF IntInv, Running

\* The record of the domain changes in the fields f.
LEMMA RecordChanged ==
    ASSUME IntTypes, NEW d \in Rec, NEW new \in RecordType, rec' = [rec EXCEPT ![d] = new]
    PROVE  /\ rec' \in [Rec -> RecordType] /\ rec'[d] = new
           /\ \A r \in Rec : r # d => rec'[r] = rec[r]
BY DEF IntTypes

LEMMA JoinInv == ASSUME IntLegal, IntInv, NEW t \in Importer, I!Join(t) PROVE IntInv'
<1> DEFINE d == imp[t].r
           new == [rec[d] EXCEPT !.lifeline = TRUE]
<1>1. /\ I!At(t, "join") /\ rec' = [rec EXCEPT ![d].lifeline = TRUE]
      /\ I!Step(t, IF rec[d].lifeline THEN "joined" ELSE "build", imp[t].mod, d)
      /\ state' = state /\ bound' = bound /\ exited' = exited /\ domain' = domain
  BY DEF I!Join
<1>2. ~exited /\ imp[t].pc = "join" /\ \A u \in Importer : u # t => imp[u].pc \notin I!Unbroken
  BY <1>1, Working
<1>3. IntTypes /\ I!OneRecord /\ Counted /\ ThreadSound(t) /\ Settled
      /\ \A u \in Importer : ThreadSound(u)
  BY <1>2, IntParts
<1>4. /\ ~Private(t) /\ CommonSound(t) /\ domain # NoRec /\ d = domain /\ imp[t].mod \in Module
      /\ d \in Rec /\ rec[d] \in RecordType
  BY <1>2, <1>3 DEF Private, Common, CommonSound, ThreadSound, IntTypes
<1>5. /\ rec[d].lifeline <=> rec[d].refs > 0
      /\ rec[d].types <=> rec[d].lifeline
  BY <1>2, <1>3, <1>4 DEF Settled, I!Unbroken
<1>6. new \in RecordType /\ new.lifeline = TRUE /\ new.types = rec[d].types
      /\ new.refs = rec[d].refs /\ new.mem = rec[d].mem
  BY <1>4 DEF RecordType
<1>7. rec' = [rec EXCEPT ![d] = new]  BY <1>1
<1> HIDE DEF new
<1>8. /\ rec' \in [Rec -> RecordType] /\ rec'[d] = new
      /\ \A r \in Rec : r # d => rec'[r] = rec[r]
  BY <1>3, <1>4, <1>6, <1>7, RecordChanged
<1>9. /\ imp' \in [Importer -> ImportType]
      /\ imp'[t].pc = (IF rec[d].lifeline THEN "joined" ELSE "build")
      /\ imp'[t].mod = imp[t].mod /\ imp'[t].r = d
      /\ \A u \in Importer : u # t => imp'[u] = imp[u]
  BY <1>1, <1>3, <1>4, Moved DEF Pcs
<1>10. IntTypes' /\ I!OneRecord'  BY <1>1, <1>3, <1>8, <1>9 DEF IntTypes, I!OneRecord
<1>11. Counted'
  <2>1. \A r \in Rec : rec'[r].refs = rec[r].refs  BY <1>6, <1>8
  <2> QED  BY <1>1, <1>3, <2>1, CountedSame
<1>12. ~Private(t)' /\ CommonSound(t)'
  <2>1. rec[d].refs \in Nat /\ rec[d].lifeline \in BOOLEAN  BY <1>4 DEF RecordType
  <2> QED  BY <1>1, <1>4, <1>5, <1>6, <1>8, <1>9, <2>1 DEF Private, CommonSound
<1>13. \A u \in Importer : u # t /\ imp[u].pc = "exec" => state'[imp[u].mod] = domain
  BY <1>1, <1>3 DEF ThreadSound, Common, CommonSound
<1>14. CommonStep(t)
  BY <1>1, <1>2, <1>4, <1>6, <1>8, <1>9, <1>12, <1>13 DEF CommonStep, I!Unbroken
<1> QED  BY <1>10, <1>11, <1>14, CommonInv

LEMMA BuildInv == ASSUME IntLegal, IntInv, NEW t \in Importer, I!Build(t) PROVE IntInv'
<1> DEFINE d == imp[t].r
           new == [rec[d] EXCEPT !.lifeline = TRUE, !.types = TRUE]
<1>1. /\ I!At(t, "build") /\ rec' = [rec EXCEPT ![d] = new]
      /\ I!Step(t, "joined", imp[t].mod, d)
      /\ state' = state /\ bound' = bound /\ exited' = exited /\ domain' = domain
  BY DEF I!Build, I!InitTypes
<1>2. ~exited /\ imp[t].pc = "build" /\ \A u \in Importer : u # t => imp[u].pc \notin I!Unbroken
  BY <1>1, Working
<1>3. IntTypes /\ I!OneRecord /\ Counted /\ \A u \in Importer : ThreadSound(u)
  BY <1>2, IntParts
<1>4. /\ ~Private(t) /\ CommonSound(t) /\ domain # NoRec /\ d = domain /\ imp[t].mod \in Module
      /\ d \in Rec /\ rec[d] \in RecordType
  BY <1>2, <1>3 DEF Private, Common, CommonSound, ThreadSound, IntTypes
<1>6. new \in RecordType /\ new.lifeline = TRUE /\ new.types = TRUE
      /\ new.refs = rec[d].refs /\ new.mem = rec[d].mem
  BY <1>4 DEF RecordType
<1>7. rec' = [rec EXCEPT ![d] = new]  BY <1>1
<1> HIDE DEF new
<1>8. /\ rec' \in [Rec -> RecordType] /\ rec'[d] = new
      /\ \A r \in Rec : r # d => rec'[r] = rec[r]
  BY <1>3, <1>4, <1>6, <1>7, RecordChanged
<1>9. /\ imp' \in [Importer -> ImportType] /\ imp'[t].pc = "joined"
      /\ imp'[t].mod = imp[t].mod /\ imp'[t].r = d
      /\ \A u \in Importer : u # t => imp'[u] = imp[u]
  BY <1>1, <1>3, <1>4, Moved DEF Pcs
<1>10. IntTypes' /\ I!OneRecord'  BY <1>1, <1>3, <1>8, <1>9 DEF IntTypes, I!OneRecord
<1>11. Counted'
  <2>1. \A r \in Rec : rec'[r].refs = rec[r].refs  BY <1>6, <1>8
  <2> QED  BY <1>1, <1>3, <2>1, CountedSame
<1>12. ~Private(t)' /\ CommonSound(t)'
  BY <1>1, <1>4, <1>6, <1>8, <1>9 DEF Private, CommonSound
<1>13. \A u \in Importer : u # t /\ imp[u].pc = "exec" => state'[imp[u].mod] = domain
  BY <1>1, <1>3 DEF ThreadSound, Common, CommonSound
<1>14. CommonStep(t)
  BY <1>1, <1>2, <1>4, <1>6, <1>8, <1>9, <1>12, <1>13 DEF CommonStep, I!Unbroken
<1> QED  BY <1>10, <1>11, <1>14, CommonInv

\* Counting: one of the two tables gains or loses a module, and the record a reference.
LEMMA CountedMore ==
    ASSUME IntLegal, IntTypes, Counted, NEW d \in Rec, NEW m \in Module, NEW g, NEW g2,
           NEW h, g[m] = NoRec, g2[m] = d, \A k \in Module : k # m => g2[k] = g[k],
           (g = state /\ h = bound /\ g2 = state' /\ bound' = bound)
             \/ (g = bound /\ h = state /\ g2 = bound' /\ state' = state),
           rec'[d].refs = rec[d].refs + 1, \A r \in Rec : r # d => rec'[r] = rec[r]
    PROVE  Counted'
<1> SUFFICES ASSUME NEW r \in Rec
             PROVE  rec'[r].refs = Cardinality(UsersIn(state', r)) + Cardinality(UsersIn(bound', r))
    BY DEF Counted
<1>1. rec[r].refs = Cardinality(UsersIn(g, r)) + Cardinality(UsersIn(h, r))
      /\ Cardinality(UsersIn(g, r)) \in Nat /\ Cardinality(UsersIn(h, r)) \in Nat
  <2>1. rec[r].refs = Cardinality(UsersIn(state, r)) + Cardinality(UsersIn(bound, r))
    BY DEF Counted
  <2>2. /\ Cardinality(UsersIn(state, r)) \in Nat /\ Cardinality(UsersIn(bound, r)) \in Nat
    BY UsersFinite
  <2>3. (g = state /\ h = bound) \/ (g = bound /\ h = state)  OBVIOUS
  <2> QED  BY <2>1, <2>2, <2>3
<1>2. Cardinality(UsersIn(g2, r)) = Cardinality(UsersIn(g, r)) + (IF r = d THEN 1 ELSE 0)
  <2>1. CASE r = d
    <3>1. g[m] # r /\ g2[m] = r  BY <2>1 DEF IntLegal
    <3>2. UsersIn(g2, r) = UsersIn(g, r) \cup {m} /\ m \notin UsersIn(g, r)
      BY <3>1 DEF UsersIn
    <3>3. Cardinality(UsersIn(g2, r)) = Cardinality(UsersIn(g, r)) + 1
      BY <3>2, UsersFinite, FS_AddElement
    <3> QED  BY <2>1, <3>3
  <2>2. CASE r # d
    <3>1. UsersIn(g2, r) = UsersIn(g, r)  BY <2>2 DEF UsersIn, IntLegal
    <3> QED  BY <2>2, <3>1, <1>1
  <2> QED  BY <2>1, <2>2
<1>3. rec'[r].refs = rec[r].refs + (IF r = d THEN 1 ELSE 0)
  <2>1. CASE r = d  BY <2>1
  <2>2. CASE r # d
    <3>1. rec[r].refs \in Nat  BY DEF IntTypes, RecordType
    <3> QED  BY <2>2, <3>1
  <2> QED  BY <2>1, <2>2
<1>4. rec'[r].refs = Cardinality(UsersIn(g2, r)) + Cardinality(UsersIn(h, r))
  BY <1>1, <1>2, <1>3
<1>5. (g2 = state' /\ h = bound') \/ (g2 = bound' /\ h = state')  OBVIOUS
<1>6. CASE g2 = state' /\ h = bound'  BY <1>4, <1>6
<1>7. CASE g2 = bound' /\ h = state'
  <2>1. Cardinality(UsersIn(g2, r)) \in Nat  BY UsersFinite
  <2>2. rec'[r].refs = Cardinality(UsersIn(h, r)) + Cardinality(UsersIn(g2, r))
    BY <1>1, <1>4, <2>1
  <2> QED  BY <2>2, <1>7
<1> QED  BY <1>5, <1>6, <1>7

LEMMA CountInv ==
    ASSUME IntLegal, IntInv, NEW t \in Importer, imp[t].pc \in {"count", "joined"},
           ~exited, \A u \in Importer : u # t => imp[u].pc \notin I!Unbroken,
           I!Count(t, imp[t].mod, imp[t].r), domain' = domain, bound' = bound, exited' = exited
    PROVE  IntInv'
<1> DEFINE d == imp[t].r
           m == imp[t].mod
           new == [rec[d] EXCEPT !.refs = IF state[m] = d THEN @ ELSE @ + 1]
<1>1. /\ rec' = [rec EXCEPT ![d].refs = IF state[m] = d THEN @ ELSE @ + 1]
      /\ state' = [state EXCEPT ![m] = d] /\ I!Step(t, "exec", m, d)
  BY DEF I!Count
<1>3. IntTypes /\ I!OneRecord /\ Counted /\ \A u \in Importer : ThreadSound(u)
  BY IntParts
<1>4. /\ ~Private(t) /\ CommonSound(t) /\ domain # NoRec /\ d = domain /\ m \in Module
      /\ d \in Rec /\ rec[d] \in RecordType
  BY <1>3 DEF Private, Common, CommonSound, ThreadSound, IntTypes
<1>5. rec[d].lifeline = TRUE /\ rec[d].types = TRUE /\ rec[d].refs \in Nat
  BY <1>4 DEF CommonSound, RecordType
<1>6. /\ new \in RecordType /\ new.lifeline = TRUE /\ new.types = TRUE
      /\ new.refs = (IF state[m] = d THEN rec[d].refs ELSE rec[d].refs + 1)
      /\ new.mem = rec[d].mem
  BY <1>4, <1>5 DEF RecordType
<1>7. rec' = [rec EXCEPT ![d] = new]  BY <1>1
<1> HIDE DEF new
<1>8. /\ rec' \in [Rec -> RecordType] /\ rec'[d] = new
      /\ \A r \in Rec : r # d => rec'[r] = rec[r]
  BY <1>3, <1>4, <1>6, <1>7, RecordChanged
<1> HIDE DEF d, m
<1>9. /\ imp' \in [Importer -> ImportType] /\ imp'[t].pc = "exec"
      /\ imp'[t].mod = m /\ imp'[t].r = d
      /\ \A u \in Importer : u # t => imp'[u] = imp[u]
  BY <1>1, <1>3, <1>4, Moved DEF Pcs
<1>10. /\ state' \in [Module -> Rec \cup {NoRec}] /\ state'[m] = d
       /\ \A k \in Module : k # m => state'[k] = state[k]
  BY <1>1, <1>3, <1>4 DEF IntTypes
<1>11. IntTypes' /\ I!OneRecord'
  BY <1>3, <1>4, <1>8, <1>9, <1>10 DEF IntTypes, I!OneRecord
<1>12. state[m] = d \/ state[m] = NoRec  BY <1>3, <1>4 DEF I!OneRecord
<1>13. Counted' /\ rec'[d].refs > 0
  <2>1. CASE state[m] = d
    <3>1. state' = state  BY <1>1, <1>3, <1>4, <2>1 DEF IntTypes
    <3>2. \A r \in Rec : rec'[r].refs = rec[r].refs  BY <1>6, <1>8, <2>1
    <3>3. Counted'  BY <1>3, <3>1, <3>2, CountedSame
    <3>4. Cardinality(UsersIn(state, d)) # 0  BY <2>1, <1>4, UsersNone
    <3>5. rec[d].refs = Cardinality(UsersIn(state, d)) + Cardinality(UsersIn(bound, d))
          /\ Cardinality(UsersIn(state, d)) \in Nat /\ Cardinality(UsersIn(bound, d)) \in Nat
      BY <1>3, <1>4, UsersFinite DEF Counted
    <3>6. rec[d].refs > 0  BY <3>4, <3>5
    <3> QED  BY <3>2, <3>3, <3>6, <1>4
  <2>2. CASE state[m] = NoRec
    <3>1. d # NoRec /\ rec'[d].refs = rec[d].refs + 1  BY <1>4, <1>6, <1>8, <2>2
    <3>2. \A r \in Rec : r # d => rec'[r] = rec[r]  BY <1>8
    <3>3. \A k \in Module : k # m => state'[k] = state[k]  BY <1>10
    <3>4. Counted'
      BY ONLY IntLegal, <1>3, <1>4, <2>2, <1>10, <3>1, <3>2, <3>3, bound' = bound, CountedMore
    <3> QED  BY <3>1, <3>4, <1>5
  <2> QED  BY <1>12, <2>1, <2>2
<1>14. ~Private(t)' /\ CommonSound(t)'
  BY <1>4, <1>9, <1>10 DEF Private, CommonSound
<1>15. \A u \in Importer : u # t /\ imp[u].pc = "exec" => state'[imp[u].mod] = domain
  <2> SUFFICES ASSUME NEW u \in Importer, u # t, imp[u].pc = "exec"
               PROVE  state'[imp[u].mod] = domain
    OBVIOUS
  <2>1. imp[u].mod \in Module /\ state[imp[u].mod] = domain
    BY <1>3 DEF ThreadSound, Common, CommonSound
  <2> QED  BY <2>1, <1>4, <1>10
<1>16. /\ rec'[d].lifeline <=> rec'[d].refs > 0
       /\ rec'[d].types <=> rec'[d].lifeline
  BY <1>6, <1>8, <1>13
<1>17. CommonStep(t)
  BY <1>4, <1>6, <1>8, <1>9, <1>14, <1>15, <1>16 DEF CommonStep
<1> QED  BY <1>11, <1>13, <1>17, CommonInv

LEMMA ExecInv == ASSUME IntLegal, IntInv, NEW t \in Importer, I!Exec(t) PROVE IntInv'
<1> DEFINE d == imp[t].r
           m == imp[t].mod
           new == [rec[d] EXCEPT !.refs = @ + 1]
<1>1. /\ I!At(t, "exec") /\ I!Done(t) /\ domain' = domain /\ state' = state /\ exited' = exited
      /\ \/ bound[m] = NoRec /\ bound' = [bound EXCEPT ![m] = d]
            /\ rec' = [rec EXCEPT ![d].refs = @ + 1]
         \/ bound' = bound /\ rec' = rec
  BY DEF I!Exec
<1>2. ~exited /\ imp[t].pc = "exec" /\ \A u \in Importer : u # t => imp[u].pc \notin I!Unbroken
  BY <1>1, Working
<1>3. IntTypes /\ I!OneRecord /\ Counted /\ Settled /\ \A u \in Importer : ThreadSound(u)
  BY <1>2, IntParts
<1>4. /\ ~Private(t) /\ CommonSound(t) /\ domain # NoRec /\ d = domain /\ m \in Module
      /\ d \in Rec /\ rec[d] \in RecordType /\ state[m] = d
  BY <1>2, <1>3 DEF Private, Common, CommonSound, ThreadSound, IntTypes
<1>5. /\ rec[d].lifeline <=> rec[d].refs > 0
      /\ rec[d].types <=> rec[d].lifeline
      /\ rec[d].refs \in Nat
  BY <1>2, <1>3, <1>4 DEF Settled, I!Unbroken, RecordType
<1>6. rec[d].refs > 0
  <2>1. Cardinality(UsersIn(state, d)) # 0  BY <1>4, UsersNone
  <2>2. rec[d].refs = Cardinality(UsersIn(state, d)) + Cardinality(UsersIn(bound, d))
        /\ Cardinality(UsersIn(state, d)) \in Nat /\ Cardinality(UsersIn(bound, d)) \in Nat
    BY <1>3, <1>4, UsersFinite DEF Counted
  <2> QED  BY <2>1, <2>2
<1>7. /\ imp' \in [Importer -> ImportType] /\ imp'[t].pc = "idle"
      /\ \A u \in Importer : u # t => imp'[u] = imp[u]
  BY <1>1, <1>3, Rested
<1>8. ~Private(t)' /\ ~Common(t)'  BY <1>7 DEF Private, Common
<1>9. \A u \in Importer : u # t /\ imp[u].pc = "exec" => state'[imp[u].mod] = domain
  BY <1>1, <1>3 DEF ThreadSound, Common, CommonSound
<1>10. CASE bound' = bound /\ rec' = rec
  <2>1. IntTypes' /\ I!OneRecord'  BY <1>1, <1>3, <1>7, <1>10 DEF IntTypes, I!OneRecord
  <2>2. Counted'  BY <1>1, <1>3, <1>10, CountedSame
  <2>3. CommonStep(t)
    BY <1>1, <1>2, <1>4, <1>5, <1>7, <1>8, <1>9, <1>10 DEF CommonStep
  <2> QED  BY <2>1, <2>2, <2>3, CommonInv
<1>11. CASE bound[m] = NoRec /\ bound' = [bound EXCEPT ![m] = d]
            /\ rec' = [rec EXCEPT ![d].refs = @ + 1]
  <2>1. new \in RecordType /\ new.lifeline = rec[d].lifeline /\ new.types = rec[d].types
        /\ new.refs = rec[d].refs + 1 /\ new.mem = rec[d].mem
    BY <1>4, <1>5 DEF RecordType
  <2>2. rec' = [rec EXCEPT ![d] = new]  BY <1>11
  <2> HIDE DEF new
  <2>3. /\ rec' \in [Rec -> RecordType] /\ rec'[d] = new
        /\ \A r \in Rec : r # d => rec'[r] = rec[r]
    BY <1>3, <1>4, <2>1, <2>2, RecordChanged
  <2> HIDE DEF d, m
  <2>4. /\ bound' \in [Module -> Rec \cup {NoRec}] /\ bound'[m] = d
        /\ \A k \in Module : k # m => bound'[k] = bound[k]
    BY <1>3, <1>4, <1>11 DEF IntTypes
  <2>5. IntTypes' /\ I!OneRecord'
    BY <1>1, <1>3, <1>4, <1>7, <2>3, <2>4 DEF IntTypes, I!OneRecord
  <2>6. Counted'
    <3>1. rec'[d].refs = rec[d].refs + 1 /\ \A r \in Rec : r # d => rec'[r] = rec[r]
      BY <2>1, <2>3
    <3>2. bound[m] = NoRec /\ state' = state  BY <1>1, <1>11
    <3> QED  BY ONLY IntLegal, <1>3, <1>4, <2>4, <3>1, <3>2, CountedMore
  <2>7. /\ rec'[d].lifeline <=> rec'[d].refs > 0
        /\ rec'[d].types <=> rec'[d].lifeline
        /\ rec'[d].mem = rec[d].mem
    BY <1>5, <1>6, <2>1, <2>3
  <2>8. CommonStep(t)
    BY <1>1, <1>2, <1>4, <1>7, <1>8, <1>9, <2>3, <2>7 DEF CommonStep
  <2> QED  BY <2>5, <2>6, <2>8, CommonInv
<1> QED  BY <1>1, <1>10, <1>11

LEMMA CountedLess ==
    ASSUME IntLegal, IntTypes, Counted, NEW d \in Rec, NEW m \in Module, NEW g, NEW g2,
           NEW h, g[m] = d, g2[m] = NoRec, \A k \in Module : k # m => g2[k] = g[k],
           (g = state /\ h = bound /\ g2 = state' /\ bound' = bound)
             \/ (g = bound /\ h = state /\ g2 = bound' /\ state' = state),
           rec'[d].refs = rec[d].refs - 1, \A r \in Rec : r # d => rec'[r] = rec[r]
    PROVE  Counted' /\ rec[d].refs >= 1
<1>1. ASSUME NEW r \in Rec
      PROVE  /\ rec[r].refs = Cardinality(UsersIn(g, r)) + Cardinality(UsersIn(h, r))
             /\ Cardinality(UsersIn(g, r)) \in Nat /\ Cardinality(UsersIn(h, r)) \in Nat
             /\ Cardinality(UsersIn(g2, r)) \in Nat
  <2>1. rec[r].refs = Cardinality(UsersIn(state, r)) + Cardinality(UsersIn(bound, r))
    BY DEF Counted
  <2>2. /\ Cardinality(UsersIn(state, r)) \in Nat /\ Cardinality(UsersIn(bound, r)) \in Nat
        /\ Cardinality(UsersIn(g2, r)) \in Nat
    BY UsersFinite
  <2>3. (g = state /\ h = bound) \/ (g = bound /\ h = state)  OBVIOUS
  <2> QED  BY <2>1, <2>2, <2>3
<1>2. /\ Cardinality(UsersIn(g, d)) = Cardinality(UsersIn(g2, d)) + 1
      /\ \A r \in Rec : r # d => UsersIn(g2, r) = UsersIn(g, r)
  <2>1. UsersIn(g, d) = UsersIn(g2, d) \cup {m} /\ m \notin UsersIn(g2, d)
    BY DEF UsersIn, IntLegal
  <2>2. IsFiniteSet(UsersIn(g2, d))  BY UsersFinite
  <2>3. Cardinality(UsersIn(g, d)) = Cardinality(UsersIn(g2, d)) + 1
    BY <2>1, <2>2, FS_AddElement
  <2>4. \A r \in Rec : r # d => UsersIn(g2, r) = UsersIn(g, r)  BY DEF UsersIn, IntLegal
  <2> QED  BY <2>3, <2>4
<1>3. ASSUME NEW r \in Rec
      PROVE  rec'[r].refs = Cardinality(UsersIn(g2, r)) + Cardinality(UsersIn(h, r))
  <2>1. CASE r = d  BY <2>1, <1>1, <1>2
  <2>2. CASE r # d
    <3>1. UsersIn(g2, r) = UsersIn(g, r) /\ rec'[r] = rec[r]  BY <2>2, <1>2
    <3> QED  BY <3>1, <1>1
  <2> QED  BY <2>1, <2>2
<1>4. Counted'
  <2> SUFFICES ASSUME NEW r \in Rec
               PROVE  rec'[r].refs
                        = Cardinality(UsersIn(state', r)) + Cardinality(UsersIn(bound', r))
    BY DEF Counted
  <2>1. CASE g2 = state' /\ h = bound'  BY <1>3, <2>1
  <2>2. CASE g2 = bound' /\ h = state'
    <3>1. rec'[r].refs = Cardinality(UsersIn(h, r)) + Cardinality(UsersIn(g2, r))
      BY <1>1, <1>3
    <3> QED  BY <3>1, <2>2
  <2> QED  BY <2>1, <2>2
<1> QED  BY <1>1, <1>2, <1>4

LEMMA DecRefInv ==
    ASSUME IntLegal, IntInv, NEW t \in Importer, NEW m \in Module, I!Between(t, m),
           NEW g, g[m] # NoRec, I!DecRef(t, g[m]), domain' = domain, exited' = exited,
           \/ g = state /\ state' = [state EXCEPT ![m] = NoRec] /\ bound' = bound
           \/ g = bound /\ bound' = [bound EXCEPT ![m] = NoRec] /\ state' = state
    PROVE  IntInv'
<1> DEFINE d == g[m]
           new == IF rec[d].refs # 1 THEN [rec[d] EXCEPT !.refs = @ - 1]
                  ELSE [rec[d] EXCEPT !.refs = 0, !.lifeline = FALSE]
<1>1. /\ I!At(t, "idle") /\ ~exited /\ \A u \in Importer : imp[u].mod # m
  BY DEF I!Between
<1>2. ~exited /\ imp[t].pc = "idle" /\ \A u \in Importer : u # t => imp[u].pc \notin I!Unbroken
  BY <1>1, Working
<1>3. IntTypes /\ I!OneRecord /\ Counted /\ Settled /\ \A u \in Importer : ThreadSound(u)
  BY <1>2, IntParts
<1>4. /\ ~Private(t) /\ domain # NoRec /\ d = domain /\ d \in Rec /\ rec[d] \in RecordType
  BY <1>2, <1>3 DEF Private, I!OneRecord, IntTypes
<1>5. /\ rec[d].lifeline <=> rec[d].refs > 0
      /\ rec[d].types <=> rec[d].lifeline
      /\ rec[d].refs \in Nat /\ rec[d].lifeline \in BOOLEAN /\ rec[d].types \in BOOLEAN
  BY <1>2, <1>3, <1>4 DEF Settled, I!Unbroken, RecordType
<1>6. rec[d].refs >= 1
  <2>1. Cardinality(UsersIn(g, d)) # 0  BY <1>4, UsersNone
  <2>2. rec[d].refs = Cardinality(UsersIn(state, d)) + Cardinality(UsersIn(bound, d))
        /\ Cardinality(UsersIn(state, d)) \in Nat /\ Cardinality(UsersIn(bound, d)) \in Nat
    BY <1>3, <1>4, UsersFinite DEF Counted
  <2>3. g = state \/ g = bound  OBVIOUS
  <2>4. Cardinality(UsersIn(state, d)) # 0 \/ Cardinality(UsersIn(bound, d)) # 0
    BY <2>1, <2>3
  <2> QED  BY <2>2, <2>4
<1>7. /\ new \in RecordType /\ new.refs = rec[d].refs - 1 /\ new.mem = rec[d].mem
      /\ new.types = TRUE
      /\ rec[d].refs # 1 => new.lifeline = TRUE
      /\ rec[d].refs = 1 => new.lifeline = FALSE
  <2>1. CASE rec[d].refs # 1
    <3>1. new = [rec[d] EXCEPT !.refs = @ - 1]  BY <2>1
    <3>2. rec[d].refs - 1 \in Nat /\ rec[d].lifeline = TRUE /\ rec[d].types = TRUE
      BY <1>5, <1>6
    <3> HIDE DEF new, d
    <3> QED  BY <2>1, <3>1, <3>2, <1>4 DEF RecordType
  <2>2. CASE rec[d].refs = 1
    <3>1. new = [rec[d] EXCEPT !.refs = 0, !.lifeline = FALSE]  BY <2>2
    <3>2. rec[d].types = TRUE  BY <1>5, <1>6
    <3> HIDE DEF new, d
    <3>3. /\ rec[d].mem \in {"free", "live", "deleted"} /\ rec[d].types \in BOOLEAN
          /\ new = [mem |-> rec[d].mem, refs |-> 0, lifeline |-> FALSE, types |-> rec[d].types]
      BY <3>1, <1>4 DEF RecordType
    <3>4. new \in RecordType  BY <3>3 DEF RecordType
    <3>5. new.refs = 0 /\ rec[d].refs - 1 = 0  BY <3>3, <2>2
    <3> QED  BY <2>2, <3>2, <3>3, <3>4, <3>5
  <2> QED  BY <2>1, <2>2
<1>8. rec' = [rec EXCEPT ![d] = new]
  <2>1. CASE rec[d].refs # 1
    <3>1. rec' = [rec EXCEPT ![d].refs = @ - 1]  BY <2>1 DEF I!DecRef
    <3> QED  BY <2>1, <3>1
  <2>2. CASE rec[d].refs = 1
    <3>1. rec' = [rec EXCEPT ![d].refs = 0, ![d].lifeline = FALSE]  BY <2>2 DEF I!DecRef
    <3> QED  BY <2>2, <3>1, <1>3, <1>4 DEF IntTypes
  <2> QED  BY <2>1, <2>2
<1> HIDE DEF new
<1>9. /\ rec' \in [Rec -> RecordType] /\ rec'[d] = new
      /\ \A r \in Rec : r # d => rec'[r] = rec[r]
  BY <1>3, <1>4, <1>7, <1>8, RecordChanged
<1>10. /\ imp' \in [Importer -> ImportType]
       /\ rec[d].refs # 1 => imp'[t].pc = "idle"
       /\ rec[d].refs = 1 => imp'[t].pc = "teardown" /\ imp'[t].r = d
       /\ \A u \in Importer : u # t => imp'[u] = imp[u]
  <2>1. CASE rec[d].refs # 1
    <3>1. imp' = imp  BY <2>1 DEF I!DecRef
    <3> QED  BY <2>1, <3>1, <1>2, <1>3 DEF IntTypes
  <2>2. CASE rec[d].refs = 1
    <3>1. I!Step(t, "teardown", NoRec, d)  BY <2>2 DEF I!DecRef
    <3>2. "teardown" \in Pcs /\ NoRec \in Module \cup {NoRec} /\ d \in Rec \cup {NoRec}
      BY <1>4 DEF Pcs
    <3> HIDE DEF d
    <3>3. /\ imp' \in [Importer -> ImportType]
          /\ imp'[t].pc = "teardown" /\ imp'[t].r = d
          /\ \A u \in Importer : u # t => imp'[u] = imp[u]
      BY <3>1, <3>2, <1>3, Moved
    <3> QED  BY <2>2, <3>3
  <2> QED  BY <2>1, <2>2
<1>11. /\ state' \in [Module -> Rec \cup {NoRec}] /\ bound' \in [Module -> Rec \cup {NoRec}]
       /\ \A k \in Module : /\ state'[k] = state[k] \/ state'[k] = NoRec
                            /\ bound'[k] = bound[k] \/ bound'[k] = NoRec
                            /\ k # m => state'[k] = state[k] /\ bound'[k] = bound[k]
  BY <1>3 DEF IntTypes
<1>12. IntTypes' /\ I!OneRecord'
  BY <1>3, <1>9, <1>10, <1>11 DEF IntTypes, I!OneRecord
<1>13. rec'[d].refs = rec[d].refs - 1 /\ \A r \in Rec : r # d => rec'[r] = rec[r]
  BY <1>7, <1>9
<1>14. Counted'
  <2>1. CASE g = state /\ state' = [state EXCEPT ![m] = NoRec] /\ bound' = bound
    <3>1. state'[m] = NoRec /\ state[m] = d  BY <2>1, <1>3 DEF IntTypes
    <3>2. bound' = bound /\ \A k \in Module : k # m => state'[k] = state[k]  BY <2>1, <1>11
    <3> HIDE DEF d
    <3> QED  BY ONLY IntLegal, <1>3, <1>4, m \in Module, <1>13, <3>1, <3>2, CountedLess
  <2>2. CASE g = bound /\ bound' = [bound EXCEPT ![m] = NoRec] /\ state' = state
    <3>1. bound'[m] = NoRec /\ bound[m] = d  BY <2>2, <1>3 DEF IntTypes
    <3>2. state' = state /\ \A k \in Module : k # m => bound'[k] = bound[k]  BY <2>2, <1>11
    <3> HIDE DEF d
    <3> QED  BY ONLY IntLegal, <1>3, <1>4, m \in Module, <1>13, <3>1, <3>2, CountedLess
  <2> QED  BY <2>1, <2>2
<1>15. ~Private(t)' /\ (Common(t)' => CommonSound(t)')
  <2>1. CASE rec[d].refs # 1  BY <2>1, <1>10 DEF Private, Common
  <2>2. CASE rec[d].refs = 1
    BY <2>2, <1>4, <1>7, <1>9, <1>10 DEF Private, CommonSound
  <2> QED  BY <2>1, <2>2
<1>16. \A u \in Importer : u # t /\ imp[u].pc = "exec" => state'[imp[u].mod] = domain
  <2> SUFFICES ASSUME NEW u \in Importer, u # t, imp[u].pc = "exec"
               PROVE  state'[imp[u].mod] = domain
    OBVIOUS
  <2>1. imp[u].mod \in Module /\ state[imp[u].mod] = domain
    BY <1>3 DEF ThreadSound, Common, CommonSound
  <2> QED  BY <2>1, <1>1, <1>11
<1>17. imp'[t].pc \notin I!Unbroken => /\ rec'[d].lifeline <=> rec'[d].refs > 0
                                       /\ rec'[d].types <=> rec'[d].lifeline
  BY <1>5, <1>6, <1>7, <1>9, <1>10 DEF I!Unbroken
<1>18. rec'[d].mem = rec[d].mem  BY <1>7, <1>9
<1> HIDE DEF d
<1>19. CommonStep(t)
  BY <1>2, <1>4, <1>9, <1>10, <1>15, <1>16, <1>17, <1>18 DEF CommonStep
<1> QED  BY <1>12, <1>14, <1>19, CommonInv

LEMMA ResetInv == ASSUME IntLegal, IntInv, NEW t \in Importer, I!Reset(t) PROVE IntInv'
<1> DEFINE d == imp[t].r
           new == [rec[d] EXCEPT !.types = FALSE]
<1>1. /\ I!At(t, "teardown") /\ rec' = [rec EXCEPT ![d] = new] /\ I!Done(t)
      /\ state' = state /\ bound' = bound /\ exited' = exited /\ domain' = domain
  BY DEF I!Reset
<1>2. ~exited /\ imp[t].pc = "teardown" /\ \A u \in Importer : u # t => imp[u].pc \notin I!Unbroken
  BY <1>1, Working
<1>3. IntTypes /\ I!OneRecord /\ Counted /\ \A u \in Importer : ThreadSound(u)
  BY <1>2, IntParts
<1>4. /\ ~Private(t) /\ CommonSound(t) /\ domain # NoRec /\ d = domain
      /\ d \in Rec /\ rec[d] \in RecordType
  BY <1>2, <1>3 DEF Private, Common, CommonSound, ThreadSound, IntTypes
<1>5. rec[d].lifeline = FALSE /\ rec[d].refs = 0
  BY <1>2, <1>4 DEF CommonSound, RecordType
<1>6. new \in RecordType /\ new.lifeline = FALSE /\ new.types = FALSE
      /\ new.refs = 0 /\ new.mem = rec[d].mem
  BY <1>4, <1>5 DEF RecordType
<1>7. rec' = [rec EXCEPT ![d] = new]  BY <1>1
<1> HIDE DEF new
<1>8. /\ rec' \in [Rec -> RecordType] /\ rec'[d] = new
      /\ \A r \in Rec : r # d => rec'[r] = rec[r]
  BY <1>3, <1>4, <1>6, <1>7, RecordChanged
<1>9. /\ imp' \in [Importer -> ImportType] /\ imp'[t].pc = "idle"
      /\ \A u \in Importer : u # t => imp'[u] = imp[u]
  BY <1>1, <1>3, Rested
<1>10. IntTypes' /\ I!OneRecord'  BY <1>1, <1>3, <1>8, <1>9 DEF IntTypes, I!OneRecord
<1>11. Counted'
  <2>1. \A r \in Rec : rec'[r].refs = rec[r].refs  BY <1>5, <1>6, <1>8
  <2> QED  BY <1>1, <1>3, <2>1, CountedSame
<1>12. ~Private(t)' /\ ~Common(t)'  BY <1>9 DEF Private, Common
<1>13. \A u \in Importer : u # t /\ imp[u].pc = "exec" => state'[imp[u].mod] = domain
  BY <1>1, <1>3 DEF ThreadSound, Common, CommonSound
<1>14. /\ rec'[d].lifeline <=> rec'[d].refs > 0
       /\ rec'[d].types <=> rec'[d].lifeline
       /\ rec'[d].mem = rec[d].mem
  BY <1>6, <1>8
<1> HIDE DEF d
<1>15. CommonStep(t)
  BY <1>1, <1>2, <1>4, <1>8, <1>9, <1>12, <1>13, <1>14 DEF CommonStep
<1> QED  BY <1>10, <1>11, <1>15, CommonInv

LEMMA UnloadInv ==
    ASSUME IntLegal, IntInv, NEW t \in Importer, NEW m \in Module, I!Unload(t, m)
    PROVE  IntInv'
<1>1. /\ I!Between(t, m) /\ state[m] # NoRec /\ I!DecRef(t, state[m])
      /\ domain' = domain /\ exited' = exited
      /\ state' = [state EXCEPT ![m] = NoRec] /\ bound' = bound
  BY DEF I!Unload
<1> QED  BY <1>1, DecRefInv

LEMMA ReleaseInv ==
    ASSUME IntLegal, IntInv, NEW t \in Importer, NEW m \in Module, I!Release(t, m)
    PROVE  IntInv'
<1>1. /\ I!Between(t, m) /\ bound[m] # NoRec /\ I!DecRef(t, bound[m])
      /\ domain' = domain /\ exited' = exited
      /\ bound' = [bound EXCEPT ![m] = NoRec] /\ state' = state
  BY DEF I!Release
<1> QED  BY <1>1, DecRefInv

LEMMA CountPublishedInv ==
    ASSUME IntLegal, IntInv, NEW t \in Importer, I!CountPublished(t) PROVE IntInv'
<1>1. /\ I!At(t, "count") /\ I!Count(t, imp[t].mod, imp[t].r)
      /\ domain' = domain /\ bound' = bound /\ exited' = exited
  BY DEF I!CountPublished
<1>2. ~exited /\ imp[t].pc = "count" /\ \A u \in Importer : u # t => imp[u].pc \notin I!Unbroken
  BY <1>1, Working
<1> QED  BY <1>1, <1>2, CountInv

LEMMA CountJoinedInv ==
    ASSUME IntLegal, IntInv, NEW t \in Importer, I!CountJoined(t) PROVE IntInv'
<1>1. /\ I!At(t, "joined") /\ I!Count(t, imp[t].mod, imp[t].r)
      /\ domain' = domain /\ bound' = bound /\ exited' = exited
  BY DEF I!CountJoined
<1>2. ~exited /\ imp[t].pc = "joined" /\ \A u \in Importer : u # t => imp[u].pc \notin I!Unbroken
  BY <1>1, Working
<1> QED  BY <1>1, <1>2, CountInv

LEMMA Unused ==
    ASSUME IntLegal, IntTypes, I!OneRecord, Counted, NEW r \in Rec, r # domain
    PROVE  rec[r].refs = 0
<1>1. r # NoRec  BY DEF IntLegal
<1>2. \A m \in Module : state[m] # r /\ bound[m] # r  BY <1>1 DEF I!OneRecord
<1>3. Cardinality(UsersIn(state, r)) = 0 /\ Cardinality(UsersIn(bound, r)) = 0
  BY <1>2, UsersNone
<1> QED  BY <1>3 DEF Counted

\* A thread gives up the record that it made.
LEMMA DropInv ==
    ASSUME IntLegal, IntInv, ~exited, NEW t \in Importer, Private(t),
           rec' = [rec EXCEPT ![imp[t].r] = I!DiscardedRec],
           imp' \in [Importer -> ImportType], \A u \in Importer : u # t => imp'[u] = imp[u],
           ~Private(t)', Common(t)' => CommonSound(t)', imp'[t].pc \notin I!Unbroken,
           domain' = domain, state' = state, bound' = bound, exited' = exited
    PROVE  IntInv'
<1> DEFINE r == imp[t].r
<1>1. /\ IntTypes /\ I!OneRecord /\ Counted /\ \A u \in Importer : ThreadSound(u)
      /\ Distinct /\ OneUnbroken /\ Settled /\ Spare /\ DomainLive
  BY IntParts
<1>2. r \in Rec /\ r # domain  BY <1>1 DEF ThreadSound, PrivateSound
<1>3. I!DiscardedRec \in RecordType /\ I!DiscardedRec.refs = 0
      /\ I!DiscardedRec.mem = "free" /\ I!DiscardedRec.lifeline = FALSE
  BY DEF I!DiscardedRec, RecordType
<1>4. /\ rec' \in [Rec -> RecordType] /\ rec'[r] = I!DiscardedRec
      /\ \A q \in Rec : q # r => rec'[q] = rec[q]
  BY <1>1, <1>2, <1>3, RecordChanged
<1>5. IntTypes' /\ I!OneRecord'  BY <1>1, <1>4 DEF IntTypes, I!OneRecord
<1>6. rec[r].refs = 0  BY <1>1, <1>2, Unused
<1>7. \A q \in Rec : rec'[q].refs = rec[q].refs  BY <1>3, <1>4, <1>6
<1>8. Counted'  BY <1>1, <1>7, CountedSame
<1>9. \A u \in Importer : u # t /\ Private(u) => imp[u].r # r  BY <1>1 DEF Distinct
<1> HIDE DEF r
<1>10. \A u \in Importer : u # t => (Private(u)' <=> Private(u)) /\ (Common(u)' <=> Common(u))
  BY DEF Private, Common
<1>11. ASSUME NEW u \in Importer, u # t PROVE ThreadSound(u)'
  <2>1. imp'[u] = imp[u] /\ ThreadSound(u)  BY <1>1, <1>11
  <2>2. ASSUME Private(u)' PROVE PrivateSound(u)'
    <3>1. PrivateSound(u) /\ imp[u].r # r  BY <1>9, <1>10, <1>11, <2>1, <2>2 DEF ThreadSound
    <3> QED  BY <3>1, <2>1, <1>4 DEF PrivateSound
  <2>3. ASSUME Common(u)' PROVE CommonSound(u)'
    <3>1. CommonSound(u) /\ domain \in Rec /\ domain # r
      BY <1>1, <1>2, <1>10, <1>11, <2>1, <2>3 DEF ThreadSound, CommonSound, IntTypes
    <3>2. rec'[domain] = rec[domain]  BY <3>1, <1>4
    <3> QED  BY <3>1, <3>2, <2>1 DEF CommonSound
  <2> QED  BY <2>2, <2>3 DEF ThreadSound
<1>12. \A u \in Importer : ThreadSound(u)'  BY <1>11 DEF ThreadSound
<1>13. Distinct'  BY <1>1, <1>10 DEF Distinct
<1>14. OneUnbroken'  BY <1>1 DEF OneUnbroken
<1>15. Settled'
  <2> SUFFICES ASSUME \A u \in Importer : imp'[u].pc \notin I!Unbroken, domain # NoRec
               PROVE  /\ rec'[domain].lifeline <=> rec'[domain].refs > 0
                      /\ rec'[domain].types <=> rec'[domain].lifeline
    BY DEF Settled
  <2>1. imp[t].pc \notin I!Unbroken  BY DEF Private, I!Unbroken
  <2>2. \A u \in Importer : imp[u].pc \notin I!Unbroken  BY <2>1
  <2>3. rec'[domain] = rec[domain]  BY <1>1, <1>2, <1>4 DEF IntTypes
  <2> QED  BY <1>1, <2>2, <2>3 DEF Settled
<1>16. Spare'
  <2> SUFFICES ASSUME NEW q \in Rec, q # domain
               PROVE  \/ rec'[q].mem = "free" /\ ~rec'[q].lifeline
                      \/ rec'[q].mem = "live" /\ \E u \in Importer : Private(u)' /\ imp'[u].r = q
    BY DEF Spare
  <2>1. CASE q = r  BY <2>1, <1>3, <1>4
  <2>2. CASE q # r
    <3>1. rec'[q] = rec[q]  BY <2>2, <1>4
    <3>2. \A u \in Importer : Private(u) /\ imp[u].r = q => Private(u)' /\ imp'[u].r = q
      BY <1>10, <2>2 DEF r
    <3> QED  BY <3>1, <3>2, <1>1 DEF Spare
  <2> QED  BY <2>1, <2>2
<1>17. DomainLive'  BY <1>1, <1>2, <1>4 DEF DomainLive, IntTypes
<1> QED  BY <1>5, <1>8, <1>12, <1>13, <1>14, <1>15, <1>16, <1>17 DEF IntInv, Running

LEMMA DiscardInv == ASSUME IntLegal, IntInv, NEW t \in Importer, I!Discard(t) PROVE IntInv'
<1>1. /\ I!At(t, "discard") /\ rec' = [rec EXCEPT ![imp[t].r] = I!DiscardedRec]
      /\ I!Step(t, "join", imp[t].mod, domain)
      /\ domain' = domain /\ state' = state /\ bound' = bound /\ exited' = exited
  BY DEF I!Discard
<1>2. ~exited /\ imp[t].pc = "discard"  BY <1>1, Working
<1>3. IntTypes /\ ThreadSound(t)  BY <1>2, IntParts
<1>4. Private(t) /\ imp[t].mod \in Module /\ domain # NoRec /\ domain \in Rec
  BY <1>2, <1>3 DEF Private, ThreadSound, PrivateSound, IntTypes
<1>5. /\ imp' \in [Importer -> ImportType]
      /\ imp'[t].pc = "join" /\ imp'[t].mod = imp[t].mod /\ imp'[t].r = domain
      /\ \A u \in Importer : u # t => imp'[u] = imp[u]
  BY <1>1, <1>3, <1>4, Moved DEF Pcs
<1>6. ~Private(t)' /\ CommonSound(t)' /\ imp'[t].pc \notin I!Unbroken
  BY <1>1, <1>4, <1>5 DEF Private, CommonSound, I!Unbroken
<1> QED  BY <1>1, <1>2, <1>4, <1>5, <1>6, DropInv

LEMMA PublishFailsInv ==
    ASSUME IntLegal, IntInv, NEW t \in Importer, I!PublishFails(t) PROVE IntInv'
<1>1. /\ I!At(t, "publish") /\ rec' = [rec EXCEPT ![imp[t].r] = I!DiscardedRec] /\ I!Done(t)
      /\ domain' = domain /\ state' = state /\ bound' = bound /\ exited' = exited
  BY DEF I!PublishFails
<1>2. ~exited /\ imp[t].pc = "publish"  BY <1>1, Working
<1>3. IntTypes /\ Private(t)  BY <1>2, IntParts DEF Private
<1>4. /\ imp' \in [Importer -> ImportType] /\ imp'[t].pc = "idle"
      /\ \A u \in Importer : u # t => imp'[u] = imp[u]
  BY <1>1, <1>3, Rested
<1>5. ~Private(t)' /\ ~Common(t)' /\ imp'[t].pc \notin I!Unbroken
  BY <1>4 DEF Private, Common, I!Unbroken
<1> QED  BY <1>1, <1>2, <1>3, <1>4, <1>5, DropInv

LEMMA BeginInv ==
    ASSUME IntLegal, IntInv, NEW t \in Importer, NEW m \in Module, I!Begin(t, m)
    PROVE  IntInv'
<1>1. /\ I!At(t, "idle") /\ ~exited
      /\ domain' = domain /\ state' = state /\ bound' = bound /\ exited' = exited
  BY DEF I!Begin, I!Between
<1>2. imp[t].pc = "idle" /\ \A u \in Importer : u # t => imp[u].pc \notin I!Unbroken
  BY <1>1, Working
<1>3. /\ IntTypes /\ I!OneRecord /\ Counted /\ \A u \in Importer : ThreadSound(u)
      /\ Distinct /\ OneUnbroken /\ Settled /\ Spare /\ DomainLive
  BY <1>1, IntParts
<1>4. ~Private(t)  BY <1>2 DEF Private
<1>5. CASE domain # NoRec
  <2>1. I!Step(t, "join", m, domain) /\ rec' = rec /\ domain \in Rec
    BY <1>3, <1>5 DEF I!Begin, IntTypes
  <2>2. /\ imp' \in [Importer -> ImportType]
        /\ imp'[t].pc = "join" /\ imp'[t].mod = m /\ imp'[t].r = domain
        /\ \A u \in Importer : u # t => imp'[u] = imp[u]
    BY <1>3, <2>1, Moved DEF Pcs
  <2>3. IntTypes' /\ I!OneRecord'  BY <1>1, <1>3, <2>1, <2>2 DEF IntTypes, I!OneRecord
  <2>4. Counted'  BY <1>1, <1>3, <2>1, CountedSame
  <2>5. ~Private(t)' /\ CommonSound(t)'  BY <1>1, <1>5, <2>2 DEF Private, CommonSound
  <2>6. \A u \in Importer : u # t /\ imp[u].pc = "exec" => state'[imp[u].mod] = domain
    BY <1>1, <1>3 DEF ThreadSound, Common, CommonSound
  <2>7. /\ rec'[domain].lifeline <=> rec'[domain].refs > 0
        /\ rec'[domain].types <=> rec'[domain].lifeline
    <3>1. \A u \in Importer : imp[u].pc \notin I!Unbroken  BY <1>2 DEF I!Unbroken
    <3> QED  BY <3>1, <1>3, <1>5, <2>1 DEF Settled
  <2>8. CommonStep(t)
    BY <1>1, <1>2, <1>4, <1>5, <2>1, <2>2, <2>5, <2>6, <2>7 DEF CommonStep
  <2> QED  BY <2>3, <2>4, <2>8, CommonInv
<1>6. CASE domain = NoRec
  <2>1. PICK r \in Rec :
           /\ rec[r].mem = "free"
           /\ rec' = [rec EXCEPT ![r] = I!InitTypes([@ EXCEPT !.mem = "live", !.refs = 0])]
           /\ I!Step(t, "publish", m, r)
    BY <1>6 DEF I!Begin
  <2> DEFINE new == I!InitTypes([rec[r] EXCEPT !.mem = "live", !.refs = 0])
  <2>2. rec[r] \in RecordType /\ r # domain
    <3>1. r # NoRec  BY DEF IntLegal
    <3>2. rec \in [Rec -> RecordType]  BY <1>3 DEF IntTypes
    <3> QED  BY <3>1, <3>2, <1>6
  <2> DEFINE c == [rec[r] EXCEPT !.mem = "live", !.refs = 0]
  <2>4. /\ new \in RecordType /\ new.refs = 0 /\ new.mem = "live"
        /\ new.lifeline = TRUE /\ new.types = TRUE
    <3>1. c \in RecordType /\ c.mem = "live" /\ c.refs = 0  BY <2>2 DEF RecordType
    <3>2. new = [c EXCEPT !.lifeline = TRUE, !.types = TRUE]  BY DEF I!InitTypes
    <3> HIDE DEF c, new
    <3> QED  BY <3>1, <3>2 DEF RecordType
  <2>5. rec' = [rec EXCEPT ![r] = new]  BY <2>1
  <2> HIDE DEF new
  <2>6. /\ rec' \in [Rec -> RecordType] /\ rec'[r] = new
        /\ \A q \in Rec : q # r => rec'[q] = rec[q]
    BY <1>3, <2>4, <2>5, RecordChanged
  <2>7. /\ imp' \in [Importer -> ImportType]
        /\ imp'[t].pc = "publish" /\ imp'[t].mod = m /\ imp'[t].r = r
        /\ \A u \in Importer : u # t => imp'[u] = imp[u]
    BY <1>3, <2>1, Moved DEF Pcs
  <2>8. IntTypes' /\ I!OneRecord'  BY <1>1, <1>3, <2>6, <2>7 DEF IntTypes, I!OneRecord
  <2>9. Counted'
    <3>1. rec[r].refs = 0  BY <1>3, <2>2, Unused
    <3>2. \A q \in Rec : rec'[q].refs = rec[q].refs  BY <3>1, <2>4, <2>6
    <3> QED  BY <3>2, <1>1, <1>3, CountedSame
  <2>10. \A u \in Importer : ~Common(u) /\ (Private(u) => imp[u].r # r)
    BY <1>3, <1>6, <2>1 DEF ThreadSound, CommonSound, PrivateSound
  <2>11. Private(t)' /\ ~Common(t)'  BY <2>7 DEF Private, Common
  <2>12. PrivateSound(t)'
    BY <1>1, <2>2, <2>4, <2>6, <2>7 DEF PrivateSound
  <2>13. \A u \in Importer : u # t => (Private(u)' <=> Private(u)) /\ ~Common(u)'
    BY <2>7, <2>10 DEF Private, Common
  <2>14. ASSUME NEW u \in Importer, u # t PROVE ThreadSound(u)'
    <3>1. ASSUME Private(u)' PROVE PrivateSound(u)'
      <4>1. PrivateSound(u) /\ imp[u].r # r /\ imp'[u] = imp[u]
        BY <1>3, <2>7, <2>10, <2>13, <2>14, <3>1 DEF ThreadSound
      <4> QED  BY <4>1, <1>1, <2>6 DEF PrivateSound
    <3> QED  BY <3>1, <2>13, <2>14 DEF ThreadSound
  <2>15. \A u \in Importer : ThreadSound(u)'  BY <2>11, <2>12, <2>14 DEF ThreadSound
  <2>16. Distinct'  BY <1>3, <2>7, <2>10, <2>13 DEF Distinct
  <2>17. OneUnbroken'  BY <1>3, <2>7 DEF OneUnbroken, I!Unbroken
  <2>18. Settled' /\ DomainLive'  BY <1>1, <1>6 DEF Settled, DomainLive
  <2>19. Spare'
    <3> SUFFICES ASSUME NEW q \in Rec, q # domain
                 PROVE  \/ rec'[q].mem = "free" /\ ~rec'[q].lifeline
                        \/ /\ rec'[q].mem = "live"
                           /\ \E u \in Importer : Private(u)' /\ imp'[u].r = q
      BY <1>1 DEF Spare
    <3>1. CASE q = r  BY <3>1, <2>4, <2>6, <2>7, <2>11
    <3>2. CASE q # r
      <4>1. rec'[q] = rec[q]  BY <3>2, <2>6
      <4>2. \A u \in Importer : Private(u) /\ imp[u].r = q => Private(u)' /\ imp'[u].r = q
        BY <1>4, <2>7, <2>13
      <4> QED  BY <4>1, <4>2, <1>3 DEF Spare
    <3> QED  BY <3>1, <3>2
  <2> QED  BY <1>1, <2>8, <2>9, <2>15, <2>16, <2>17, <2>18, <2>19 DEF IntInv, Running
<1> QED  BY <1>5, <1>6

LEMMA ExitInv == ASSUME IntLegal, IntInv, I!Exit PROVE IntInv'
<1>1. /\ \A t \in Importer : imp[t].pc = "idle"
      /\ exited' = TRUE /\ domain' = domain /\ state' = state /\ bound' = bound /\ imp' = imp
      /\ rec' = [r \in Rec |-> IF r = domain /\ ~I!Leaked(r)
                               THEN [rec[r] EXCEPT !.mem = "deleted"] ELSE rec[r]]
  BY DEF I!Exit
<1>2. IntTypes /\ I!OneRecord /\ Counted  BY DEF IntInv
<1>3. ASSUME NEW r \in Rec
      PROVE  rec'[r] \in RecordType /\ rec'[r].refs = rec[r].refs
  <2>1. rec[r] \in RecordType  BY <1>2 DEF IntTypes
  <2>2. [rec[r] EXCEPT !.mem = "deleted"] \in RecordType
        /\ [rec[r] EXCEPT !.mem = "deleted"].refs = rec[r].refs
    BY <2>1 DEF RecordType
  <2> QED  BY <1>1, <2>1, <2>2
<1>4. rec' \in [Rec -> RecordType]  BY <1>1, <1>3
<1>5. IntTypes' /\ I!OneRecord'  BY <1>1, <1>2, <1>4 DEF IntTypes, I!OneRecord
<1>6. Counted'  BY <1>1, <1>2, <1>3, CountedSame
<1> QED  BY <1>1, <1>5, <1>6 DEF IntInv

LEMMA IntStill == ASSUME IntInv, UNCHANGED I!lifetimeVars PROVE IntInv'
<1>1. /\ domain' = domain /\ rec' = rec /\ state' = state /\ bound' = bound /\ imp' = imp
      /\ exited' = exited
  BY DEF I!lifetimeVars
<1> QED
  BY <1>1 DEF IntInv, IntTypes, I!OneRecord, Counted, UsersIn, Running, ThreadSound, Private,
     Common, PrivateSound, CommonSound, Distinct, OneUnbroken, Settled, Spare, DomainLive

LEMMA IntStep == ASSUME IntLegal, IntInv, [I!Next]_(I!lifetimeVars) PROVE IntInv'
<1>1. CASE \E t \in Importer : I!Publish(t)  BY <1>1, PublishInv
<1>2. CASE \E t \in Importer : I!CountPublished(t)  BY <1>2, CountPublishedInv
<1>3. CASE \E t \in Importer : I!Discard(t)  BY <1>3, DiscardInv
<1>4. CASE \E t \in Importer : I!PublishFails(t)  BY <1>4, PublishFailsInv
<1>5. CASE \E t \in Importer : I!Join(t)  BY <1>5, JoinInv
<1>6. CASE \E t \in Importer : I!Build(t)  BY <1>6, BuildInv
<1>7. CASE \E t \in Importer : I!CountJoined(t)  BY <1>7, CountJoinedInv
<1>8. CASE \E t \in Importer : I!Exec(t)  BY <1>8, ExecInv
<1>9. CASE \E t \in Importer : I!Reset(t)  BY <1>9, ResetInv
<1>10. CASE \E t \in Importer, m \in Module : I!Begin(t, m)  BY <1>10, BeginInv
<1>11. CASE \E t \in Importer, m \in Module : I!Unload(t, m)  BY <1>11, UnloadInv
<1>12. CASE \E t \in Importer, m \in Module : I!Release(t, m)  BY <1>12, ReleaseInv
<1>13. CASE I!Exit  BY <1>13, ExitInv
<1>14. CASE UNCHANGED I!lifetimeVars  BY <1>14, IntStill
<1> QED
  BY <1>1, <1>2, <1>3, <1>4, <1>5, <1>6, <1>7, <1>8, <1>9, <1>10, <1>11, <1>12, <1>13, <1>14
  DEF I!Next

LEMMA IntReady == IntLegal /\ IntInv => I!Ready
<1> SUFFICES ASSUME IntLegal, IntInv, ~exited, NEW m \in Module,
                    NEW r \in {state[m], bound[m]} \ {NoRec}
             PROVE  rec[r].mem = "live" /\ rec[r].lifeline /\ rec[r].types
    BY DEF I!Ready
<1>1. /\ IntTypes /\ I!OneRecord /\ Counted /\ \A t \in Importer : ThreadSound(t)
      /\ Settled /\ DomainLive
  BY IntParts
<1>2. r = domain /\ domain # NoRec /\ domain \in Rec  BY <1>1 DEF I!OneRecord, IntTypes
<1>3. rec[r].refs > 0
  <2>1. Cardinality(UsersIn(state, r)) # 0 \/ Cardinality(UsersIn(bound, r)) # 0  BY UsersNone
  <2>2. Cardinality(UsersIn(state, r)) \in Nat /\ Cardinality(UsersIn(bound, r)) \in Nat
    BY UsersFinite
  <2> QED  BY <1>1, <1>2, <2>1, <2>2 DEF Counted
<1>4. CASE \A t \in Importer : imp[t].pc \notin I!Unbroken
  BY <1>1, <1>2, <1>3, <1>4 DEF Settled, DomainLive
<1>5. CASE \E t \in Importer : imp[t].pc \in I!Unbroken
  <2>1. PICK t \in Importer : imp[t].pc \in I!Unbroken  BY <1>5
  <2>2. CommonSound(t)  BY <1>1, <2>1 DEF ThreadSound, Common, I!Unbroken
  <2>3. imp[t].pc \in {"count", "joined"}
    BY <1>2, <1>3, <2>1, <2>2 DEF CommonSound, I!Unbroken
  <2> QED  BY <1>1, <1>2, <2>2, <2>3 DEF CommonSound, DomainLive
<1> QED  BY <1>4, <1>5

LEMMA IntNoLeak == IntLegal /\ IntInv => I!NoLeak
<1> SUFFICES ASSUME IntLegal, IntInv, I!Quiet, ~exited, NEW r \in Rec
             PROVE  /\ rec[r].lifeline => I!Users(r) # {}
                    /\ rec[r].mem = "live" => r = domain
    BY DEF I!NoLeak
<1>1. IntTypes /\ Counted /\ Settled /\ Spare  BY IntParts
<1>2. \A t \in Importer : imp[t].pc \notin I!Unbroken /\ ~Private(t)
  BY DEF I!Quiet, I!Unbroken, Private
<1>3. CASE r # domain  BY <1>1, <1>2, <1>3 DEF Spare, IntTypes, RecordType
<1>4. CASE r = domain
  <2>1. domain # NoRec  BY <1>4 DEF IntLegal
  <2>2. SUFFICES ASSUME rec[r].lifeline PROVE I!Users(r) # {}
    BY <1>4
  <2>3. rec[r].refs > 0  BY <1>1, <1>2, <1>4, <2>1, <2>2 DEF Settled
  <2>4. rec[r].refs = Cardinality(UsersIn(state, r)) + Cardinality(UsersIn(bound, r))
    BY <1>1 DEF Counted
  <2>5. Cardinality(UsersIn(state, r)) # 0 \/ Cardinality(UsersIn(bound, r)) # 0
    BY <2>3, <2>4, UsersFinite
  <2>6. \E m \in Module : state[m] = r \/ bound[m] = r  BY <2>5, UsersNone
  <2> QED  BY <2>6 DEF I!Users
<1> QED  BY <1>3, <1>4

LEMMA SameCardinality == \A S : I!Cardinality(S) = Cardinality(S)
BY DEF I!Cardinality, Cardinality

LEMMA IntTypeOK == IntLegal /\ IntInv => I!TypeOK
<1> SUFFICES ASSUME IntLegal, IntInv PROVE I!TypeOK
    OBVIOUS
<1>1. IntTypes /\ Counted  BY DEF IntInv
<1>2. Cardinality(Module) \in Nat /\ I!Cardinality(Module) = Cardinality(Module)
  BY FS_CardinalityType, SameCardinality DEF IntLegal
<1> DEFINE Bounded == [mem : {"free", "live", "deleted"}, refs : 0 .. 2 * I!Cardinality(Module),
                       lifeline : BOOLEAN, types : BOOLEAN]
<1>3. ASSUME NEW r \in Rec PROVE rec[r] \in Bounded
  <2>1. rec[r].refs = Cardinality(UsersIn(state, r)) + Cardinality(UsersIn(bound, r))
    BY <1>1 DEF Counted
  <2>2. /\ Cardinality(UsersIn(state, r)) \in Nat /\ Cardinality(UsersIn(bound, r)) \in Nat
        /\ Cardinality(UsersIn(state, r)) <= Cardinality(Module)
        /\ Cardinality(UsersIn(bound, r)) <= Cardinality(Module)
    BY UsersFinite
  <2>3. rec[r].refs \in 0 .. 2 * I!Cardinality(Module)  BY <1>2, <2>1, <2>2
  <2>4. rec[r] \in RecordType  BY <1>1 DEF IntTypes
  <2> QED  BY <2>3, <2>4 DEF RecordType
<1>4. rec \in [Rec -> Bounded]  BY <1>1, <1>3 DEF IntTypes
<1> QED  BY <1>1, <1>4 DEF IntTypes, I!TypeOK

\* The variables keep their types, and no record counts more than every module twice: once
\* for its state and once for what it binds (nb_internals.cpp:657-718).
THEOREM RecordTyped == ASSUME IntLegal PROVE I!Spec => []I!TypeOK
<1>1. I!Init => IntInv  BY IntInit
<1>2. IntInv /\ [I!Next]_(I!lifetimeVars) => IntInv'  BY IntStep
<1>3. IntInv => I!TypeOK  BY IntTypeOK
<1> QED  BY <1>1, <1>2, <1>3, PTL DEF I!Spec

\* All modules of a domain share one record, however many threads race to create it or
\* fail to (nb_internals.cpp:1018-1260).
THEOREM RecordUnique == ASSUME IntLegal PROVE I!Spec => []I!OneRecord
<1>1. I!Init => IntInv  BY IntInit
<1>2. IntInv /\ [I!Next]_(I!lifetimeVars) => IntInv'  BY IntStep
<1>3. IntInv => I!OneRecord  BY DEF IntInv
<1> QED  BY <1>1, <1>2, <1>3, PTL DEF I!Spec

\* While a module is loaded, or a type or function of it alive, the record it counts on is
\* there with its internal types: no teardown hits a record in use, and none that is joined
\* again stays half built (nb_internals.cpp:657-718).
THEOREM RecordComplete == ASSUME IntLegal PROVE I!Spec => []I!Ready
<1>1. I!Init => IntInv  BY IntInit
<1>2. IntInv /\ [I!Next]_(I!lifetimeVars) => IntInv'  BY IntStep
<1>3. IntInv => I!Ready  BY IntReady
<1> QED  BY <1>1, <1>2, <1>3, PTL DEF I!Spec

\* Between imports a record without users has been torn down, and no other record takes
\* memory: no reload counts twice, no failed import keeps a reference
\* (nb_internals.cpp:657-718, 1018-1260).
THEOREM RecordTornDown == ASSUME IntLegal PROVE I!Spec => []I!NoLeak
<1>1. I!Init => IntInv  BY IntInit
<1>2. IntInv /\ [I!Next]_(I!lifetimeVars) => IntInv'  BY IntStep
<1>3. IntInv => I!NoLeak  BY IntNoLeak
<1> QED  BY <1>1, <1>2, <1>3, PTL DEF I!Spec

-----------------------------------------------------------------------------
(* The caches of strings and imports.                                            *)

CacheLegal == /\ IsFiniteSet(Caller) /\ Home \in [Addr -> 0 .. 1]
              /\ Text # {} /\ Value # {} /\ Empty \notin Addr \cup K!Object

CallPcs == {"none", "probe", "miss", "lock", "use", "import", "store"}
CallType == [pc : CallPcs, addr : Addr \cup {Empty}, literal : BOOLEAN, i : 0 .. 1,
             vacancy : BOOLEAN, obj : K!Object \cup {Empty}, owned : BOOLEAN]
EntryType == [key : Addr \cup {Empty}, str : Text \cup {Empty}]
CacheTypes == /\ chars \in [Addr -> Text] /\ attr \in Value /\ import \in Value \cup {Empty}
              /\ slots \in [0 .. 1 -> EntryType] /\ call \in [Caller -> CallType]
              /\ refs \in [K!Object -> Nat] /\ lifeline \in [K!Object -> Nat]

\* What a call at some point knows: the object it made spells what it was asked for, and
\* one that it uses is its own or listed by the lifeline.
CallSound(t) ==
    /\ call[t].pc \in {"none", "import", "store"} => call[t].addr = Empty
    /\ call[t].pc \in {"probe", "miss", "lock"} => call[t].addr \in Addr
    /\ call[t].pc \in {"lock", "store"} => call[t].owned
    /\ call[t].pc \notin {"lock", "store", "use"} => ~call[t].owned
    /\ call[t].pc = "lock" => call[t].obj = chars[call[t].addr]
    /\ call[t].pc = "store" => call[t].obj \in Value
    /\ call[t].pc = "use" =>
          /\ call[t].obj \in K!Object
          /\ call[t].addr # Empty => call[t].obj = chars[call[t].addr]
          /\ call[t].owned \/ lifeline[call[t].obj] > 0
EntrySound(i) == slots[i] = K!NoEntry \/ (slots[i].key \in Addr /\ slots[i].str \in Text)
NoTwin == slots[0] # K!NoEntry => slots[0] # slots[1]

\* The counts, as sums.
One(b) == IF b THEN 1 ELSE 0
Owns(c, t, x) == c[t].obj = x /\ c[t].owned
OwnersIn(c, x) == {t \in Caller : c[t].obj = x /\ c[t].owned}
Listed == \A x \in K!Object :
    lifeline[x] = One(slots[0].str = x) + One(slots[1].str = x) + One(import = x)
RefsExact == \A x \in K!Object :
    refs[x] = lifeline[x] + Cardinality(OwnersIn(call, x)) + One(x = attr)

CacheInv == /\ CacheTypes /\ RefsExact /\ Listed /\ NoTwin
            /\ \A t \in Caller : CallSound(t)
            /\ \A i \in 0 .. 1 : EntrySound(i)

LEMMA OwnersFinite ==
    ASSUME CacheLegal, NEW c, NEW x
    PROVE  IsFiniteSet(OwnersIn(c, x)) /\ Cardinality(OwnersIn(c, x)) \in Nat
<1>1. OwnersIn(c, x) \subseteq Caller  BY DEF OwnersIn
<1> QED  BY <1>1, FS_Subset, FS_CardinalityType DEF CacheLegal

\* The call of one thread changes: what it owned before makes room for what it owns then.
LEMMA OwnersMove ==
    ASSUME CacheLegal, NEW t \in Caller, NEW c, NEW d, NEW x,
           \A u \in Caller : u # t => d[u] = c[u]
    PROVE  /\ Cardinality(OwnersIn(d, x)) + One(Owns(c, t, x))
              = Cardinality(OwnersIn(c, x)) + One(Owns(d, t, x))
           /\ Cardinality(OwnersIn(d, x)) \in Nat /\ Cardinality(OwnersIn(c, x)) \in Nat
<1> DEFINE Rest == OwnersIn(c, x) \ {t}
<1>1. IsFiniteSet(Rest) /\ Cardinality(Rest) \in Nat /\ t \notin Rest
  BY OwnersFinite, FS_Subset, FS_CardinalityType
<1>2. /\ OwnersIn(c, x) = (IF Owns(c, t, x) THEN Rest \cup {t} ELSE Rest)
      /\ OwnersIn(d, x) = (IF Owns(d, t, x) THEN Rest \cup {t} ELSE Rest)
  BY DEF OwnersIn, Owns
<1>3. Cardinality(Rest \cup {t}) = Cardinality(Rest) + 1  BY <1>1, FS_AddElement
<1> HIDE DEF Rest
<1>4. /\ Cardinality(OwnersIn(c, x)) = Cardinality(Rest) + One(Owns(c, t, x))
      /\ Cardinality(OwnersIn(d, x)) = Cardinality(Rest) + One(Owns(d, t, x))
  BY <1>1, <1>2, <1>3 DEF One
<1> QED  BY <1>1, <1>4 DEF One

LEMMA OwnersSome ==
    ASSUME CacheLegal, NEW t \in Caller, NEW c, NEW x, Owns(c, t, x)
    PROVE  Cardinality(OwnersIn(c, x)) > 0
<1>1. t \in OwnersIn(c, x)  BY DEF Owns, OwnersIn
<1> QED  BY <1>1, OwnersFinite, FS_EmptySet

LEMMA EntriesWith ==
    ASSUME NEW x
    PROVE  Cardinality({i \in 0 .. 1 : slots[i].str = x}) = One(slots[0].str = x) + One(slots[1].str = x)
<1>1. Cardinality({}) = 0 /\ Cardinality({0}) = 1 /\ Cardinality({1}) = 1
  BY FS_EmptySet, FS_Singleton
<1>2. Cardinality({0, 1}) = 2
  <2>1. IsFiniteSet({0}) /\ {0, 1} = {0} \cup {1}  BY FS_Singleton
  <2> QED  BY <2>1, <1>1, FS_AddElement
<1>3. {i \in 0 .. 1 : slots[i].str = x} = (IF slots[0].str = x THEN IF slots[1].str = x THEN {0, 1} ELSE {0}
                                       ELSE IF slots[1].str = x THEN {1} ELSE {})
  BY SMTT(30)
<1> QED  BY <1>1, <1>2, <1>3 DEF One

LEMMA CacheCardinality == \A S : K!Cardinality(S) = Cardinality(S)
BY DEF K!Cardinality, Cardinality

-----------------------------------------------------------------------------
LEMMA CacheInit == ASSUME CacheLegal, K!Init PROVE CacheInv
<1> USE DEF K!Object
<1>1. /\ chars = [a \in Addr |-> CHOOSE x \in Text : TRUE] /\ import = Empty
      /\ slots = [i \in 0 .. 1 |-> K!NoEntry] /\ attr = CHOOSE v \in Value : TRUE
      /\ refs = [x \in K!Object |-> IF x = attr THEN 1 ELSE 0]
      /\ lifeline = [x \in K!Object |-> 0] /\ call = [t \in Caller |-> K!NoCall]
  BY DEF K!Init
<1>2. (CHOOSE x \in Text : TRUE) \in Text /\ (CHOOSE v \in Value : TRUE) \in Value
  BY DEF CacheLegal
<1>3. K!NoEntry \in EntryType /\ K!NoCall \in CallType
  BY DEF K!NoEntry, EntryType, K!NoCall, CallType, CallPcs
<1>4. CacheTypes  BY <1>1, <1>2, <1>3 DEF CacheTypes
<1>5. RefsExact
  <2> SUFFICES ASSUME NEW x \in K!Object
               PROVE  refs[x] = lifeline[x] + Cardinality(OwnersIn(call, x)) + One(x = attr)
    BY DEF RefsExact
  <2>1. OwnersIn(call, x) = {}  BY <1>1 DEF OwnersIn, K!NoCall
  <2>2. Cardinality(OwnersIn(call, x)) = 0  BY <2>1, FS_EmptySet
  <2> QED  BY <2>2, <1>1 DEF One
<1>6. Listed  BY <1>1 DEF Listed, One, K!NoEntry, CacheLegal
<1>7. NoTwin  BY <1>1 DEF NoTwin
<1>8. \A t \in Caller : CallSound(t)  BY <1>1 DEF CallSound, K!NoCall
<1>9. \A i \in 0 .. 1 : EntrySound(i)  BY <1>1 DEF EntrySound
<1> QED  BY <1>4, <1>5, <1>6, <1>7, <1>8, <1>9 DEF CacheInv

\* The reference count of every object follows the call of one thread.
LEMMA RefsFollow ==
    ASSUME CacheLegal, CacheInv, NEW t \in Caller,
           \A u \in Caller : u # t => call'[u] = call[u],
           attr' = attr, lifeline' \in [K!Object -> Nat], refs' \in [K!Object -> Int],
           \A x \in K!Object : refs'[x] + lifeline[x] + One(Owns(call, t, x))
                             = refs[x] + lifeline'[x] + One(Owns(call', t, x))
    PROVE  RefsExact' /\ refs' \in [K!Object -> Nat]
<1>1. ASSUME NEW x \in K!Object
      PROVE  /\ refs'[x] = lifeline'[x] + Cardinality(OwnersIn(call', x)) + One(x = attr')
             /\ refs'[x] \in Nat
  <2>1. refs[x] = lifeline[x] + Cardinality(OwnersIn(call, x)) + One(x = attr)
    BY DEF CacheInv, RefsExact
  <2>2. /\ Cardinality(OwnersIn(call', x)) + One(Owns(call, t, x))
           = Cardinality(OwnersIn(call, x)) + One(Owns(call', t, x))
        /\ Cardinality(OwnersIn(call', x)) \in Nat /\ Cardinality(OwnersIn(call, x)) \in Nat
    BY OwnersMove
  <2>3. refs[x] \in Nat /\ lifeline[x] \in Nat /\ lifeline'[x] \in Nat /\ refs'[x] \in Int
    BY DEF CacheInv, CacheTypes
  <2>4. refs'[x] + lifeline[x] + One(Owns(call, t, x))
        = refs[x] + lifeline'[x] + One(Owns(call', t, x))
    OBVIOUS
  <2> QED  BY <2>1, <2>2, <2>3, <2>4 DEF One
<1>2. RefsExact'  BY <1>1 DEF RefsExact
<1> QED  BY <1>1, <1>2

\* A thread's call moves on, and nothing else that the others rely on changes.
LEMMA CallsFollow ==
    ASSUME CacheInv, NEW t \in Caller, NEW c \in CallType, call' = [call EXCEPT ![t] = c],
           chars' = chars, \A x \in K!Object : lifeline'[x] >= lifeline[x],
           lifeline' \in [K!Object -> Nat], CallSound(t)'
    PROVE  /\ call' \in [Caller -> CallType] /\ call'[t] = c
           /\ \A u \in Caller : u # t => call'[u] = call[u]
           /\ \A u \in Caller : CallSound(u)'
<1>1. call' \in [Caller -> CallType] /\ call'[t] = c
      /\ \A u \in Caller : u # t => call'[u] = call[u]
  BY DEF CacheInv, CacheTypes
<1>2. ASSUME NEW u \in Caller, u # t PROVE CallSound(u)'
  <2>1. call'[u] = call[u] /\ CallSound(u)  BY <1>1, <1>2 DEF CacheInv
  <2>2. \A x \in K!Object : lifeline[x] > 0 => lifeline'[x] > 0  BY DEF CacheInv, CacheTypes
  <2> QED  BY <2>1, <2>2 DEF CallSound
<1> QED  BY <1>1, <1>2

LEMMA CacheStep ==
    ASSUME CacheLegal, CacheInv, NEW t \in Caller, NEW c \in CallType,
           call' = [call EXCEPT ![t] = c], chars' = chars, attr' = attr,
           lifeline' \in [K!Object -> Nat], refs' \in [K!Object -> Int],
           \A x \in K!Object : lifeline'[x] >= lifeline[x],
           \A x \in K!Object : refs'[x] + lifeline[x] + One(Owns(call, t, x))
                             = refs[x] + lifeline'[x] + One(Owns(call', t, x)),
           slots' \in [0 .. 1 -> EntryType], import' \in Value \cup {Empty},
           Listed', NoTwin', \A i \in 0 .. 1 : EntrySound(i)', CallSound(t)'
    PROVE  CacheInv'
<1>1. /\ call' \in [Caller -> CallType] /\ \A u \in Caller : u # t => call'[u] = call[u]
      /\ \A u \in Caller : CallSound(u)'
  BY CallsFollow
<1>2. RefsExact' /\ refs' \in [K!Object -> Nat]  BY <1>1, RefsFollow
<1>3. CacheTypes'  BY <1>1, <1>2 DEF CacheTypes, CacheInv
<1> QED  BY <1>1, <1>2, <1>3 DEF CacheInv

\* Only the call and what it owns change.
LEMMA CallStep ==
    ASSUME CacheLegal, CacheInv, NEW t \in Caller, NEW c \in CallType,
           call' = [call EXCEPT ![t] = c], UNCHANGED <<chars, attr, slots, import, lifeline>>,
           refs' \in [K!Object -> Int],
           \A x \in K!Object : refs'[x] + One(Owns(call, t, x)) = refs[x] + One(Owns(call', t, x)),
           CallSound(t)'
    PROVE  CacheInv'
<1>1. /\ chars' = chars /\ attr' = attr /\ slots' = slots /\ import' = import
      /\ lifeline' = lifeline
  OBVIOUS
<1>2. /\ lifeline' \in [K!Object -> Nat] /\ slots' \in [0 .. 1 -> EntryType]
      /\ import' \in Value \cup {Empty} /\ \A x \in K!Object : refs[x] \in Nat
  BY <1>1 DEF CacheInv, CacheTypes
<1>3. \A x \in K!Object : lifeline[x] \in Nat /\ lifeline'[x] = lifeline[x]
  BY <1>1 DEF CacheInv, CacheTypes
<1>4. Listed' /\ NoTwin' /\ \A i \in 0 .. 1 : EntrySound(i)'
  BY <1>1 DEF CacheInv, Listed, NoTwin, EntrySound
<1>5. \A x \in K!Object : refs'[x] + lifeline[x] + One(Owns(call, t, x))
                        = refs[x] + lifeline'[x] + One(Owns(call', t, x))
  <2> SUFFICES ASSUME NEW x \in K!Object
               PROVE  refs'[x] + lifeline[x] + One(Owns(call, t, x))
                    = refs[x] + lifeline'[x] + One(Owns(call', t, x))
    OBVIOUS
  <2>1. refs'[x] \in Int /\ refs[x] \in Nat  BY <1>2
  <2>2. One(Owns(call, t, x)) \in Nat /\ One(Owns(call', t, x)) \in Nat  BY DEF One
  <2>3. refs'[x] + One(Owns(call, t, x)) = refs[x] + One(Owns(call', t, x))  OBVIOUS
  <2>4. lifeline[x] \in Nat /\ lifeline'[x] = lifeline[x]  BY <1>3
  <2> HIDE DEF One, Owns
  <2> QED  BY ONLY <2>1, <2>2, <2>3, <2>4
<1>6. \A x \in K!Object : lifeline'[x] >= lifeline[x]  BY <1>3
<1> QED  BY <1>1, <1>2, <1>4, <1>5, <1>6, CacheStep

\* The call of t, once it went on to pc with an object x of its own, or one it borrows.
Owning(t, pc, x) ==
    [K!NoCall EXCEPT !.pc = pc, !.addr = call[t].addr, !.obj = x, !.owned = TRUE]
Borrowing(t, pc, x) ==
    [K!NoCall EXCEPT !.pc = pc, !.addr = call[t].addr, !.obj = x, !.owned = FALSE]

LEMMA OwningIs ==
    ASSUME CacheInv, NEW t \in Caller, NEW pc \in CallPcs, NEW x \in K!Object
    PROVE  LET c == Owning(t, pc, x)
           IN  c \in CallType /\ c.pc = pc /\ c.addr = call[t].addr /\ c.obj = x /\ c.owned
<1>1. call[t].addr \in Addr \cup {Empty}  BY DEF CallType, CacheInv, CacheTypes
<1>2. FALSE \in BOOLEAN /\ 0 \in 0 .. 1  OBVIOUS
<1> QED  BY <1>1, <1>2 DEF K!NoCall, CallType, Owning

LEMMA BorrowingIs ==
    ASSUME CacheInv, NEW t \in Caller, NEW pc \in CallPcs, NEW x \in K!Object
    PROVE  LET c == Borrowing(t, pc, x)
           IN  c \in CallType /\ c.pc = pc /\ c.addr = call[t].addr /\ c.obj = x /\ ~c.owned
<1>1. call[t].addr \in Addr \cup {Empty}  BY DEF CallType, CacheInv, CacheTypes
<1>2. FALSE \in BOOLEAN /\ 0 \in 0 .. 1  OBVIOUS
<1> QED  BY <1>1, <1>2 DEF K!NoCall, CallType, Borrowing

LEMMA Ended ==
    ASSUME CacheInv, NEW t \in Caller, call' = [call EXCEPT ![t] = K!NoCall]
    PROVE  K!NoCall \in CallType /\ call'[t] = K!NoCall /\ CallSound(t)'
<1>1. K!NoCall \in CallType /\ call'[t] = K!NoCall
  BY DEF K!NoCall, CallType, CallPcs, CacheInv, CacheTypes
<1> QED  BY <1>1 DEF CallSound, K!NoCall

\* Neither before nor after does the call own an object.
LEMMA CallFree ==
    ASSUME CacheLegal, CacheInv, NEW t \in Caller, NEW c \in CallType,
           call' = [call EXCEPT ![t] = c], UNCHANGED <<chars, attr, slots, import, lifeline, refs>>,
           ~call[t].owned, ~c.owned, CallSound(t)'
    PROVE  CacheInv'
<1>1. call'[t] = c  BY DEF CacheInv, CacheTypes
<1>2. \A x : ~Owns(call, t, x) /\ ~Owns(call', t, x)  BY <1>1 DEF Owns
<1>3. refs' = refs /\ refs' \in [K!Object -> Int]  BY DEF CacheInv, CacheTypes
<1>4. \A x \in K!Object : refs'[x] + One(Owns(call, t, x)) = refs[x] + One(Owns(call', t, x))
  BY <1>2, <1>3 DEF One
<1>5. UNCHANGED <<chars, attr, slots, import, lifeline>>  OBVIOUS
<1> QED  BY ONLY CacheLegal, CacheInv, t \in Caller, c \in CallType, <1>3, <1>4, <1>5, CallStep,
         call' = [call EXCEPT ![t] = c], CallSound(t)'

-----------------------------------------------------------------------------
LEMMA AskInv ==
    ASSUME CacheLegal, CacheInv, NEW t \in Caller, NEW a \in Addr, NEW l \in BOOLEAN, K!Ask(t, a, l)
    PROVE  CacheInv'
<1> DEFINE c == [K!NoCall EXCEPT !.pc = "probe", !.addr = a, !.literal = l, !.i = Home[a]]
<1>1. /\ call[t].pc = "none" /\ call' = [call EXCEPT ![t] = c] /\ refs' = refs
      /\ UNCHANGED <<chars, attr, slots, import, lifeline>>
  BY DEF K!Ask
<1>2. c \in CallType /\ c.pc = "probe" /\ c.addr = a /\ ~c.owned
  BY DEF K!NoCall, CallType, CallPcs, CacheLegal
<1>3. call'[t] = c  BY <1>1 DEF CacheInv, CacheTypes
<1>4. ~call[t].owned /\ refs' \in [K!Object -> Int]
  BY <1>1 DEF CacheInv, CacheTypes, CallSound
<1>5. CallSound(t)'  BY <1>2, <1>3 DEF CallSound
<1> QED  BY <1>1, <1>2, <1>4, <1>5, CallFree

\* An entry that matches lists a string that spells what was asked for.
LEMMA Matched ==
    ASSUME CacheLegal, CacheInv, NEW a \in Addr, NEW i \in 0 .. 1, K!Matching(slots[i], a)
    PROVE  /\ slots[i] # K!NoEntry /\ slots[i].str = chars[a]
           /\ chars[a] \in Text /\ chars[a] \in K!Object /\ lifeline[chars[a]] > 0
<1>1. /\ slots[i].key = a /\ slots[i].str = chars[a] /\ chars[a] \in Text
  BY DEF K!Matching, CacheInv, CacheTypes
<1>2. slots[i] # K!NoEntry  BY <1>1 DEF K!NoEntry, CacheLegal
<1>3. chars[a] \in K!Object  BY <1>1 DEF K!Object
<1>4. lifeline[chars[a]] = One(slots[0].str = chars[a]) + One(slots[1].str = chars[a])
                           + One(import = chars[a])
  BY <1>3 DEF CacheInv, Listed
<1>5. i = 0 \/ i = 1  OBVIOUS
<1> QED  BY <1>1, <1>2, <1>3, <1>4, <1>5 DEF One

LEMMA ProbeInv ==
    ASSUME CacheLegal, CacheInv, NEW t \in Caller, K!Probe(t) PROVE CacheInv'
<1> DEFINE a == call[t].addr
           e == slots[call[t].i]
           v == call[t].vacancy \/ e = K!NoEntry
           c == [call[t] EXCEPT !.vacancy = v, !.i = 1 - @,
                    !.pc = IF call[t].i = Home[a] THEN "probe" ELSE "miss"]
<1>1. /\ call[t].pc = "probe" /\ refs' = refs
      /\ UNCHANGED <<chars, attr, slots, import, lifeline>>
      /\ K!Matching(e, a) => call' = [call EXCEPT ![t] = Borrowing(t, "use", e.str)]
      /\ ~K!Matching(e, a) => call' = [call EXCEPT ![t] = c]
  BY DEF K!Probe, K!Return, K!Goto, Owning, Borrowing, CacheInv, CacheTypes
<1>2. /\ a \in Addr /\ ~call[t].owned /\ call[t].i \in 0 .. 1 /\ call[t] \in CallType
      /\ refs' \in [K!Object -> Int] /\ chars' = chars /\ lifeline' = lifeline
  BY <1>1 DEF CacheInv, CacheTypes, CallSound, CallType
<1>3. CASE K!Matching(e, a)
  <2>1. e.str = chars[a] /\ e.str \in K!Object /\ lifeline[chars[a]] > 0
    BY <1>2, <1>3, Matched
  <2>2. "use" \in CallPcs /\ FALSE \in BOOLEAN /\ e.str \in K!Object \cup {Empty}
    BY <2>1 DEF CallPcs
  <2>3. PICK d \in CallType :
            /\ call' = [call EXCEPT ![t] = d] /\ call'[t] = d
            /\ d.pc = "use" /\ d.addr = call[t].addr /\ d.obj = e.str /\ ~d.owned
    <3> DEFINE x == e.str
    <3>1. call' = [call EXCEPT ![t] = Borrowing(t, "use", x)]  BY <1>1, <1>3
    <3>2. "use" \in CallPcs /\ x \in K!Object  BY <2>1 DEF CallPcs
    <3> HIDE DEF x
    <3>3. \E d \in CallType : /\ call' = [call EXCEPT ![t] = d] /\ call'[t] = d
              /\ d.pc = "use" /\ d.addr = call[t].addr /\ d.obj = x /\ ~d.owned
      <4>1. x \in K!Object /\ "use" \in CallPcs  BY <3>1, <3>2
      <4>2. call' = [call EXCEPT ![t] = Borrowing(t, "use", x)]  BY <3>1, <3>2
      <4>3. call'[t] = Borrowing(t, "use", x)  BY <4>2 DEF CacheInv, CacheTypes
      <4> QED  BY <4>1, <4>2, <4>3, BorrowingIs
    <3> QED  BY <3>3 DEF x
  <2>4. CallSound(t)'  BY <1>2, <2>1, <2>3 DEF CallSound
  <2> QED  BY <1>1, <1>2, <2>3, <2>4, CallFree
<1>4. CASE ~K!Matching(e, a)
  <2>1. 1 - call[t].i \in 0 .. 1 /\ v \in BOOLEAN  BY <1>2 DEF CallType
  <2>2. /\ c \in CallType /\ c.pc \in {"probe", "miss"} /\ c.addr = a /\ ~c.owned
    BY <1>2, <2>1 DEF CallType, CallPcs
  <2>3. call' = [call EXCEPT ![t] = c] /\ call'[t] = c
    BY <1>1, <1>4 DEF CacheInv, CacheTypes
  <2> HIDE DEF c
  <2>4. CallSound(t)'  BY <1>2, <2>2, <2>3 DEF CallSound
  <2> QED  BY <1>1, <1>2, <2>2, <2>3, <2>4, CallFree
<1> QED  BY <1>3, <1>4

LEMMA PlainInv ==
    ASSUME CacheLegal, CacheInv, NEW t \in Caller, K!Plain(t) PROVE CacheInv'
<1>1. /\ call[t].pc = "miss" /\ call' = [call EXCEPT ![t] = K!NoCall] /\ refs' = refs
      /\ UNCHANGED <<chars, attr, slots, import, lifeline>>
  BY DEF K!Plain
<1>2. K!NoCall \in CallType /\ call'[t] = K!NoCall /\ CallSound(t)'  BY <1>1, Ended
<1>3. ~call[t].owned /\ ~K!NoCall.owned
  BY <1>1 DEF CacheInv, CallSound, K!NoCall
<1> QED  BY <1>1, <1>2, <1>3, CallFree

LEMMA InternInv ==
    ASSUME CacheLegal, CacheInv, NEW t \in Caller, K!Intern(t) PROVE CacheInv'
<1> DEFINE x == chars[call[t].addr]
<1>1. /\ call[t].pc = "miss" /\ call' = [call EXCEPT ![t] = Owning(t, "lock", x)]
      /\ refs' = [refs EXCEPT ![x] = @ + 1]
      /\ UNCHANGED <<chars, attr, slots, import, lifeline>>
  BY DEF K!Intern, K!Goto, Owning, Borrowing, K!Add
<1>2. call[t].addr \in Addr /\ ~call[t].owned /\ x \in K!Object /\ chars' = chars
      /\ "lock" \in CallPcs /\ \A y \in K!Object : refs[y] \in Nat
  BY <1>1 DEF CacheInv, CacheTypes, CallSound, K!Object, CallPcs
<1> HIDE DEF x
<1>3. PICK c \in CallType : /\ call' = [call EXCEPT ![t] = c] /\ call'[t] = c
                            /\ c.pc = "lock" /\ c.addr = call[t].addr /\ c.obj = x /\ c.owned
  <2>1. x \in K!Object /\ "lock" \in CallPcs  BY <1>1, <1>2
  <2>2. call' = [call EXCEPT ![t] = Owning(t, "lock", x)]  BY <1>1, <1>2
  <2>3. call'[t] = Owning(t, "lock", x)  BY <2>2 DEF CacheInv, CacheTypes
  <2> QED  BY <2>1, <2>2, <2>3, OwningIs
<1>4. CallSound(t)'  BY <1>2, <1>3 DEF CallSound, x
<1>5. refs' \in [K!Object -> Int]
      /\ \A y \in K!Object : refs'[y] = IF y = x THEN refs[y] + 1 ELSE refs[y]
  BY <1>1, <1>2 DEF CacheInv, CacheTypes
<1>6. \A y : ~Owns(call, t, y) /\ (Owns(call', t, y) <=> y = x)  BY <1>2, <1>3 DEF Owns
<1>7. \A y \in K!Object : refs'[y] + One(Owns(call, t, y)) = refs[y] + One(Owns(call', t, y))
  BY <1>2, <1>5, <1>6 DEF One
<1> QED  BY <1>1, <1>3, <1>4, <1>5, <1>7, CallStep

LEMMA GiveBackInv ==
    ASSUME CacheLegal, CacheInv, NEW t \in Caller, K!Release(t) PROVE CacheInv'
<1> DEFINE x == call[t].obj
<1>1. /\ call[t].pc = "use" /\ call' = [call EXCEPT ![t] = K!NoCall]
      /\ call[t].owned => refs' = [refs EXCEPT ![x] = @ + -1]
      /\ ~call[t].owned => refs' = refs
      /\ UNCHANGED <<chars, attr, slots, import, lifeline>>
  BY DEF K!Release, K!Add
<1>2. x \in K!Object /\ \A y \in K!Object : refs[y] \in Nat
  BY <1>1 DEF CacheInv, CacheTypes, CallSound
<1>3. K!NoCall \in CallType /\ call'[t] = K!NoCall /\ CallSound(t)'  BY <1>1, Ended
<1>4. refs' \in [K!Object -> Int] /\ \A y \in K!Object :
         refs'[y] = IF call[t].owned /\ y = x THEN refs[y] - 1 ELSE refs[y]
  BY <1>1, <1>2 DEF CacheInv, CacheTypes
<1>5. \A y : (Owns(call, t, y) <=> (call[t].owned /\ y = x)) /\ ~Owns(call', t, y)
  BY <1>3 DEF Owns, K!NoCall
<1> HIDE DEF x
<1>6. \A y \in K!Object : refs'[y] + One(Owns(call, t, y)) = refs[y] + One(Owns(call', t, y))
  BY <1>2, <1>4, <1>5 DEF One
<1> QED  BY <1>1, <1>3, <1>4, <1>6, CallStep

LEMMA GetInv ==
    ASSUME CacheLegal, CacheInv, NEW t \in Caller, K!Get(t) PROVE CacheInv'
<1>1. /\ call[t].pc = "none" /\ UNCHANGED <<chars, attr, slots, import, lifeline, refs>>
      /\ import # Empty => call' = [call EXCEPT ![t] = Borrowing(t, "use", import)]
      /\ import = Empty => call' = [call EXCEPT ![t].pc = "import"]
  BY DEF K!Get, K!Return, K!Goto, Owning, Borrowing
<1>2. call[t] \in CallType /\ call[t].addr = Empty /\ ~call[t].owned /\ chars' = chars
      /\ lifeline' = lifeline
  BY <1>1 DEF CacheInv, CacheTypes, CallSound
<1>3. CASE import # Empty
  <2>1. import \in K!Object /\ lifeline[import] > 0
    <3>1. import \in K!Object  BY <1>3 DEF CacheInv, CacheTypes, K!Object
    <3>2. lifeline[import] = One(slots[0].str = import) + One(slots[1].str = import) + One(import = import)
      BY <3>1 DEF CacheInv, Listed
    <3> QED  BY <3>1, <3>2 DEF One
  <2>2. "use" \in CallPcs  BY DEF CallPcs
  <2>3. PICK c \in CallType : /\ call' = [call EXCEPT ![t] = c] /\ call'[t] = c
                              /\ c.pc = "use" /\ c.addr = call[t].addr /\ c.obj = import /\ ~c.owned
    <3>1. import \in K!Object /\ "use" \in CallPcs  BY <1>1, <1>3, <2>1, <2>2
    <3>2. call' = [call EXCEPT ![t] = Borrowing(t, "use", import)]  BY <1>1, <1>3, <2>1, <2>2
    <3>3. call'[t] = Borrowing(t, "use", import)  BY <3>2 DEF CacheInv, CacheTypes
    <3> QED  BY <3>1, <3>2, <3>3, BorrowingIs
  <2>4. CallSound(t)'  BY <1>2, <2>1, <2>3 DEF CallSound
  <2> QED  BY <1>1, <1>2, <2>3, <2>4, CallFree
<1>4. CASE import = Empty
  <2> DEFINE c == [call[t] EXCEPT !.pc = "import"]
  <2>1. c \in CallType /\ c.pc = "import" /\ c.addr = Empty /\ ~c.owned
    BY <1>2 DEF CallType, CallPcs
  <2>2. call' = [call EXCEPT ![t] = c] /\ call'[t] = c
    BY <1>1, <1>4 DEF CacheInv, CacheTypes
  <2> HIDE DEF c
  <2>3. CallSound(t)'  BY <2>1, <2>2 DEF CallSound
  <2> QED  BY <1>1, <1>2, <2>1, <2>2, <2>3, CallFree
<1> QED  BY <1>3, <1>4

LEMMA ImportInv ==
    ASSUME CacheLegal, CacheInv, NEW t \in Caller, K!Import(t) PROVE CacheInv'
<1>1. /\ call[t].pc = "import" /\ UNCHANGED <<chars, attr, slots, import, lifeline>>
      /\ \/ /\ refs' = [refs EXCEPT ![attr] = @ + 1]
            /\ call' = [call EXCEPT ![t] = Owning(t, "store", attr)]
         \/ refs' = refs /\ call' = [call EXCEPT ![t] = K!NoCall]
  BY DEF K!Import, K!Goto, Owning, Borrowing, K!Add
<1>2. /\ call[t].addr = Empty /\ ~call[t].owned /\ attr \in Value /\ attr \in K!Object
      /\ "store" \in CallPcs /\ \A y \in K!Object : refs[y] \in Nat
  BY <1>1 DEF CacheInv, CacheTypes, CallSound, K!Object, CallPcs
<1>3. CASE /\ refs' = [refs EXCEPT ![attr] = @ + 1]
           /\ call' = [call EXCEPT ![t] = Owning(t, "store", attr)]
  <2>1. PICK c \in CallType : /\ call' = [call EXCEPT ![t] = c] /\ call'[t] = c
                              /\ c.pc = "store" /\ c.addr = call[t].addr /\ c.obj = attr /\ c.owned
    <3>1. attr \in K!Object /\ "store" \in CallPcs  BY <1>2, <1>3
    <3>2. call' = [call EXCEPT ![t] = Owning(t, "store", attr)]  BY <1>2, <1>3
    <3>3. call'[t] = Owning(t, "store", attr)  BY <3>2 DEF CacheInv, CacheTypes
    <3> QED  BY <3>1, <3>2, <3>3, OwningIs
  <2>2. CallSound(t)'  BY <1>2, <2>1 DEF CallSound
  <2>3. refs' \in [K!Object -> Int]
        /\ \A y \in K!Object : refs'[y] = IF y = attr THEN refs[y] + 1 ELSE refs[y]
    BY <1>2, <1>3 DEF CacheInv, CacheTypes
  <2>4. \A y : ~Owns(call, t, y) /\ (Owns(call', t, y) <=> y = attr)
    BY <1>2, <2>1 DEF Owns
  <2>5. \A y \in K!Object : refs'[y] + One(Owns(call, t, y)) = refs[y] + One(Owns(call', t, y))
    BY <1>2, <2>3, <2>4 DEF One
  <2> QED  BY <1>1, <2>1, <2>2, <2>3, <2>5, CallStep
<1>4. CASE refs' = refs /\ call' = [call EXCEPT ![t] = K!NoCall]
  <2>1. K!NoCall \in CallType /\ call'[t] = K!NoCall /\ CallSound(t)'  BY <1>4, Ended
  <2>2. ~K!NoCall.owned  BY DEF K!NoCall
  <2> QED  BY <1>1, <1>2, <1>4, <2>1, <2>2, CallFree
<1> QED  BY <1>1, <1>3, <1>4

LEMMA StoreInv ==
    ASSUME CacheLegal, CacheInv, NEW t \in Caller, K!Store(t) PROVE CacheInv'
<1> DEFINE o == call[t].obj
           Kept == /\ import # Empty /\ refs' = [refs EXCEPT ![o] = @ + -1]
                   /\ call' = [call EXCEPT ![t] = Borrowing(t, "use", import)]
                   /\ UNCHANGED <<import, lifeline>>
           Failed == /\ refs' = [refs EXCEPT ![o] = @ + -1] /\ UNCHANGED <<import, lifeline>>
                     /\ call' = [call EXCEPT ![t] = K!NoCall]
           Stored == /\ import = Empty /\ lifeline' = [lifeline EXCEPT ![o] = @ + 1]
                     /\ import' = o /\ refs' = refs
                     /\ call' = [call EXCEPT ![t] = Borrowing(t, "use", o)]
<1>1. /\ call[t].pc = "store" /\ UNCHANGED <<chars, attr, slots>>
      /\ Kept \/ Failed \/ Stored
  BY DEF K!Store, K!Return, K!Goto, Owning, Borrowing, K!Add
<1>2. /\ call[t].addr = Empty /\ call[t].owned /\ o \in Value /\ o \in K!Object
      /\ "use" \in CallPcs /\ \A y \in K!Object : refs[y] \in Nat
      /\ import \in Value \cup {Empty} /\ \A y \in K!Object : lifeline[y] \in Nat
  BY <1>1 DEF CacheInv, CacheTypes, CallSound, K!Object, CallPcs
<1>3. \A y : Owns(call, t, y) <=> y = o  BY <1>2 DEF Owns
<1> HIDE DEF o
<1>4. ASSUME refs' = [refs EXCEPT ![o] = @ + -1], ~call'[t].owned
      PROVE  /\ refs' \in [K!Object -> Int]
             /\ \A y \in K!Object : refs'[y] + One(Owns(call, t, y)) = refs[y] + One(Owns(call', t, y))
  <2>1. \A y \in K!Object : refs'[y] = IF y = o THEN refs[y] - 1 ELSE refs[y]
    BY <1>2, <1>4 DEF CacheInv, CacheTypes
  <2>2. refs' \in [K!Object -> Int]  BY <1>2, <1>4 DEF CacheInv, CacheTypes
  <2>3. \A y : ~Owns(call', t, y)  BY <1>4 DEF Owns
  <2> QED  BY <1>2, <1>3, <2>1, <2>2, <2>3 DEF One
<1>5. CASE Kept
  <2>1. import \in K!Object /\ lifeline'[import] > 0
    <3>1. import \in K!Object  BY <1>2, <1>5 DEF K!Object
    <3>2. lifeline[import] = One(slots[0].str = import) + One(slots[1].str = import) + One(import = import)
      BY <3>1 DEF CacheInv, Listed
    <3> QED  BY <3>1, <3>2, <1>5 DEF One
  <2>2. PICK c \in CallType : /\ call' = [call EXCEPT ![t] = c] /\ call'[t] = c
                              /\ c.pc = "use" /\ c.addr = call[t].addr /\ c.obj = import /\ ~c.owned
    <3>1. import \in K!Object /\ "use" \in CallPcs  BY <1>2, <1>5, <2>1
    <3>2. call' = [call EXCEPT ![t] = Borrowing(t, "use", import)]  BY <1>2, <1>5, <2>1
    <3>3. call'[t] = Borrowing(t, "use", import)  BY <3>2 DEF CacheInv, CacheTypes
    <3> QED  BY <3>1, <3>2, <3>3, BorrowingIs
  <2>3. CallSound(t)'  BY <1>2, <2>1, <2>2 DEF CallSound
  <2>4. UNCHANGED <<chars, attr, slots, import, lifeline>>  BY <1>1, <1>5
  <2>5. refs' \in [K!Object -> Int] /\ \A y \in K!Object :
           refs'[y] + One(Owns(call, t, y)) = refs[y] + One(Owns(call', t, y))
    BY <1>4, <1>5, <2>2
  <2> QED  BY <2>2, <2>3, <2>4, <2>5, CallStep
<1>6. CASE Failed
  <2>1. K!NoCall \in CallType /\ call'[t] = K!NoCall /\ CallSound(t)'  BY <1>6, Ended
  <2>2. ~call'[t].owned  BY <2>1 DEF K!NoCall
  <2>3. UNCHANGED <<chars, attr, slots, import, lifeline>>  BY <1>1, <1>6
  <2>4. refs' \in [K!Object -> Int] /\ \A y \in K!Object :
           refs'[y] + One(Owns(call, t, y)) = refs[y] + One(Owns(call', t, y))
    BY <1>4, <1>6, <2>2
  <2> QED  BY <1>6, <2>1, <2>3, <2>4, CallStep
<1>7. CASE Stored
  <2>1. PICK c \in CallType : /\ call' = [call EXCEPT ![t] = c] /\ call'[t] = c
                              /\ c.pc = "use" /\ c.addr = call[t].addr /\ c.obj = o /\ ~c.owned
    <3>1. o \in K!Object /\ "use" \in CallPcs  BY <1>2, <1>7
    <3>2. call' = [call EXCEPT ![t] = Borrowing(t, "use", o)]  BY <1>2, <1>7
    <3>3. call'[t] = Borrowing(t, "use", o)  BY <3>2 DEF CacheInv, CacheTypes
    <3> QED  BY <3>1, <3>2, <3>3, BorrowingIs
  <2>2. lifeline' \in [K!Object -> Nat]
        /\ \A y \in K!Object : lifeline'[y] = IF y = o THEN lifeline[y] + 1 ELSE lifeline[y]
    BY <1>2, <1>7 DEF CacheInv, CacheTypes
  <2>3. CallSound(t)'  BY <1>2, <2>1, <2>2 DEF CallSound
  <2>4. \A y : ~Owns(call', t, y)  BY <2>1 DEF Owns
  <2>5. \A y \in K!Object : refs'[y] + lifeline[y] + One(Owns(call, t, y))
                          = refs[y] + lifeline'[y] + One(Owns(call', t, y))
    <3> SUFFICES ASSUME NEW y \in K!Object
                 PROVE  refs'[y] + lifeline[y] + One(Owns(call, t, y))
                      = refs[y] + lifeline'[y] + One(Owns(call', t, y))
      OBVIOUS
    <3>1. One(Owns(call', t, y)) = 0  BY <2>4 DEF One
    <3>2. One(Owns(call, t, y)) = IF y = o THEN 1 ELSE 0  BY <1>3 DEF One
    <3>3. /\ lifeline'[y] = IF y = o THEN lifeline[y] + 1 ELSE lifeline[y]
          /\ refs' = refs /\ refs[y] \in Nat /\ lifeline[y] \in Nat
      BY <1>2, <1>3, <1>7, <2>2
    <3> QED  BY <3>1, <3>2, <3>3
  <2>6. Listed'
    <3>1. slots' = slots /\ \A y \in K!Object : y # Empty  BY <1>1 DEF CacheLegal
    <3>2. \A y \in K!Object : lifeline[y] = One(slots[0].str = y) + One(slots[1].str = y) + One(import = y)
      BY DEF CacheInv, Listed
    <3> QED  BY <1>2, <1>7, <2>2, <3>1, <3>2 DEF Listed, One
  <2>7. /\ chars' = chars /\ attr' = attr /\ slots' \in [0 .. 1 -> EntryType]
        /\ import' \in Value \cup {Empty} /\ refs' \in [K!Object -> Int]
        /\ \A y \in K!Object : lifeline'[y] >= lifeline[y]
    BY <1>1, <1>2, <1>7, <2>2 DEF CacheInv, CacheTypes
  <2>8. NoTwin' /\ \A i \in 0 .. 1 : EntrySound(i)'
    BY <1>1 DEF CacheInv, NoTwin, EntrySound
  <2> QED  BY <2>1, <2>2, <2>3, <2>5, <2>6, <2>7, <2>8, CacheStep
<1> QED  BY <1>1, <1>5, <1>6, <1>7

\* Of the two slots, in the order of a probe, the first one without an entry.
LEMMA FreeSlot ==
    ASSUME NEW s \in [0 .. 1 -> EntryType], NEW h \in 0 .. 1,
           {i \in 1 .. 2 : s[<<h, 1 - h>>[i]] = K!NoEntry} # {}
    PROVE  LET free == {i \in 1 .. 2 : s[<<h, 1 - h>>[i]] = K!NoEntry}
               first == <<h, 1 - h>>[CHOOSE i \in free : \A j \in free : i <= j]
           IN  first \in 0 .. 1 /\ s[first] = K!NoEntry
<1> DEFINE free == {i \in 1 .. 2 : s[<<h, 1 - h>>[i]] = K!NoEntry}
           n == CHOOSE i \in free : \A j \in free : i <= j
<1>1. free \subseteq {1, 2} /\ free # {}  OBVIOUS
<1>2. \E i \in free : \A j \in free : i <= j
  <2>1. CASE 1 \in free  BY <1>1, <2>1
  <2>2. CASE 1 \notin free  BY <1>1, <2>2
  <2> QED  BY <2>1, <2>2
<1>3. n \in free  BY <1>2
<1>4. n \in {1, 2} /\ s[<<h, 1 - h>>[n]] = K!NoEntry  BY <1>1, <1>3
<1>5. <<h, 1 - h>>[n] \in 0 .. 1  BY <1>4
<1> QED  BY <1>4, <1>5

LEMMA FillInv ==
    ASSUME CacheLegal, CacheInv, NEW t \in Caller, K!Fill(t) PROVE CacheInv'
<1> DEFINE a == call[t].addr
           x == call[t].obj
           probes == <<Home[a], 1 - Home[a]>>
           free == {i \in 1 .. 2 : slots[probes[i]] = K!NoEntry}
           first == probes[CHOOSE i \in free : \A j \in free : i <= j]
           e == [key |-> a, str |-> x]
           found == \E i \in 0 .. 1 : K!Matching(slots[i], a)
<1>1. /\ call[t].pc = "lock" /\ UNCHANGED <<chars, attr, import>>
      /\ found => /\ refs' = [refs EXCEPT ![x] = @ + -1] /\ UNCHANGED <<slots, lifeline>>
                  /\ call' = [call EXCEPT ![t] = Borrowing(t, "use", x)]
      /\ ~found =>
           \/ /\ free # {} /\ lifeline' = [lifeline EXCEPT ![x] = @ + 1]
              /\ slots' = [slots EXCEPT ![first] = e] /\ refs' = refs
              /\ call' = [call EXCEPT ![t] = Borrowing(t, "use", x)]
           \/ /\ UNCHANGED <<slots, refs, lifeline>>
              /\ call' = [call EXCEPT ![t] = Owning(t, "use", x)]
  BY DEF K!Fill, K!Return, K!Goto, Owning, Borrowing, K!Add
<1>2. /\ a \in Addr /\ call[t].owned /\ x = chars[a] /\ x \in Text /\ x \in K!Object
      /\ "use" \in CallPcs /\ Home[a] \in 0 .. 1 /\ slots \in [0 .. 1 -> EntryType]
  BY <1>1 DEF CacheInv, CacheTypes, CallSound, K!Object, CallPcs, CacheLegal
<1>3. /\ \A y \in K!Object : refs[y] \in Nat /\ lifeline[y] \in Nat
      /\ chars' = chars /\ attr' = attr /\ import' = import
  BY <1>1 DEF CacheInv, CacheTypes
<1>4. \A y : Owns(call, t, y) <=> y = x  BY <1>2 DEF Owns
<1>5. free # {} => first \in 0 .. 1 /\ slots[first] = K!NoEntry
  BY <1>2, FreeSlot
<1> HIDE DEF a, x, probes, free, first, e
<1>6. CASE found
  <2>1. /\ refs' = [refs EXCEPT ![x] = @ + -1] /\ UNCHANGED <<slots, lifeline>>
        /\ call' = [call EXCEPT ![t] = Borrowing(t, "use", x)]
    BY <1>1, <1>6
  <2>2. PICK c \in CallType : /\ call' = [call EXCEPT ![t] = c] /\ call'[t] = c
                              /\ c.pc = "use" /\ c.addr = call[t].addr /\ c.obj = x /\ ~c.owned
    <3>1. x \in K!Object /\ "use" \in CallPcs  BY <1>2, <2>1
    <3>2. call' = [call EXCEPT ![t] = Borrowing(t, "use", x)]  BY <1>2, <2>1
    <3>3. call'[t] = Borrowing(t, "use", x)  BY <3>2 DEF CacheInv, CacheTypes
    <3> QED  BY <3>1, <3>2, <3>3, BorrowingIs
  <2>3. lifeline[x] > 0
    <3>1. PICK i \in 0 .. 1 : K!Matching(slots[i], a)  BY <1>6
    <3> QED  BY <1>2, <3>1, Matched
  <2>4. CallSound(t)'  BY <1>2, <1>3, <2>1, <2>2, <2>3 DEF CallSound, a
  <2>5. refs' \in [K!Object -> Int]
        /\ \A y \in K!Object : refs'[y] = IF y = x THEN refs[y] - 1 ELSE refs[y]
    BY <1>2, <1>3, <2>1 DEF CacheInv, CacheTypes
  <2>6. \A y : ~Owns(call', t, y)  BY <2>2 DEF Owns
  <2>7. \A y \in K!Object : refs'[y] + One(Owns(call, t, y)) = refs[y] + One(Owns(call', t, y))
    BY <1>3, <1>4, <2>5, <2>6 DEF One
  <2> QED  BY <1>1, <2>1, <2>2, <2>4, <2>5, <2>7, CallStep
<1>7. CASE /\ ~found /\ free # {} /\ lifeline' = [lifeline EXCEPT ![x] = @ + 1]
           /\ slots' = [slots EXCEPT ![first] = e] /\ refs' = refs
           /\ call' = [call EXCEPT ![t] = Borrowing(t, "use", x)]
  <2>1. PICK c \in CallType : /\ call' = [call EXCEPT ![t] = c] /\ call'[t] = c
                              /\ c.pc = "use" /\ c.addr = call[t].addr /\ c.obj = x /\ ~c.owned
    <3>1. x \in K!Object /\ "use" \in CallPcs  BY <1>2, <1>7
    <3>2. call' = [call EXCEPT ![t] = Borrowing(t, "use", x)]  BY <1>2, <1>7
    <3>3. call'[t] = Borrowing(t, "use", x)  BY <3>2 DEF CacheInv, CacheTypes
    <3> QED  BY <3>1, <3>2, <3>3, BorrowingIs
  <2>2. lifeline' \in [K!Object -> Nat]
        /\ \A y \in K!Object : lifeline'[y] = IF y = x THEN lifeline[y] + 1 ELSE lifeline[y]
    BY <1>2, <1>3, <1>7 DEF CacheInv, CacheTypes
  <2>3. CallSound(t)'  BY <1>2, <1>3, <2>1, <2>2 DEF CallSound, a
  <2>4. \A y : ~Owns(call', t, y)  BY <2>1 DEF Owns
  <2>5. \A y \in K!Object : refs'[y] + lifeline[y] + One(Owns(call, t, y))
                          = refs[y] + lifeline'[y] + One(Owns(call', t, y))
    <3> SUFFICES ASSUME NEW y \in K!Object
                 PROVE  refs'[y] + lifeline[y] + One(Owns(call, t, y))
                      = refs[y] + lifeline'[y] + One(Owns(call', t, y))
      OBVIOUS
    <3>1. One(Owns(call', t, y)) = 0  BY <2>4 DEF One
    <3>2. One(Owns(call, t, y)) = IF y = x THEN 1 ELSE 0  BY <1>4 DEF One
    <3>3. /\ lifeline'[y] = IF y = x THEN lifeline[y] + 1 ELSE lifeline[y]
          /\ refs' = refs /\ refs[y] \in Nat /\ lifeline[y] \in Nat
      BY <1>2, <1>3, <1>7, <2>2
    <3> QED  BY <3>1, <3>2, <3>3
  <2>6. /\ first \in 0 .. 1 /\ slots[first] = K!NoEntry /\ e \in EntryType
        /\ e.key = a /\ e.str = x
    BY <1>2, <1>5, <1>7 DEF EntryType, e
  <2>7. /\ slots' \in [0 .. 1 -> EntryType] /\ slots'[first] = e
        /\ \A i \in 0 .. 1 : i # first => slots'[i] = slots[i]
    BY <1>2, <1>7, <2>6
  <2>8. e # K!NoEntry /\ \A i \in 0 .. 1 : slots[i] # e
    <3>1. e # K!NoEntry  BY <1>2, <2>6 DEF K!NoEntry, CacheLegal
    <3>2. \A i \in 0 .. 1 : slots[i] # e  BY <1>2, <1>7, <2>6 DEF K!Matching
    <3> QED  BY <3>1, <3>2
  <2>9. NoTwin'
    <3>1. CASE first = 0  BY <2>6, <2>7, <2>8, <3>1 DEF NoTwin
    <3>2. CASE first = 1  BY <2>6, <2>7, <2>8, <3>2 DEF NoTwin
    <3> QED  BY <2>6, <3>1, <3>2
  <2>10. \A i \in 0 .. 1 : EntrySound(i)'
    BY <1>2, <2>6, <2>7 DEF CacheInv, EntrySound
  <2>11. Listed'
    <3> SUFFICES ASSUME NEW y \in K!Object
                 PROVE  lifeline'[y] = One(slots'[0].str = y) + One(slots'[1].str = y) + One(import = y)
      BY <1>3 DEF Listed
    <3>1. lifeline[y] = One(slots[0].str = y) + One(slots[1].str = y) + One(import = y)
      BY DEF CacheInv, Listed
    <3>2. slots[first].str # y  BY <2>6 DEF K!NoEntry, CacheLegal
    <3>3. lifeline'[y] = IF y = x THEN lifeline[y] + 1 ELSE lifeline[y]  BY <2>2
    <3>4. CASE first = 0
      <4>1. slots'[0].str = x /\ slots'[1] = slots[1]  BY <2>6, <2>7, <3>4
      <4> QED  BY <3>1, <3>2, <3>3, <3>4, <4>1 DEF One
    <3>5. CASE first = 1
      <4>1. slots'[1].str = x /\ slots'[0] = slots[0]  BY <2>6, <2>7, <3>5
      <4> QED  BY <3>1, <3>2, <3>3, <3>5, <4>1 DEF One
    <3> QED  BY <2>6, <3>4, <3>5
  <2>12. /\ import' \in Value \cup {Empty} /\ refs' \in [K!Object -> Int]
         /\ \A y \in K!Object : lifeline'[y] >= lifeline[y]
    BY <1>3, <1>7, <2>2 DEF CacheInv, CacheTypes
  <2> QED  BY <1>3, <2>1, <2>2, <2>3, <2>5, <2>7, <2>9, <2>10, <2>11, <2>12, CacheStep
<1>8. CASE /\ UNCHANGED <<slots, refs, lifeline>>
           /\ call' = [call EXCEPT ![t] = Owning(t, "use", x)]
  <2>1. PICK c \in CallType : /\ call' = [call EXCEPT ![t] = c] /\ call'[t] = c
                              /\ c.pc = "use" /\ c.addr = call[t].addr /\ c.obj = x /\ c.owned
    <3>1. x \in K!Object /\ "use" \in CallPcs  BY <1>2, <1>8
    <3>2. call' = [call EXCEPT ![t] = Owning(t, "use", x)]  BY <1>2, <1>8
    <3>3. call'[t] = Owning(t, "use", x)  BY <3>2 DEF CacheInv, CacheTypes
    <3> QED  BY <3>1, <3>2, <3>3, OwningIs
  <2>2. CallSound(t)'  BY <1>2, <1>3, <2>1 DEF CallSound, a
  <2>3. \A y : Owns(call', t, y) <=> y = x  BY <2>1 DEF Owns
  <2>4. \A y \in K!Object : refs'[y] + One(Owns(call, t, y)) = refs[y] + One(Owns(call', t, y))
    BY <1>4, <1>8, <2>3 DEF One
  <2>5. refs' \in [K!Object -> Int]  BY <1>8 DEF CacheInv, CacheTypes
  <2> QED  BY <1>1, <1>8, <2>1, <2>2, <2>4, <2>5, CallStep
<1> QED  BY <1>1, <1>6, <1>7, <1>8

LEMMA TeardownInv == ASSUME CacheLegal, CacheInv, K!Teardown PROVE CacheInv'
<1>1. /\ \A t \in Caller : call[t].pc \notin {"probe", "use"}
      /\ refs' = [x \in K!Object |-> refs[x] - lifeline[x]] /\ lifeline' = [x \in K!Object |-> 0]
      /\ slots' = [i \in 0 .. 1 |-> K!NoEntry] /\ import' = Empty
      /\ chars' = chars /\ attr' = attr /\ call' = call
  BY DEF K!Teardown
<1>2. K!NoEntry \in EntryType  BY DEF K!NoEntry, EntryType
<1>3. ASSUME NEW x \in K!Object
      PROVE  /\ refs'[x] \in Nat /\ lifeline'[x] = 0
             /\ refs'[x] = lifeline'[x] + Cardinality(OwnersIn(call', x)) + One(x = attr')
  <2>1. refs[x] = lifeline[x] + Cardinality(OwnersIn(call, x)) + One(x = attr)
    BY DEF CacheInv, RefsExact
  <2>2. Cardinality(OwnersIn(call, x)) \in Nat /\ lifeline[x] \in Nat
    BY OwnersFinite DEF CacheInv, CacheTypes
  <2> QED  BY <1>1, <2>1, <2>2 DEF One
<1>4. RefsExact'  BY <1>3 DEF RefsExact
<1>5. refs' \in [K!Object -> Nat] /\ lifeline' \in [K!Object -> Nat]  BY <1>1, <1>3
<1>6. CacheTypes'  BY <1>1, <1>2, <1>5 DEF CacheInv, CacheTypes
<1>7. Listed' /\ NoTwin' /\ \A i \in 0 .. 1 : EntrySound(i)'
  BY <1>1 DEF Listed, One, K!NoEntry, CacheLegal, NoTwin, EntrySound
<1>8. \A t \in Caller : CallSound(t)'  BY <1>1 DEF CacheInv, CallSound
<1> QED  BY <1>4, <1>6, <1>7, <1>8 DEF CacheInv

LEMMA CacheUnchanged ==
    ASSUME CacheInv, UNCHANGED <<chars, slots, import, attr, refs, lifeline, call>> PROVE CacheInv'
BY DEF CacheInv, CacheTypes, RefsExact, OwnersIn, Listed, NoTwin, CallSound, EntrySound

\* Text changes at an address that no call is about.
LEMMA ReuseInv ==
    ASSUME CacheLegal, CacheInv, NEW a \in Addr, NEW x \in Text, K!Reuse(a, x) PROVE CacheInv'
<1>1. /\ \A t \in Caller : call[t].addr # a
      /\ chars' = [chars EXCEPT ![a] = x]
      /\ slots' = slots /\ import' = import /\ attr' = attr /\ refs' = refs
      /\ lifeline' = lifeline /\ call' = call
  BY DEF K!Reuse
<1>2. chars' \in [Addr -> Text] /\ \A b \in Addr : b # a => chars'[b] = chars[b]
  <2>1. chars \in [Addr -> Text] /\ chars' = [chars EXCEPT ![a] = x]
    BY <1>1 DEF CacheInv, CacheTypes
  <2> QED  BY ONLY <2>1, a \in Addr, x \in Text
<1>3. ASSUME NEW t \in Caller PROVE CallSound(t)'
  <2>1. CallSound(t) /\ call[t].addr \in Addr \cup {Empty} /\ call[t].addr # a /\ call' = call
    BY <1>1 DEF CacheInv, CacheTypes, CallType
  <2>2. call[t].addr # Empty => chars'[call[t].addr] = chars[call[t].addr]  BY <1>2, <2>1
  <2>3. call[t].pc = "lock" => call[t].addr # Empty  BY <2>1 DEF CallSound, CacheLegal
  <2> QED  BY <1>1, <2>1, <2>2, <2>3 DEF CallSound
<1>4. CacheTypes'  BY <1>1, <1>2 DEF CacheInv, CacheTypes
<1>5. RefsExact' /\ Listed' /\ NoTwin' /\ \A i \in 0 .. 1 : EntrySound(i)'
  BY <1>1 DEF CacheInv, RefsExact, OwnersIn, Listed, NoTwin, EntrySound
<1> QED  BY <1>3, <1>4, <1>5 DEF CacheInv

LEMMA PatchInv == ASSUME CacheLegal, CacheInv, NEW v \in Value, K!Patch(v) PROVE CacheInv'
<1>1. /\ v # attr /\ attr' = v
      /\ refs' = [[refs EXCEPT ![attr] = @ + -1] EXCEPT ![v] = @ + 1]
      /\ slots' = slots /\ import' = import /\ chars' = chars
      /\ lifeline' = lifeline /\ call' = call
  BY DEF K!Patch, K!Add
<1>2. attr \in K!Object /\ v \in K!Object  BY DEF CacheInv, CacheTypes, K!Object
<1>3. \A x \in K!Object : refs'[x] = refs[x] - One(x = attr) + One(x = v)
  BY <1>1, <1>2 DEF CacheInv, CacheTypes, One
<1>4. ASSUME NEW x \in K!Object
      PROVE  /\ refs'[x] = lifeline'[x] + Cardinality(OwnersIn(call', x)) + One(x = attr')
             /\ refs'[x] \in Nat
  <2>1. refs[x] = lifeline[x] + Cardinality(OwnersIn(call, x)) + One(x = attr)
    BY DEF CacheInv, RefsExact
  <2>2. Cardinality(OwnersIn(call, x)) \in Nat /\ lifeline[x] \in Nat
    BY OwnersFinite DEF CacheInv, CacheTypes
  <2>3. refs'[x] = refs[x] - One(x = attr) + One(x = v)  BY <1>3
  <2> QED  BY <1>1, <2>1, <2>2, <2>3 DEF One
<1>5. RefsExact'  BY <1>4 DEF RefsExact
<1>6. refs' \in [K!Object -> Nat]
  <2>1. DOMAIN refs' = K!Object /\ refs' = [x \in DOMAIN refs' |-> refs'[x]]
    BY <1>1 DEF CacheInv, CacheTypes
  <2> QED  BY <1>4, <2>1
<1>7. CacheTypes'  BY <1>1, <1>6 DEF CacheInv, CacheTypes
<1>8. Listed' /\ NoTwin' /\ \A i \in 0 .. 1 : EntrySound(i)'
  BY <1>1 DEF CacheInv, Listed, NoTwin, EntrySound
<1>9. \A t \in Caller : CallSound(t)'  BY <1>1 DEF CacheInv, CallSound
<1> QED  BY <1>5, <1>7, <1>8, <1>9 DEF CacheInv

LEMMA CacheNext ==
    ASSUME CacheLegal, CacheInv, K!Next \/ UNCHANGED K!cacheVars PROVE CacheInv'
<1>1. ASSUME UNCHANGED K!cacheVars PROVE CacheInv'
  BY <1>1, CacheUnchanged DEF K!cacheVars
<1>2. ASSUME K!Rebuild PROVE CacheInv'
  BY <1>2, CacheUnchanged DEF K!Rebuild
<1> QED
  BY <1>1, <1>2, AskInv, ProbeInv, PlainInv, InternInv, FillInv, GiveBackInv, GetInv, ImportInv,
     StoreInv, TeardownInv, ReuseInv, PatchInv DEF K!Next

\* A call ends with a string that spells what its argument spells.
LEMMA CacheText == CacheInv => K!RightText
BY DEF CacheInv, CallSound, K!RightText

\* What an entry lists, or a caller works with, is alive.
LEMMA CacheBorrowed == CacheLegal /\ CacheInv => K!BorrowedAlive
<1> SUFFICES ASSUME CacheLegal, CacheInv PROVE K!BorrowedAlive
    OBVIOUS
<1>1. ASSUME NEW i \in 0 .. 1, slots[i] # K!NoEntry PROVE lifeline[slots[i].str] > 0
  <2>1. slots[i].str \in K!Object  BY <1>1 DEF CacheInv, EntrySound, K!Object
  <2>2. lifeline[slots[i].str] = One(slots[0].str = slots[i].str) + One(slots[1].str = slots[i].str)
                                 + One(import = slots[i].str)
    BY <2>1 DEF CacheInv, Listed
  <2>3. i = 0 \/ i = 1  OBVIOUS
  <2> QED  BY <2>2, <2>3 DEF One
<1>2. ASSUME import # Empty PROVE lifeline[import] > 0
  <2>1. import \in K!Object  BY <1>2 DEF CacheInv, CacheTypes, K!Object
  <2>2. lifeline[import] = One(slots[0].str = import) + One(slots[1].str = import) + One(import = import)
    BY <2>1 DEF CacheInv, Listed
  <2> QED  BY <2>2 DEF One
<1>3. ASSUME NEW t \in Caller, call[t].pc = "use" PROVE refs[call[t].obj] > 0
  <2> DEFINE x == call[t].obj
  <2>1. x \in K!Object /\ (call[t].owned \/ lifeline[x] > 0)
    BY <1>3 DEF CacheInv, CallSound
  <2>2. /\ refs[x] = lifeline[x] + Cardinality(OwnersIn(call, x)) + One(x = attr)
        /\ lifeline[x] \in Nat /\ Cardinality(OwnersIn(call, x)) \in Nat
    BY <2>1, OwnersFinite DEF CacheInv, RefsExact, CacheTypes
  <2>3. call[t].owned => Cardinality(OwnersIn(call, x)) > 0  BY OwnersSome DEF Owns
  <2> QED  BY <2>1, <2>2, <2>3 DEF One
<1> QED  BY <1>1, <1>2, <1>3 DEF K!BorrowedAlive

LEMMA CacheCounts == CacheInv => K!CacheRefsExact
<1> SUFFICES ASSUME CacheInv, NEW x \in K!Object
             PROVE  refs[x] = lifeline[x] + K!Cardinality(K!Owners(x)) + (IF x = attr THEN 1 ELSE 0)
    BY DEF K!CacheRefsExact
<1>1. refs[x] = lifeline[x] + Cardinality(OwnersIn(call, x)) + One(x = attr)
  BY DEF CacheInv, RefsExact
<1>2. K!Owners(x) = OwnersIn(call, x)  BY DEF K!Owners, OwnersIn
<1> QED  BY <1>1, <1>2, CacheCardinality DEF One

LEMMA CacheTwins == CacheInv => K!NoTwins
<1> SUFFICES ASSUME CacheInv PROVE K!NoTwins
    OBVIOUS
<1>1. ASSUME NEW x \in K!Object
      PROVE  lifeline[x] = K!Cardinality({i \in 0 .. 1 : slots[i].str = x})
                           + (IF import = x THEN 1 ELSE 0)
  <2>1. lifeline[x] = One(slots[0].str = x) + One(slots[1].str = x) + One(import = x)
    BY DEF CacheInv, Listed
  <2>2. Cardinality({i \in 0 .. 1 : slots[i].str = x}) = One(slots[0].str = x) + One(slots[1].str = x)
    BY EntriesWith
  <2>3. K!Cardinality({i \in 0 .. 1 : slots[i].str = x})
        = Cardinality({i \in 0 .. 1 : slots[i].str = x})
    BY CacheCardinality, Zenon
  <2> HIDE DEF One
  <2>4. lifeline[x] = K!Cardinality({i \in 0 .. 1 : slots[i].str = x}) + One(import = x)
    BY <2>1, <2>2, <2>3
  <2> QED  BY <2>4 DEF One
<1> QED  BY <1>1 DEF K!NoTwins, CacheInv, NoTwin

LEMMA CacheTypeOK == CacheInv => K!TypeOK
BY DEF K!TypeOK, CacheInv, CacheTypes, EntryType

\* The caches answer with the string or object asked for, alive, and with exact counts,
\* whatever sets of threads, addresses, texts and values there are
\* (nb_internals.cpp:365-500).
THEOREM CachesRight ==
    CacheLegal /\ K!Spec =>
        [](K!TypeOK /\ K!RightText /\ K!BorrowedAlive /\ K!CacheRefsExact /\ K!NoTwins)
<1> SUFFICES ASSUME CacheLegal
             PROVE  K!Spec => [](K!TypeOK /\ K!RightText /\ K!BorrowedAlive /\ K!CacheRefsExact
                                 /\ K!NoTwins)
    OBVIOUS
<1>1. K!Init => CacheInv  BY CacheInit
<1>2. CacheInv /\ [K!Next]_(K!cacheVars) => CacheInv'  BY CacheNext
<1>3. CacheInv => K!TypeOK /\ K!RightText /\ K!BorrowedAlive /\ K!CacheRefsExact /\ K!NoTwins
  BY CacheTypeOK, CacheText, CacheBorrowed, CacheCounts, CacheTwins
<1> QED  BY <1>1, <1>2, <1>3, PTL DEF K!Spec

-----------------------------------------------------------------------------
(* The registry of types.                                                        *)

RegLegal == /\ IsFiniteSet(Mem) /\ TypeOf \in [Info -> Type] /\ MainUser \in User
            /\ NoMem \notin Mem /\ NoMem \notin Info
            /\ G!Placeholder \notin Mem /\ G!Placeholder # NoMem

Kinds == Features \cup {"plain"}
RegRecord == [mem : {"free", "blank", "live"}, info : Info \cup {NoMem}, base : Mem \cup {NoMem},
              py : BOOLEAN, feature : Kinds, intrusive : Mem \cup {NoMem}, pooled : BOOLEAN,
              arrays : BOOLEAN, chain : Seq(Info)]
RegTypes ==
    /\ ft \in BOOLEAN /\ slow \in [Type -> Mem \cup {NoMem, G!Placeholder}]
    /\ fast \in [User -> [Info -> Mem \cup {NoMem}]] /\ types \in [Mem -> RegRecord]
    /\ pending \in [info : Info \cup {NoMem}, base : Mem \cup {NoMem}, feature : Kinds]
    /\ filling \in [User -> Mem \cup {NoMem}]

Live(r) == types[r].mem = "live"
Native(r) == types[r].mem = "live" /\ ~types[r].py
\* The slow map and the records of C++ types refer to each other.
SlowRight == /\ \A t \in Type : slow[t] \in Mem =>
                    Native(slow[t]) /\ TypeOf[types[slow[t]].info] = t
             /\ \A r \in Mem : Native(r) =>
                    types[r].info \in Info /\ slow[TypeOf[types[r].info]] = r
PendingRight == pending # G!Idle =>
    /\ pending.info \in Info /\ slow[TypeOf[pending.info]] = G!Placeholder
    /\ pending.base # NoMem => Live(pending.base)
FastFollows ==
    /\ \A u \in User, i \in Info : fast[u][i] # NoMem => slow[TypeOf[i]] = fast[u][i]
    /\ ~ft => \A u \in User : u # MainUser => \A i \in Info : fast[u][i] = NoMem
\* With a GIL, the address of a type and its chain are what the fast map has of it.
ChainOf(r) == /\ \A i \in Info : i \in G!Erased(r) <=> fast[MainUser][i] = r
              /\ G!IsInjective(<<types[r].info>> \o types[r].chain)
ChainRight == ~ft => \A r \in Mem : Native(r) => ChainOf(r)
\* Bases outlive what is derived from them, and are filled first.
BaseRight == \A r \in Mem :
    /\ types[r].mem = "free" => types[r].base = NoMem
    /\ types[r].mem = "blank" =>
          types[r].py /\ types[r].base \in Mem /\ types[types[r].base].mem # "free"
    /\ Live(r) /\ types[r].base # NoMem => Live(types[r].base)
FillingRight == \A u \in User : filling[u] # NoMem =>
    /\ types[filling[u]].mem # "free" /\ types[filling[u]].py
    /\ types[filling[u]].base \in Mem /\ Live(types[filling[u]].base)
Inherits == \A r \in Mem : Live(r) =>
    /\ (types[r].base # NoMem /\ types[r].feature # "intrusive") =>
          types[r].intrusive = types[types[r].base].intrusive
    /\ types[r].pooled => types[r].intrusive = NoMem
    /\ types[r].py => ~types[r].pooled /\ ~types[r].arrays
LiveSet == {r \in Mem : types[r].mem = "live"}
CountRight == counted = Cardinality(LiveSet)

RegInv == /\ RegTypes /\ SlowRight /\ PendingRight /\ FastFollows /\ ChainRight /\ BaseRight
          /\ FillingRight /\ Inherits /\ CountRight /\ ~aborted

LEMMA LiveFinite ==
    ASSUME RegLegal PROVE IsFiniteSet(LiveSet) /\ Cardinality(LiveSet) \in Nat
<1>1. LiveSet \subseteq Mem  BY DEF LiveSet
<1> QED  BY <1>1, FS_Subset, FS_CardinalityType DEF RegLegal

LEMMA RegInit == ASSUME RegLegal, G!Init PROVE RegInv
<1>1. /\ ft \in BOOLEAN /\ slow = [t \in Type |-> NoMem]
      /\ fast = [u \in User |-> [i \in Info |-> NoMem]] /\ types = [r \in Mem |-> G!Free]
      /\ pending = G!Idle /\ filling = [u \in User |-> NoMem] /\ counted = 0 /\ aborted = FALSE
  BY DEF G!Init
<1>2. G!Free \in RegRecord /\ G!Free.mem = "free" /\ G!Free.base = NoMem
  BY DEF G!Free, RegRecord, Kinds
<1>3. G!Idle \in [info : Info \cup {NoMem}, base : Mem \cup {NoMem}, feature : Kinds]
  BY DEF G!Idle, Kinds
<1>4. RegTypes  BY <1>1, <1>2, <1>3 DEF RegTypes
<1>5. \A r \in Mem : types[r].mem = "free" /\ types[r].base = NoMem  BY <1>1, <1>2
<1>6. SlowRight  BY <1>1, <1>5, RegLegal DEF SlowRight, Native, RegLegal
<1>7. PendingRight /\ FastFollows /\ ChainRight /\ BaseRight /\ FillingRight /\ Inherits
  BY <1>1, <1>5 DEF PendingRight, FastFollows, ChainRight, Native, BaseRight, Live,
                    FillingRight, Inherits
<1>8. CountRight
  <2>1. LiveSet = {}  BY <1>5 DEF LiveSet
  <2> QED  BY <1>1, <2>1, FS_EmptySet DEF CountRight
<1> QED  BY <1>1, <1>4, <1>6, <1>7, <1>8 DEF RegInv

\* What the actions leave alone of the records of C++ types.
LEMMA ChainSame ==
    ASSUME ChainRight, ft' = ft, fast' = fast,
           \A r \in Mem : Native(r)' => /\ Native(r) /\ types'[r].info = types[r].info
                                        /\ types'[r].chain = types[r].chain
    PROVE  ChainRight'
BY DEF ChainRight, ChainOf, G!Erased

LEMMA CountSame ==
    ASSUME CountRight, counted' = counted, \A r \in Mem : types'[r].mem = types[r].mem
    PROVE  CountRight'
<1>1. LiveSet' = LiveSet  BY DEF LiveSet
<1> QED  BY <1>1 DEF CountRight

LEMMA ReserveInv ==
    ASSUME RegLegal, RegInv, NEW i \in Info, NEW b \in G!Registered \cup {NoMem},
           NEW f \in Features, G!Reserve(i, b, f)
    PROVE  RegInv'
<1>1. /\ slow[TypeOf[i]] = NoMem /\ slow' = [slow EXCEPT ![TypeOf[i]] = G!Placeholder]
      /\ pending' = [info |-> i, base |-> b, feature |-> f] /\ ft' = ft /\ fast' = fast
      /\ types' = types /\ filling' = filling /\ counted' = counted /\ aborted' = aborted
  BY DEF G!Reserve
<1>2. TypeOf[i] \in Type /\ b \in Mem \cup {NoMem} /\ (b # NoMem => Live(b))
  BY DEF RegLegal, G!Registered, Live
<1>3. /\ slow \in [Type -> Mem \cup {NoMem, G!Placeholder}]
      /\ slow'[TypeOf[i]] = G!Placeholder
      /\ \A t \in Type : t # TypeOf[i] => slow'[t] = slow[t]
  BY <1>1, <1>2 DEF RegInv, RegTypes
<1>4. RegTypes'
  <2>1. slow' \in [Type -> Mem \cup {NoMem, G!Placeholder}]  BY <1>1, <1>2, <1>3
  <2>2. pending' \in [info : Info \cup {NoMem}, base : Mem \cup {NoMem}, feature : Kinds]
    BY <1>1, <1>2 DEF Kinds
  <2> QED  BY <1>1, <2>1, <2>2 DEF RegInv, RegTypes
<1>5. SlowRight'
  <2>1. \A t \in Type : slow'[t] \in Mem => slow'[t] = slow[t]
    BY <1>2, <1>3 DEF RegLegal
  <2>2. \A r \in Mem : Native(r) => TypeOf[types[r].info] # TypeOf[i]
    BY <1>1 DEF RegInv, SlowRight, RegLegal
  <2>3. \A r \in Mem : Native(r) => types[r].info \in Info /\ TypeOf[types[r].info] \in Type
    BY DEF RegInv, SlowRight, RegLegal
  <2> QED  BY <1>1, <1>3, <2>1, <2>2, <2>3 DEF RegInv, SlowRight, Native
<1>6. PendingRight'
  <2>1. pending'.info = i /\ pending'.base = b  BY <1>1
  <2> QED  BY <1>1, <1>2, <1>3, <2>1 DEF PendingRight, Live
<1>7. FastFollows'
  <2>1. \A u \in User, j \in Info : fast[u][j] # NoMem => TypeOf[j] # TypeOf[i] /\ TypeOf[j] \in Type
    BY <1>1 DEF RegInv, FastFollows, RegLegal
  <2> QED  BY <1>1, <1>3, <2>1 DEF RegInv, FastFollows
<1>8. ChainRight'  BY <1>1, ChainSame DEF RegInv, Native
<1>9. BaseRight' /\ FillingRight' /\ Inherits' /\ CountRight'
  BY <1>1 DEF RegInv, BaseRight, FillingRight, Inherits, CountRight, LiveSet, Live
<1> QED  BY <1>1, <1>4, <1>5, <1>6, <1>7, <1>8, <1>9 DEF RegInv

\* The record of a new type.
LEMMA NewRecord ==
    ASSUME RegLegal, RegInv, NEW r \in Mem, ~G!PoolingRefused, pending.info \in Info
    PROVE  LET n == G!Record(r)
           IN  /\ n \in RegRecord /\ n.mem = "live" /\ ~n.py /\ n.info = pending.info
               /\ n.base = pending.base /\ n.chain = <<>>
               /\ (n.base # NoMem /\ n.feature # "intrusive") =>
                     n.intrusive = types[n.base].intrusive
               /\ n.pooled => n.intrusive = NoMem
<1>1. /\ pending.base \in Mem \cup {NoMem} /\ pending.feature \in Kinds
      /\ pending.base # NoMem => types[pending.base].intrusive \in Mem \cup {NoMem}
  BY DEF RegInv, RegTypes, RegRecord
<1>2. G!Intrusive(r) \in Mem \cup {NoMem}  BY <1>1 DEF G!Intrusive
<1>3. /\ pending.base # NoMem /\ pending.feature # "intrusive" =>
            G!Intrusive(r) = types[pending.base].intrusive
      /\ pending.feature = "pooled" => G!Intrusive(r) = NoMem
  BY DEF G!Intrusive, G!PoolingRefused
<1> DEFINE n == G!Record(r)
<1>4. /\ n.mem = "live" /\ ~n.py /\ n.info = pending.info /\ n.base = pending.base
      /\ n.chain = <<>> /\ n.feature = pending.feature /\ n.intrusive = G!Intrusive(r)
      /\ n.pooled <=> pending.feature = "pooled"
  BY DEF G!Record, G!Free
<1>5. n \in RegRecord
  <2>1. G!Free \in RegRecord  BY DEF G!Free, RegRecord, Kinds
  <2> DEFINE a == [G!Free EXCEPT !.mem = "live", !.info = pending.info, !.base = pending.base]
             b == [a EXCEPT !.feature = pending.feature, !.intrusive = G!Intrusive(r)]
             d == pending.feature = "pooled"
  <2>2. a \in RegRecord  BY <1>1, <2>1 DEF RegRecord
  <2> HIDE DEF a
  <2>3. b \in RegRecord  BY <1>1, <1>2, <2>2 DEF RegRecord
  <2>4. n = [b EXCEPT !.pooled = d]  BY DEF G!Record, a, b
  <2>5. d \in BOOLEAN  OBVIOUS
  <2> HIDE DEF b, d, n
  <2> QED  BY <2>3, <2>4, <2>5 DEF RegRecord
<1>6. /\ (n.base # NoMem /\ n.feature # "intrusive") => n.intrusive = types[n.base].intrusive
      /\ n.pooled => n.intrusive = NoMem
  <2> HIDE DEF n
  <2> QED  BY <1>3, <1>4
<1> QED  BY <1>4, <1>5, <1>6

LEMMA PublishTypeInv ==
    ASSUME RegLegal, RegInv, NEW r \in Mem, ~G!PoolingRefused, G!Publish(r) PROVE RegInv'
<1> DEFINE p == pending.info
           n == G!Record(r)
<1>1. /\ pending # G!Idle /\ types[r].mem = "free" /\ types' = [types EXCEPT ![r] = n]
      /\ slow' = [slow EXCEPT ![TypeOf[p]] = r]
      /\ fast' = IF ft THEN fast ELSE [fast EXCEPT ![MainUser][p] = r]
      /\ counted' = counted + 1 /\ pending' = G!Idle
      /\ ft' = ft /\ filling' = filling /\ aborted' = aborted
  BY DEF G!Publish
<1>2. /\ p \in Info /\ TypeOf[p] \in Type /\ slow[TypeOf[p]] = G!Placeholder
      /\ pending.base # NoMem => Live(pending.base)
      /\ pending.base \in Mem \cup {NoMem} /\ slow[TypeOf[p]] \notin Mem \cup {NoMem}
  BY <1>1 DEF RegInv, PendingRight, RegLegal, RegTypes
<1>3. /\ n \in RegRecord /\ n.mem = "live" /\ ~n.py /\ n.info = p
      /\ n.base = pending.base /\ n.chain = <<>>
      /\ (n.base # NoMem /\ n.feature # "intrusive") =>
             n.intrusive = types[n.base].intrusive
      /\ n.pooled => n.intrusive = NoMem
  BY <1>2, NewRecord
<1> HIDE DEF n
<1>4. /\ types' \in [Mem -> RegRecord] /\ types'[r] = n
      /\ \A q \in Mem : q # r => types'[q] = types[q]
  BY <1>1, <1>3 DEF RegInv, RegTypes
<1>5. /\ slow' \in [Type -> Mem \cup {NoMem, G!Placeholder}] /\ slow'[TypeOf[p]] = r
      /\ \A t \in Type : t # TypeOf[p] => slow'[t] = slow[t]
  BY <1>1, <1>2 DEF RegInv, RegTypes
<1>6. /\ fast' \in [User -> [Info -> Mem \cup {NoMem}]]
      /\ \A u \in User, i \in Info : u # MainUser \/ i # p => fast'[u][i] = fast[u][i]
      /\ ft => fast' = fast
      /\ ~ft => fast'[MainUser][p] = r
  BY <1>1, <1>2 DEF RegInv, RegTypes, RegLegal
<1>7. RegTypes'
  <2>1. pending' \in [info : Info \cup {NoMem}, base : Mem \cup {NoMem}, feature : Kinds]
    BY <1>1 DEF G!Idle, Kinds
  <2> QED  BY <1>1, <1>4, <1>5, <1>6, <2>1 DEF RegInv, RegTypes
<1>8. \A q \in Mem : Native(q) => q # r /\ types[q].info \in Info /\ slow[TypeOf[types[q].info]] = q
                     /\ TypeOf[types[q].info] # TypeOf[p] /\ TypeOf[types[q].info] \in Type
  BY <1>1, <1>2 DEF RegInv, SlowRight, Native, RegLegal
<1>9. SlowRight'
  <2>1. ASSUME NEW t \in Type, slow'[t] \in Mem
        PROVE  Native(slow[t])' /\ TypeOf[types'[slow'[t]].info] = t
    <3>1. CASE t = TypeOf[p]  BY <1>3, <1>4, <1>5, <3>1 DEF Native
    <3>2. CASE t # TypeOf[p]
      <4>1. Native(slow[t]) /\ TypeOf[types[slow[t]].info] = t /\ slow'[t] = slow[t]
        BY <1>5, <2>1, <3>2 DEF RegInv, SlowRight
      <4>2. types'[slow[t]] = types[slow[t]]  BY <1>4, <1>8, <2>1, <4>1
      <4> QED  BY <4>1, <4>2 DEF Native
    <3> QED  BY <3>1, <3>2
  <2>2. ASSUME NEW q \in Mem, Native(q)'
        PROVE  types'[q].info \in Info /\ slow'[TypeOf[types'[q].info]] = q
    <3>1. CASE q = r  BY <1>2, <1>3, <1>4, <1>5, <3>1
    <3>2. CASE q # r  BY <1>4, <1>5, <1>8, <2>2, <3>2 DEF Native
    <3> QED  BY <3>1, <3>2
  <2> QED  BY <2>1, <2>2 DEF SlowRight
<1>10. PendingRight'  BY <1>1 DEF PendingRight
<1>11. FastFollows'
  <2>1. \A u \in User, i \in Info : fast[u][i] # NoMem =>
            slow[TypeOf[i]] = fast[u][i] /\ fast[u][i] \in Mem /\ TypeOf[i] \in Type
    BY DEF RegInv, FastFollows, RegTypes, RegLegal
  <2>2. ASSUME NEW u \in User, NEW i \in Info, fast'[u][i] # NoMem
        PROVE  slow'[TypeOf[i]] = fast'[u][i]
    <3>1. CASE ~ft /\ u = MainUser /\ i = p  BY <1>5, <1>6, <3>1
    <3>2. CASE fast'[u][i] = fast[u][i]
      <4>1. TypeOf[i] # TypeOf[p]  BY <1>2, <2>1, <2>2, <3>2
      <4> QED  BY <1>5, <2>1, <2>2, <3>2, <4>1
    <3> QED  BY <1>6, <3>1, <3>2
  <2>3. ~ft => \A u \in User : u # MainUser => \A i \in Info : fast'[u][i] = NoMem
    BY <1>6 DEF RegInv, FastFollows
  <2> QED  BY <1>1, <2>2, <2>3 DEF FastFollows
<1>12. ChainRight'
  <2> SUFFICES ASSUME ~ft, NEW q \in Mem, Native(q)' PROVE ChainOf(q)'
    BY <1>1 DEF ChainRight
  <2>1. CASE q = r
    <3>1. G!Erased(q)' = {p}  BY <1>3, <1>4, <2>1 DEF G!Erased, G!Range
    <3>2. \A i \in Info : i # p => fast'[MainUser][i] # r
      <4> SUFFICES ASSUME NEW i \in Info, i # p, fast[MainUser][i] = r PROVE FALSE
        BY <1>6 DEF RegLegal
      <4>1. slow[TypeOf[i]] = r /\ TypeOf[i] \in Type
        BY DEF RegInv, FastFollows, RegLegal
      <4> QED  BY <1>8, <4>1 DEF RegInv, SlowRight
    <3>3. G!IsInjective(<<types'[q].info>> \o types'[q].chain)
      BY <1>3, <1>4, <2>1 DEF G!IsInjective
    <3> QED  BY <1>6, <2>1, <3>1, <3>2, <3>3 DEF ChainOf
  <2>2. CASE q # r
    <3>1. Native(q) /\ types'[q] = types[q]  BY <1>4, <2>2 DEF Native
    <3>2. ChainOf(q)  BY <3>1 DEF RegInv, ChainRight
    <3>3. G!Erased(q)' = G!Erased(q)  BY <3>1 DEF G!Erased
    <3>4. fast[MainUser][p] # q
      BY <1>2 DEF RegInv, FastFollows, RegLegal
    <3>5. \A i \in Info : fast'[MainUser][i] = q <=> fast[MainUser][i] = q
      BY <1>6, <2>2, <3>4 DEF RegLegal
    <3> QED  BY <3>1, <3>2, <3>3, <3>5 DEF ChainOf
  <2> QED  BY <2>1, <2>2
<1>13. \A q \in Mem : /\ Live(q) => Live(q)' /\ types'[q] = types[q]
                      /\ types[q].mem # "free" => types'[q] = types[q]
                      /\ types'[q].mem = "free" => types'[q] = types[q]
                      /\ q # r => types'[q] = types[q]
  BY <1>1, <1>3, <1>4 DEF Live
<1>14. BaseRight'
  <2> SUFFICES ASSUME NEW q \in Mem
               PROVE  /\ types'[q].mem = "free" => types'[q].base = NoMem
                      /\ types'[q].mem = "blank" => types'[q].py /\ types'[q].base \in Mem
                                                    /\ types'[types'[q].base].mem # "free"
                      /\ Live(q)' /\ types'[q].base # NoMem => Live(types[q].base)'
    BY DEF BaseRight
  <2>1. CASE q = r  BY <1>2, <1>3, <1>4, <1>13, <2>1
  <2>2. CASE q # r
    <3>1. types'[q] = types[q]  BY <1>13, <2>2
    <3>2. /\ types[q].mem = "free" => types[q].base = NoMem
          /\ types[q].mem = "blank" =>
                types[q].py /\ types[q].base \in Mem /\ types[types[q].base].mem # "free"
          /\ Live(q) /\ types[q].base # NoMem => Live(types[q].base)
      BY DEF RegInv, BaseRight
    <3>3. types[q].base \in Mem \cup {NoMem}  BY DEF RegInv, RegTypes, RegRecord
    <3> QED  BY <1>13, <3>1, <3>2, <3>3 DEF Live
  <2> QED  BY <2>1, <2>2
<1>15. FillingRight'
  <2>1. \A u \in User : filling[u] \in Mem \cup {NoMem}  BY DEF RegInv, RegTypes
  <2> QED  BY <1>1, <1>13, <2>1 DEF RegInv, FillingRight
<1>16. Inherits'
  <2> SUFFICES ASSUME NEW q \in Mem, Live(q)'
               PROVE  /\ (types'[q].base # NoMem /\ types'[q].feature # "intrusive") =>
                            types'[q].intrusive = types'[types'[q].base].intrusive
                      /\ types'[q].pooled => types'[q].intrusive = NoMem
                      /\ types'[q].py => ~types'[q].pooled /\ ~types'[q].arrays
    BY DEF Inherits
  <2>1. CASE q = r
    <3>1. n.base # NoMem => types'[n.base] = types[n.base]  BY <1>2, <1>3, <1>13
    <3> QED  BY <1>3, <1>4, <2>1, <3>1
  <2>2. CASE q # r
    <3>1. types'[q] = types[q] /\ Live(q)  BY <1>13, <2>2 DEF Live
    <3>2. types[q].base # NoMem => types[q].base \in Mem /\ Live(types[q].base)
      BY <3>1 DEF RegInv, BaseRight, RegTypes, RegRecord
    <3>3. types[q].base # NoMem => types'[types[q].base] = types[types[q].base]
      BY <1>13, <3>2
    <3> QED  BY <3>1, <3>3 DEF RegInv, Inherits
  <2> QED  BY <2>1, <2>2
<1>17. CountRight'
  <2>1. LiveSet' = LiveSet \cup {r} /\ r \notin LiveSet
    BY <1>1, <1>3, <1>4 DEF LiveSet
  <2>2. Cardinality(LiveSet') = Cardinality(LiveSet) + 1
    BY <2>1, LiveFinite, FS_AddElement
  <2> QED  BY <1>1, <2>2 DEF RegInv, CountRight
<1> QED
  BY <1>1, <1>7, <1>9, <1>10, <1>11, <1>12, <1>14, <1>15, <1>16, <1>17 DEF RegInv

\* An address joins the chain of a type.
LEMMA Prepend ==
    ASSUME NEW c \in Seq(Info), NEW i \in Info
    PROVE  /\ <<i>> \o c \in Seq(Info)
           /\ G!Range(<<i>> \o c) = {i} \cup G!Range(c)
<1> DEFINE s == <<i>> \o c
<1>1. /\ s \in Seq(Info) /\ Len(s) = Len(c) + 1 /\ s[1] = i
      /\ \A k \in 1 .. Len(c) : s[k + 1] = c[k]
  OBVIOUS
<1>2. /\ DOMAIN s = 1 .. Len(c) + 1 /\ DOMAIN c = 1 .. Len(c) /\ Len(c) \in Nat
  BY <1>1
<1>3. ASSUME NEW k \in DOMAIN s PROVE s[k] \in {i} \cup G!Range(c)
  <2>1. CASE k = 1  BY <1>1, <2>1
  <2>2. CASE k # 1
    <3>1. k - 1 \in 1 .. Len(c) /\ k = (k - 1) + 1  BY <1>2, <2>2
    <3>2. s[k] = c[k - 1]  BY <1>1, <3>1
    <3> QED  BY <1>2, <3>1, <3>2 DEF G!Range
  <2> QED  BY <2>1, <2>2
<1>4. i \in G!Range(s)
  <2>1. 1 \in DOMAIN s  BY <1>2
  <2> HIDE DEF s
  <2> QED  BY <1>1, <2>1 DEF G!Range
<1>5. ASSUME NEW k \in DOMAIN c PROVE c[k] \in G!Range(s)
  <2>1. k + 1 \in DOMAIN s /\ s[k + 1] = c[k]  BY <1>1, <1>2
  <2> HIDE DEF s
  <2> QED  BY <2>1 DEF G!Range
<1> HIDE DEF s
<1>6. G!Range(s) = {i} \cup G!Range(c)  BY <1>3, <1>4, <1>5 DEF G!Range
<1> QED  BY <1>1, <1>6 DEF s

LEMMA StaysInjective ==
    ASSUME NEW c \in Seq(Info), NEW i \in Info, NEW a \in Info,
           G!IsInjective(<<a>> \o c), i # a, i \notin G!Range(c)
    PROVE  G!IsInjective(<<a>> \o (<<i>> \o c))
<1> DEFINE s == <<a>> \o c
           t == <<a>> \o (<<i>> \o c)
<1>1. /\ Len(c) \in Nat /\ DOMAIN c = 1 .. Len(c) /\ DOMAIN s = 1 .. Len(c) + 1
      /\ DOMAIN t = 1 .. Len(c) + 2 /\ s[1] = a /\ t[1] = a /\ t[2] = i
      /\ \A k \in 1 .. Len(c) : s[k + 1] = c[k] /\ t[k + 2] = c[k]
  OBVIOUS
<1> HIDE DEF s, t
<1>2. \A j, k \in DOMAIN s : s[j] = s[k] => j = k  BY DEF G!IsInjective, s
<1>3. ASSUME NEW k \in DOMAIN t, k # 2
      PROVE  t[k] # i /\ t[k] = s[IF k = 1 THEN 1 ELSE k - 1]
  <2>1. CASE k = 1  BY <1>1, <2>1
  <2>2. CASE k # 1
    <3>1. k - 2 \in 1 .. Len(c) /\ k = (k - 2) + 2 /\ k - 1 = (k - 2) + 1  BY <1>1, <1>3, <2>2
    <3>2. t[k] = c[k - 2] /\ s[k - 1] = c[k - 2]  BY <1>1, <3>1
    <3>3. c[k - 2] # i  BY <1>1, <3>1 DEF G!Range
    <3> QED  BY <2>2, <3>2, <3>3
  <2> QED  BY <2>1, <2>2
<1>4. ASSUME NEW j \in DOMAIN t, NEW k \in DOMAIN t, t[j] = t[k] PROVE j = k
  <2>1. CASE j = 2 \/ k = 2  BY <1>1, <1>3, <1>4, <2>1
  <2>2. CASE j # 2 /\ k # 2
    <3> DEFINE m == IF j = 1 THEN 1 ELSE j - 1
               n == IF k = 1 THEN 1 ELSE k - 1
    <3>1. m \in DOMAIN s /\ n \in DOMAIN s  BY <1>1, <2>2
    <3>2. s[m] = s[n]  BY <1>3, <1>4, <2>2
    <3>3. m = n  BY <1>2, <3>1, <3>2
    <3> QED  BY <1>1, <2>2, <3>3
  <2> QED  BY <2>1, <2>2
<1> QED  BY <1>4 DEF G!IsInjective, t

LEMMA LookupInv ==
    ASSUME RegLegal, RegInv, NEW u \in User, NEW i \in Info, G!Lookup(u, i) PROVE RegInv'
<1> DEFINE r == slow[TypeOf[i]]
           w == G!Cache(u)
<1>1. /\ r \notin {NoMem, G!Placeholder} /\ fast[w][i] = NoMem
      /\ fast' = [fast EXCEPT ![w][i] = r]
      /\ types' = IF ft THEN types ELSE [types EXCEPT ![r].chain = <<i>> \o @]
      /\ ft' = ft /\ slow' = slow /\ pending' = pending /\ filling' = filling
      /\ counted' = counted /\ aborted' = aborted
  BY DEF G!Lookup
<1>2. /\ r \in Mem /\ Native(r) /\ w \in User /\ (~ft => w = MainUser)
      /\ types[r].info \in Info /\ types[r].chain \in Seq(Info) /\ types[r] \in RegRecord
      /\ r # NoMem
  BY <1>1 DEF RegInv, RegTypes, SlowRight, RegLegal, G!Cache, Native, RegRecord
<1>3. /\ fast' \in [User -> [Info -> Mem \cup {NoMem}]] /\ fast'[w][i] = r
      /\ \A v \in User, j \in Info : v # w \/ j # i => fast'[v][j] = fast[v][j]
  BY <1>1, <1>2 DEF RegInv, RegTypes
<1> HIDE DEF r, w
<1>4. <<i>> \o types[r].chain \in Seq(Info)  BY <1>2, Prepend
<1>5. types' \in [Mem -> RegRecord]
  BY <1>1, <1>2, <1>4 DEF RegInv, RegTypes, RegRecord
<1>6. \A q \in Mem : /\ types'[q].mem = types[q].mem /\ types'[q].info = types[q].info
                     /\ types'[q].base = types[q].base /\ types'[q].py = types[q].py
                     /\ types'[q].feature = types[q].feature
                     /\ types'[q].intrusive = types[q].intrusive
                     /\ types'[q].pooled = types[q].pooled
                     /\ types'[q].arrays = types[q].arrays
                     /\ q # r => types'[q].chain = types[q].chain
  BY <1>1, <1>2 DEF RegInv, RegTypes, RegRecord
<1>7. ~ft => types'[r].chain = <<i>> \o types[r].chain
  BY <1>1, <1>2 DEF RegInv, RegTypes, RegRecord
<1>8. RegTypes'  BY <1>1, <1>3, <1>5 DEF RegInv, RegTypes
<1>9. SlowRight'  BY <1>1, <1>6 DEF RegInv, SlowRight, Native
<1>10. PendingRight'
  <2>1. pending.base # NoMem => pending.base \in Mem  BY DEF RegInv, RegTypes
  <2> QED  BY <1>1, <1>6, <2>1 DEF RegInv, PendingRight, Live
<1>11. FastFollows'
  BY <1>1, <1>2, <1>3 DEF RegInv, FastFollows, r
<1>12. ChainRight'
  <2> SUFFICES ASSUME ~ft, NEW q \in Mem, Native(q)' PROVE ChainOf(q)'
    BY <1>1 DEF ChainRight
  <2>1. Native(q) /\ ChainOf(q) /\ w = MainUser  BY <1>2, <1>6 DEF Native, RegInv, ChainRight
  <2>2. CASE q = r
    <3>1. i \notin G!Erased(q)  BY <1>1, <1>2, <2>1, <2>2 DEF ChainOf
    <3>2. G!Erased(q)' = G!Erased(q) \cup {i}
      <4>1. G!Range(<<i>> \o types[r].chain) = {i} \cup G!Range(types[r].chain)
        BY <1>2, Prepend
      <4>2. types'[q].info = types[q].info /\ types'[q].chain = <<i>> \o types[r].chain
        BY <1>6, <1>7, <2>2
      <4> QED  BY <2>2, <4>1, <4>2 DEF G!Erased
    <3>3. \A j \in Info : j \in G!Erased(q)' <=> fast'[MainUser][j] = q
      BY <1>3, <2>1, <2>2, <3>2 DEF ChainOf, RegLegal
    <3>4. i # types[r].info /\ i \notin G!Range(types[r].chain)
      BY <2>2, <3>1 DEF G!Erased
    <3>5. G!IsInjective(<<types[r].info>> \o types[r].chain)  BY <2>1, <2>2 DEF ChainOf
    <3>6. G!IsInjective(<<types[r].info>> \o (<<i>> \o types[r].chain))
      BY <1>2, <3>4, <3>5, StaysInjective
    <3>7. G!IsInjective(<<types'[q].info>> \o types'[q].chain)
      BY <1>6, <1>7, <2>2, <3>6
    <3> QED  BY <3>3, <3>7 DEF ChainOf
  <2>3. CASE q # r
    <3>1. types'[q].info = types[q].info /\ types'[q].chain = types[q].chain
      BY <1>6, <2>3
    <3>2. G!Erased(q)' = G!Erased(q)  BY <3>1 DEF G!Erased
    <3>3. \A j \in Info : (fast'[MainUser][j] = q) <=> (fast[MainUser][j] = q)
      BY <1>1, <1>3, <2>1, <2>3 DEF RegLegal
    <3> QED  BY <2>1, <3>1, <3>2, <3>3 DEF ChainOf
  <2> QED  BY <2>2, <2>3
<1>13. \A q \in Mem : types[q].base \in Mem \cup {NoMem}  BY DEF RegInv, RegTypes, RegRecord
<1>14. BaseRight'  BY <1>6, <1>13 DEF RegInv, BaseRight, Live
<1>15. FillingRight'
  <2>1. \A v \in User : filling[v] \in Mem \cup {NoMem}  BY DEF RegInv, RegTypes
  <2> QED  BY <1>1, <1>6, <2>1 DEF RegInv, FillingRight, Live
<1>16. Inherits'  BY <1>6, <1>13 DEF RegInv, Inherits, Live
<1>17. CountRight'  BY <1>1, <1>6, CountSame DEF RegInv
<1> QED
  BY <1>1, <1>8, <1>9, <1>10, <1>11, <1>12, <1>14, <1>15, <1>16, <1>17 DEF RegInv

LEMMA AddConversionInv ==
    ASSUME RegLegal, RegInv, NEW u \in User, NEW i \in Info, G!AddConversion(u, i) PROVE RegInv'
<1> DEFINE r == fast[G!Cache(u)][i]
<1>1. /\ r # NoMem /\ types' = [types EXCEPT ![r].arrays = TRUE]
      /\ ft' = ft /\ slow' = slow /\ fast' = fast /\ pending' = pending /\ filling' = filling
      /\ counted' = counted /\ aborted' = aborted
  BY DEF G!AddConversion
<1>2. r \in Mem /\ Native(r)
  <2>1. G!Cache(u) \in User  BY DEF G!Cache, RegLegal
  <2>2. r \in Mem /\ slow[TypeOf[i]] = r  BY <1>1, <2>1 DEF RegInv, RegTypes, FastFollows
  <2> QED  BY <2>2 DEF RegInv, SlowRight, RegLegal
<1> HIDE DEF r
<1>3. types' \in [Mem -> RegRecord]  BY <1>1, <1>2 DEF RegInv, RegTypes, RegRecord
<1>4. \A q \in Mem : /\ types'[q].mem = types[q].mem /\ types'[q].info = types[q].info
                     /\ types'[q].base = types[q].base /\ types'[q].py = types[q].py
                     /\ types'[q].feature = types[q].feature
                     /\ types'[q].intrusive = types[q].intrusive
                     /\ types'[q].pooled = types[q].pooled
                     /\ types'[q].chain = types[q].chain
                     /\ q # r => types'[q].arrays = types[q].arrays
  BY <1>1, <1>2 DEF RegInv, RegTypes, RegRecord
<1>5. RegTypes'  BY <1>1, <1>3 DEF RegInv, RegTypes
<1>6. SlowRight'  BY <1>1, <1>4 DEF RegInv, SlowRight, Native
<1>7. PendingRight'
  <2>1. pending.base # NoMem => pending.base \in Mem  BY DEF RegInv, RegTypes
  <2> QED  BY <1>1, <1>4, <2>1 DEF RegInv, PendingRight, Live
<1>8. FastFollows'  BY <1>1 DEF RegInv, FastFollows
<1>9. ChainRight'  BY <1>1, <1>4, ChainSame DEF RegInv, Native
<1>10. \A q \in Mem : types[q].base \in Mem \cup {NoMem}  BY DEF RegInv, RegTypes, RegRecord
<1>11. BaseRight'  BY <1>4, <1>10 DEF RegInv, BaseRight, Live
<1>12. FillingRight'
  <2>1. \A v \in User : filling[v] \in Mem \cup {NoMem}  BY DEF RegInv, RegTypes
  <2> QED  BY <1>1, <1>4, <2>1 DEF RegInv, FillingRight, Live
<1>13. Inherits'  BY <1>2, <1>4, <1>10 DEF RegInv, Inherits, Live, Native
<1>14. CountRight'  BY <1>1, <1>4, CountSame DEF RegInv
<1> QED
  BY <1>1, <1>5, <1>6, <1>7, <1>8, <1>9, <1>11, <1>12, <1>13, <1>14 DEF RegInv

LEMMA DeriveInv ==
    ASSUME RegLegal, RegInv, NEW r \in Mem, NEW b \in Mem, G!Derive(r, b) PROVE RegInv'
<1> DEFINE n == [G!Free EXCEPT !.mem = "blank", !.base = b, !.py = TRUE]
<1>1. /\ types[r].mem = "free" /\ types[b].mem \in {"blank", "live"}
      /\ types' = [types EXCEPT ![r] = n]
      /\ ft' = ft /\ slow' = slow /\ fast' = fast /\ pending' = pending /\ filling' = filling
      /\ counted' = counted /\ aborted' = aborted
  BY DEF G!Derive
<1>2. n \in RegRecord /\ n.mem = "blank" /\ n.base = b /\ n.py
  <2>1. G!Free \in RegRecord  BY DEF G!Free, RegRecord, Kinds
  <2>2. n \in RegRecord  BY <2>1 DEF RegRecord
  <2>3. n.mem = "blank" /\ n.base = b /\ n.py  BY DEF G!Free
  <2> QED  BY <2>2, <2>3
<1> HIDE DEF n
<1>3. /\ types' \in [Mem -> RegRecord] /\ types'[r] = n
      /\ \A q \in Mem : q # r => types'[q] = types[q]
  BY <1>1, <1>2 DEF RegInv, RegTypes
<1>4. /\ \A q \in Mem : types[q].mem # "free" => q # r /\ types'[q] = types[q]
      /\ \A q \in Mem : (types'[q].mem = "live") <=> (types[q].mem = "live")
      /\ \A q \in Mem : types'[q].mem = "live" => types'[q] = types[q]
      /\ b # r
  BY <1>1, <1>2, <1>3
<1>5. RegTypes'  BY <1>1, <1>3 DEF RegInv, RegTypes
<1>6. SlowRight'  BY <1>1, <1>4 DEF RegInv, SlowRight, Native
<1>7. PendingRight'
  <2>1. pending.base # NoMem => pending.base \in Mem  BY DEF RegInv, RegTypes
  <2> QED  BY <1>1, <1>4, <2>1 DEF RegInv, PendingRight, Live
<1>8. FastFollows'  BY <1>1 DEF RegInv, FastFollows
<1>9. ChainRight'  BY <1>1, <1>4, ChainSame DEF RegInv, Native
<1>10. BaseRight'
  <2>1. \A q \in Mem : types[q].base \in Mem \cup {NoMem}  BY DEF RegInv, RegTypes, RegRecord
  <2>2. ASSUME NEW q \in Mem, q # r
        PROVE  /\ types'[q].mem = "free" => types'[q].base = NoMem
               /\ types'[q].mem = "blank" => types'[q].py /\ types'[q].base \in Mem
                                             /\ types'[types'[q].base].mem # "free"
               /\ types'[q].mem = "live" /\ types'[q].base # NoMem =>
                     types'[types'[q].base].mem = "live"
    <3>1. types'[q] = types[q]  BY <1>3, <2>2
    <3> QED  BY <1>4, <2>1, <3>1 DEF RegInv, BaseRight, Live
  <2>3. types'[r].mem = "blank" /\ types'[r].py /\ types'[r].base = b /\ types'[b].mem # "free"
    BY <1>1, <1>2, <1>3, <1>4
  <2> QED  BY <2>2, <2>3 DEF BaseRight, Live
<1>11. FillingRight'
  <2>1. \A v \in User : filling[v] \in Mem \cup {NoMem}  BY DEF RegInv, RegTypes
  <2> QED  BY <1>1, <1>4, <2>1 DEF RegInv, FillingRight, Live
<1>12. Inherits'
  <2>1. \A q \in Mem : types[q].base \in Mem \cup {NoMem}  BY DEF RegInv, RegTypes, RegRecord
  <2>2. ASSUME NEW q \in Mem, types[q].mem = "live", types[q].base # NoMem
        PROVE  types'[types[q].base] = types[types[q].base]
    BY <1>4, <2>1, <2>2 DEF RegInv, BaseRight, Live
  <2> QED  BY <1>4, <2>2 DEF RegInv, Inherits, Live
<1>13. CountRight'
  <2>1. LiveSet' = LiveSet  BY <1>4 DEF LiveSet
  <2> QED  BY <1>1, <2>1 DEF RegInv, CountRight
<1> QED
  BY <1>1, <1>5, <1>6, <1>7, <1>8, <1>9, <1>10, <1>11, <1>12, <1>13 DEF RegInv

LEMMA AssembleInv ==
    ASSUME RegLegal, RegInv, NEW u \in User, NEW r \in Mem, G!Assemble(u, r) PROVE RegInv'
<1>1. /\ types[r].mem = "blank" /\ types[types[r].base].mem = "live"
      /\ filling' = [filling EXCEPT ![u] = r]
      /\ ft' = ft /\ slow' = slow /\ fast' = fast /\ types' = types /\ pending' = pending
      /\ counted' = counted /\ aborted' = aborted
  BY DEF G!Assemble
<1>2. RegTypes'  BY <1>1 DEF RegInv, RegTypes
<1>3. FillingRight'
  <2>1. types[r].py /\ types[r].base \in Mem  BY <1>1 DEF RegInv, BaseRight
  <2>2. \A v \in User : filling'[v] = IF v = u THEN r ELSE filling[v]
    BY <1>1 DEF RegInv, RegTypes
  <2> QED  BY <1>1, <2>1, <2>2 DEF RegInv, FillingRight, Live
<1>4. SlowRight' /\ PendingRight' /\ FastFollows'
  BY <1>1 DEF RegInv, SlowRight, Native, PendingRight, FastFollows, Live
<1>5. ChainRight'  BY <1>1, ChainSame DEF RegInv, Native
<1>6. BaseRight' /\ Inherits' /\ CountRight'
  BY <1>1 DEF RegInv, BaseRight, Inherits, CountRight, LiveSet, Live
<1> QED  BY <1>1, <1>2, <1>3, <1>4, <1>5, <1>6 DEF RegInv

\* What a Python subclass takes over from its base.
LEMMA SubclassRecord ==
    ASSUME RegLegal, RegInv, NEW r \in Mem, types[r].base \in Mem
    PROVE  LET b == types[types[r].base]
               n == G!Inherit(b, r)
           IN  /\ n \in RegRecord /\ n.mem = "live" /\ n.py /\ n.base = types[r].base
               /\ n.feature = "plain" /\ n.intrusive = b.intrusive /\ ~n.pooled /\ ~n.arrays
<1> DEFINE b == types[types[r].base]
<1>1. b.info \in Info \cup {NoMem} /\ b.intrusive \in Mem \cup {NoMem}
  BY DEF RegInv, RegTypes, RegRecord
<1> HIDE DEF b
<1>2. LET n == G!Inherit(b, r)
      IN  /\ n.mem = "live" /\ n.py /\ n.base = types[r].base
          /\ n.feature = "plain" /\ n.intrusive = b.intrusive /\ ~n.pooled /\ ~n.arrays
  BY DEF G!Inherit, G!Free
<1>3. G!Inherit(b, r) \in RegRecord
  <2>1. G!Free \in RegRecord  BY DEF G!Free, RegRecord, Kinds
  <2> DEFINE a == [G!Free EXCEPT !.mem = "live", !.info = b.info, !.base = types[r].base]
  <2>2. a \in RegRecord  BY <1>1, <2>1 DEF RegRecord
  <2>3. G!Inherit(b, r) = [a EXCEPT !.py = TRUE, !.intrusive = b.intrusive]
    BY DEF G!Inherit, a
  <2> HIDE DEF a
  <2> QED  BY <1>1, <2>2, <2>3 DEF RegRecord
<1> QED  BY <1>2, <1>3 DEF b

LEMMA FillTypeInv ==
    ASSUME RegLegal, RegInv, NEW u \in User, G!Fill(u) PROVE RegInv'
<1> DEFINE r == filling[u]
           n == G!Inherit(types[types[r].base], r)
<1>1. /\ r # NoMem /\ filling' = [filling EXCEPT ![u] = NoMem]
      /\ types[r].mem = "blank" => types' = [types EXCEPT ![r] = n] /\ counted' = counted + 1
      /\ types[r].mem # "blank" => types' = types /\ counted' = counted
      /\ ft' = ft /\ slow' = slow /\ fast' = fast /\ pending' = pending /\ aborted' = aborted
  <2>1. r \in Mem \cup {NoMem}  BY DEF RegInv, RegTypes
  <2>2. r # NoMem  BY DEF G!Fill
  <2>3. [types EXCEPT ![r] = G!Inherit(types[@.base], r)] = [types EXCEPT ![r] = n]
    OBVIOUS
  <2> QED  BY <2>1, <2>2, <2>3 DEF G!Fill
<1>2. /\ r \in Mem /\ types[r].mem # "free" /\ types[r].py /\ types[r].base \in Mem
      /\ types[types[r].base].mem = "live"
  BY <1>1 DEF RegInv, RegTypes, FillingRight, Live
<1>3. /\ filling' \in [User -> Mem \cup {NoMem}]
      /\ \A v \in User : filling'[v] # NoMem => filling'[v] = filling[v]
  BY <1>1 DEF RegInv, RegTypes
<1>4. CASE types[r].mem # "blank"
  <2>1. RegTypes'  BY <1>1, <1>3, <1>4 DEF RegInv, RegTypes
  <2>2. FillingRight'  BY <1>1, <1>3, <1>4 DEF RegInv, FillingRight, Live
  <2>3. SlowRight' /\ PendingRight' /\ FastFollows'
    BY <1>1, <1>4 DEF RegInv, SlowRight, Native, PendingRight, FastFollows, Live
  <2>4. ChainRight'  BY <1>1, <1>4, ChainSame DEF RegInv, Native
  <2>5. BaseRight' /\ Inherits' /\ CountRight'
    BY <1>1, <1>4 DEF RegInv, BaseRight, Inherits, CountRight, LiveSet, Live
  <2> QED  BY <1>1, <2>1, <2>2, <2>3, <2>4, <2>5 DEF RegInv
<1>5. CASE types[r].mem = "blank"
  <2>1. /\ n \in RegRecord /\ n.mem = "live" /\ n.py /\ n.base = types[r].base
        /\ n.feature = "plain" /\ n.intrusive = types[types[r].base].intrusive
        /\ ~n.pooled /\ ~n.arrays
    BY <1>2, SubclassRecord
  <2> HIDE DEF r, n
  <2>2. /\ types' \in [Mem -> RegRecord] /\ types'[r] = n
        /\ \A q \in Mem : q # r => types'[q] = types[q]
    BY <1>1, <1>2, <1>5, <2>1 DEF RegInv, RegTypes
  <2>3. /\ \A q \in Mem : types[q].mem = "live" => q # r /\ types'[q] = types[q]
        /\ \A q \in Mem : Native(q)' => Native(q) /\ types'[q] = types[q]
        /\ \A q \in Mem : types'[q].base = types[q].base /\ (types'[q].py <=> types[q].py)
        /\ \A q \in Mem : (types'[q].mem = "free") <=> (types[q].mem = "free")
    BY <1>2, <1>5, <2>1, <2>2 DEF Native
  <2>4. RegTypes'  BY <1>1, <1>3, <2>2 DEF RegInv, RegTypes
  <2>5. SlowRight'
    <3>1. \A q \in Mem : Native(q) => types'[q] = types[q] /\ Native(q)'  BY <2>3 DEF Native
    <3> QED  BY <1>1, <2>3, <3>1 DEF RegInv, SlowRight
  <2>6. PendingRight'
    <3>1. pending.base # NoMem => pending.base \in Mem  BY DEF RegInv, RegTypes
    <3> QED  BY <1>1, <2>3, <3>1 DEF RegInv, PendingRight, Live
  <2>7. FastFollows'  BY <1>1 DEF RegInv, FastFollows
  <2>8. ChainRight'  BY <1>1, <2>3, ChainSame DEF RegInv
  <2>9. \A q \in Mem : types[q].base \in Mem \cup {NoMem}  BY DEF RegInv, RegTypes, RegRecord
  <2>10. BaseRight'
    <3> SUFFICES ASSUME NEW q \in Mem
                 PROVE  /\ types'[q].mem = "free" => types'[q].base = NoMem
                        /\ types'[q].mem = "blank" => types'[q].py /\ types'[q].base \in Mem
                                                      /\ types'[types'[q].base].mem # "free"
                        /\ types'[q].mem = "live" /\ types'[q].base # NoMem =>
                              types'[types'[q].base].mem = "live"
      BY DEF BaseRight, Live
    <3>1. CASE q = r  BY <1>2, <2>1, <2>2, <2>3, <3>1
    <3>2. CASE q # r
      <4>1. types'[q] = types[q]  BY <2>2, <3>2
      <4> QED  BY <2>3, <2>9, <4>1 DEF RegInv, BaseRight, Live
    <3> QED  BY <3>1, <3>2
  <2>11. FillingRight'
    <3>1. \A v \in User : filling[v] \in Mem \cup {NoMem}  BY DEF RegInv, RegTypes
    <3> QED  BY <1>3, <2>3, <3>1 DEF RegInv, FillingRight, Live
  <2>12. Inherits'
    <3> SUFFICES ASSUME NEW q \in Mem, types'[q].mem = "live"
                 PROVE  /\ (types'[q].base # NoMem /\ types'[q].feature # "intrusive") =>
                              types'[q].intrusive = types'[types'[q].base].intrusive
                        /\ types'[q].pooled => types'[q].intrusive = NoMem
                        /\ types'[q].py => ~types'[q].pooled /\ ~types'[q].arrays
      BY DEF Inherits, Live
    <3>1. CASE q = r
      <4>1. types'[types[r].base] = types[types[r].base]  BY <1>2, <2>3
      <4> QED  BY <2>1, <2>2, <3>1, <4>1
    <3>2. CASE q # r
      <4>1. types'[q] = types[q] /\ types[q].mem = "live"  BY <2>2, <3>2
      <4>2. types[q].base # NoMem => types'[types[q].base] = types[types[q].base]
        BY <2>3, <2>9, <4>1 DEF RegInv, BaseRight, Live
      <4> QED  BY <4>1, <4>2 DEF RegInv, Inherits, Live
    <3> QED  BY <3>1, <3>2
  <2>13. CountRight'
    <3>1. LiveSet' = LiveSet \cup {r} /\ r \notin LiveSet
      BY <1>2, <1>5, <2>1, <2>2 DEF LiveSet
    <3>2. Cardinality(LiveSet') = Cardinality(LiveSet) + 1
      BY <3>1, LiveFinite, FS_AddElement
    <3> QED  BY <1>1, <1>5, <3>2 DEF RegInv, CountRight
  <2> QED
    BY <1>1, <2>4, <2>5, <2>6, <2>7, <2>8, <2>10, <2>11, <2>12, <2>13 DEF RegInv
<1> QED  BY <1>4, <1>5

LEMMA DeallocInv ==
    ASSUME RegLegal, RegInv, NEW r \in Mem, G!Dealloc(r) PROVE RegInv'
<1> DEFINE t == TypeOf[types[r].info]
<1>1. /\ types[r].mem \in {"blank", "live"} /\ ~(ft /\ ~types[r].py)
      /\ \A d \in Mem : types[d].base # r
      /\ pending.base # r /\ r \notin G!Range(filling)
      /\ types' = [types EXCEPT ![r] = G!Free]
      /\ Native(r) => G!Unregister(r)
      /\ ~Native(r) => slow' = slow /\ fast' = fast /\ aborted' = aborted
      /\ Live(r) => counted' = counted - 1
      /\ ~Live(r) => counted' = counted
      /\ ft' = ft /\ pending' = pending /\ filling' = filling
  BY DEF G!Dealloc, Native, Live
<1>2. G!Free \in RegRecord /\ G!Free.mem = "free" /\ G!Free.base = NoMem
  BY DEF G!Free, RegRecord, Kinds
<1>3. /\ types' \in [Mem -> RegRecord] /\ types'[r].mem = "free" /\ types'[r].base = NoMem
      /\ \A q \in Mem : q # r => types'[q] = types[q]
  BY <1>1, <1>2 DEF RegInv, RegTypes
<1>4. \A q \in Mem : types'[q].mem # "free" => q # r /\ types'[q] = types[q]
  BY <1>3
<1>5. \A q \in Mem : types[q].base \in Mem \cup {NoMem} /\ types[q].base # r
  BY <1>1 DEF RegInv, RegTypes, RegRecord
<1>6. /\ Native(r) => ~ft /\ types[r].info \in Info /\ t \in Type /\ slow[t] = r
      /\ r # NoMem /\ r # G!Placeholder
  BY <1>1 DEF Native, RegInv, SlowRight, RegLegal
<1>7. /\ slow' \in [Type -> Mem \cup {NoMem, G!Placeholder}]
      /\ \A s \in Type : slow[s] # r => slow'[s] = slow[s]
      /\ \A s \in Type : slow[s] = r => slow'[s] = NoMem
  <2>1. CASE Native(r)
    <3>1. slow' = [slow EXCEPT ![t] = NoMem]  BY <1>1, <2>1 DEF G!Unregister
    <3>2. \A s \in Type : slow[s] = r => s = t  BY <1>6, <2>1 DEF RegInv, SlowRight
    <3> QED  BY <1>6, <2>1, <3>1, <3>2 DEF RegInv, RegTypes
  <2>2. CASE ~Native(r)
    <3>1. \A s \in Type : slow[s] # r  BY <2>2 DEF RegInv, SlowRight
    <3> QED  BY <1>1, <2>2, <3>1 DEF RegInv, RegTypes
  <2> QED  BY <2>1, <2>2
<1>8. /\ fast' \in [User -> [Info -> Mem \cup {NoMem}]]
      /\ \A u \in User, i \in Info : fast[u][i] # r => fast'[u][i] = fast[u][i]
      /\ \A u \in User, i \in Info : fast'[u][i] # r
      /\ ~aborted'
  <2>1. CASE Native(r)
    <3> DEFINE row == [i \in Info |-> IF i \in G!Erased(r) THEN NoMem ELSE fast[MainUser][i]]
    <3>1. fast' = [fast EXCEPT ![MainUser] = row]  BY <1>1, <2>1 DEF G!Unregister
    <3>2. ChainOf(r)  BY <1>6, <2>1 DEF RegInv, ChainRight
    <3>3. row \in [Info -> Mem \cup {NoMem}]  BY DEF RegInv, RegTypes, RegLegal
    <3>4. \A i \in Info : row[i] = IF fast[MainUser][i] = r THEN NoMem ELSE fast[MainUser][i]
      BY <3>2 DEF ChainOf
    <3> HIDE DEF row
    <3>5. /\ fast' \in [User -> [Info -> Mem \cup {NoMem}]] /\ fast'[MainUser] = row
          /\ \A u \in User : u # MainUser => fast'[u] = fast[u]
      BY <3>1, <3>3 DEF RegInv, RegTypes, RegLegal
    <3>6. \A u \in User : u # MainUser => \A i \in Info : fast[u][i] = NoMem
      BY <1>6, <2>1 DEF RegInv, FastFollows
    <3>7. G!Erased(r) \subseteq Info
      <4>1. types[r].chain \in Seq(Info)  BY DEF RegInv, RegTypes, RegRecord
      <4>2. G!Range(types[r].chain) \subseteq Info  BY <4>1 DEF G!Range
      <4> QED  BY <1>6, <2>1, <4>2 DEF G!Erased
    <3>8. G!ChainFits(r)
      BY <1>6, <3>2, <3>7 DEF ChainOf, G!ChainFits
    <3>9. ~aborted'  BY <1>1, <1>6, <2>1, <3>8 DEF G!Unregister
    <3> QED  BY <1>6, <3>4, <3>5, <3>6, <3>9
  <2>2. CASE ~Native(r)
    <3>1. \A u \in User, i \in Info : fast[u][i] # r
      BY <1>6, <2>2 DEF RegInv, FastFollows, SlowRight, RegLegal
    <3> QED  BY <1>1, <2>2, <3>1 DEF RegInv, RegTypes
  <2> QED  BY <2>1, <2>2
<1>9. RegTypes'  BY <1>1, <1>3, <1>7, <1>8 DEF RegInv, RegTypes
<1>10. SlowRight'
  <2>1. ASSUME NEW s \in Type, slow'[s] \in Mem
        PROVE  Native(slow[s])' /\ TypeOf[types'[slow'[s]].info] = s
    <3>1. slow[s] # r /\ slow'[s] = slow[s]  BY <1>7, <2>1 DEF RegLegal
    <3> QED  BY <1>3, <2>1, <3>1 DEF RegInv, SlowRight, Native
  <2>2. ASSUME NEW q \in Mem, Native(q)'
        PROVE  types'[q].info \in Info /\ slow'[TypeOf[types'[q].info]] = q
    <3>1. q # r /\ types'[q] = types[q] /\ Native(q)  BY <1>3, <2>2 DEF Native
    <3>2. types[q].info \in Info /\ slow[TypeOf[types[q].info]] = q
          /\ TypeOf[types[q].info] \in Type
      BY <3>1 DEF RegInv, SlowRight, RegLegal
    <3> QED  BY <1>7, <3>1, <3>2
  <2> QED  BY <2>1, <2>2 DEF SlowRight
<1>11. PendingRight'
  <2> SUFFICES ASSUME pending # G!Idle
               PROVE  /\ pending.info \in Info /\ slow'[TypeOf[pending.info]] = G!Placeholder
                      /\ pending.base # NoMem => types'[pending.base].mem = "live"
    BY <1>1 DEF PendingRight, Live
  <2>1. /\ pending.info \in Info /\ slow[TypeOf[pending.info]] = G!Placeholder
        /\ pending.base # NoMem => Live(pending.base)
        /\ TypeOf[pending.info] \in Type /\ pending.base \in Mem \cup {NoMem}
    BY DEF RegInv, PendingRight, RegLegal, RegTypes
  <2> QED  BY <1>1, <1>3, <1>6, <1>7, <2>1 DEF Live
<1>12. FastFollows'
  <2>1. ASSUME NEW u \in User, NEW i \in Info, fast'[u][i] # NoMem
        PROVE  slow'[TypeOf[i]] = fast'[u][i]
    <3>1. (fast[u][i] # r /\ fast'[u][i] = fast[u][i]) \/ fast[u][i] = r
      BY <1>8
    <3>2. CASE fast[u][i] = r
      <4>1. Native(r)
        BY <1>6, <3>2 DEF RegInv, FastFollows, SlowRight, RegLegal
      <4>2. u = MainUser
        BY <1>6, <3>2, <4>1 DEF RegInv, FastFollows
      <4>3. ChainOf(r)  BY <1>6, <4>1 DEF RegInv, ChainRight
      <4>4. fast' = [fast EXCEPT ![MainUser] =
                        [j \in Info |-> IF j \in G!Erased(r) THEN NoMem ELSE fast[MainUser][j]]]
        BY <1>1, <4>1 DEF G!Unregister
      <4>5. fast'[u][i] = NoMem
        BY <3>2, <4>2, <4>3, <4>4 DEF ChainOf, RegInv, RegTypes
      <4> QED  BY <2>1, <4>5
    <3>3. CASE fast[u][i] # r /\ fast'[u][i] = fast[u][i]
      <4>1. slow[TypeOf[i]] = fast[u][i] /\ TypeOf[i] \in Type
        BY <2>1, <3>3 DEF RegInv, FastFollows, RegLegal
      <4> QED  BY <1>7, <3>3, <4>1
    <3> QED  BY <3>1, <3>2, <3>3
  <2>2. ~ft => \A u \in User : u # MainUser => \A i \in Info : fast'[u][i] = NoMem
    BY <1>6, <1>8 DEF RegInv, FastFollows
  <2> QED  BY <1>1, <2>1, <2>2 DEF FastFollows
<1>13. ChainRight'
  <2> SUFFICES ASSUME ~ft, NEW q \in Mem, Native(q)' PROVE ChainOf(q)'
    BY <1>1 DEF ChainRight
  <2>1. q # r /\ types'[q] = types[q] /\ Native(q)  BY <1>3 DEF Native
  <2>2. ChainOf(q)  BY <2>1 DEF RegInv, ChainRight
  <2>3. G!Erased(q)' = G!Erased(q)  BY <2>1 DEF G!Erased
  <2>4. ASSUME NEW i \in Info
        PROVE  (fast'[MainUser][i] = q) <=> (fast[MainUser][i] = q)
    <3>1. MainUser \in User /\ q # NoMem  BY DEF RegLegal
    <3>2. CASE fast[MainUser][i] # r  BY <1>8, <3>1, <3>2
    <3>3. CASE fast[MainUser][i] = r
      <4>1. fast'[MainUser][i] # q
        <5> SUFFICES ASSUME fast'[MainUser][i] = q PROVE FALSE  OBVIOUS
        <5>1. slow'[TypeOf[i]] = q  BY <1>12, <3>1 DEF FastFollows
        <5>2. slow[TypeOf[i]] = r /\ TypeOf[i] \in Type
          BY <1>6, <3>1, <3>3 DEF RegInv, FastFollows, RegLegal
        <5> QED  BY <1>7, <3>1, <5>1, <5>2
      <4> QED  BY <2>1, <3>3, <4>1
    <3> QED  BY <3>2, <3>3
  <2> QED  BY <2>1, <2>2, <2>3, <2>4 DEF ChainOf
<1>14. BaseRight'
  <2> SUFFICES ASSUME NEW q \in Mem
               PROVE  /\ types'[q].mem = "free" => types'[q].base = NoMem
                      /\ types'[q].mem = "blank" => types'[q].py /\ types'[q].base \in Mem
                                                    /\ types'[types'[q].base].mem # "free"
                      /\ types'[q].mem = "live" /\ types'[q].base # NoMem =>
                            types'[types'[q].base].mem = "live"
    BY DEF BaseRight, Live
  <2>1. CASE q = r  BY <1>3, <2>1
  <2>2. CASE q # r  BY <1>3, <1>5, <2>2 DEF RegInv, BaseRight, Live
  <2> QED  BY <2>1, <2>2
<1>15. FillingRight'
  <2> SUFFICES ASSUME NEW u \in User, filling[u] # NoMem
               PROVE  /\ types'[filling[u]].mem # "free" /\ types'[filling[u]].py
                      /\ types'[filling[u]].base \in Mem
                      /\ types'[types'[filling[u]].base].mem = "live"
    BY <1>1 DEF FillingRight, Live
  <2>1. filling[u] \in Mem  BY DEF RegInv, RegTypes
  <2>2. filling[u] # r  BY <1>1 DEF RegInv, RegTypes, G!Range
  <2> QED  BY <1>3, <1>5, <2>1, <2>2 DEF RegInv, FillingRight, Live
<1>16. Inherits'
  <2> SUFFICES ASSUME NEW q \in Mem, types'[q].mem = "live"
               PROVE  /\ (types'[q].base # NoMem /\ types'[q].feature # "intrusive") =>
                            types'[q].intrusive = types'[types'[q].base].intrusive
                      /\ types'[q].pooled => types'[q].intrusive = NoMem
                      /\ types'[q].py => ~types'[q].pooled /\ ~types'[q].arrays
    BY DEF Inherits, Live
  <2>1. q # r /\ types'[q] = types[q]  BY <1>4
  <2>2. types[q].base # NoMem => types'[types[q].base] = types[types[q].base]
    BY <1>3, <1>5
  <2> QED  BY <2>1, <2>2 DEF RegInv, Inherits, Live
<1>17. CountRight'
  <2>1. CASE types[r].mem = "live"
    <3>1. LiveSet = LiveSet' \cup {r} /\ r \notin LiveSet'
      BY <1>3, <2>1 DEF LiveSet
    <3>2. IsFiniteSet(LiveSet')  BY <3>1, LiveFinite, FS_Subset
    <3>3. Cardinality(LiveSet) = Cardinality(LiveSet') + 1 /\ Cardinality(LiveSet') \in Nat
      BY <3>1, <3>2, FS_AddElement, FS_CardinalityType
    <3>4. counted' = counted - 1  BY <1>1, <2>1 DEF Live
    <3>5. counted = Cardinality(LiveSet)  BY DEF RegInv, CountRight
    <3> HIDE DEF LiveSet
    <3>6. counted' = Cardinality(LiveSet')  BY <3>3, <3>4, <3>5
    <3> QED  BY <3>6 DEF CountRight
  <2>2. CASE types[r].mem # "live"
    <3>1. LiveSet' = LiveSet  BY <1>3, <2>2 DEF LiveSet
    <3> QED  BY <1>1, <2>2, <3>1 DEF RegInv, CountRight, Live
  <2> QED  BY <2>1, <2>2
<1> QED
  BY <1>8, <1>9, <1>10, <1>11, <1>12, <1>13, <1>14, <1>15, <1>16, <1>17 DEF RegInv

LEMMA RegNext ==
    ASSUME RegLegal, RegInv, [G!Next]_(G!registryVars) PROVE RegInv'
<1>1. CASE UNCHANGED G!registryVars
  <2>1. /\ ft' = ft /\ slow' = slow /\ fast' = fast /\ types' = types /\ pending' = pending
        /\ filling' = filling /\ counted' = counted /\ aborted' = aborted
    BY <1>1 DEF G!registryVars
  <2>2. RegTypes' /\ SlowRight' /\ PendingRight' /\ FastFollows'
    BY <2>1 DEF RegInv, RegTypes, SlowRight, Native, PendingRight, Live, FastFollows
  <2>3. ChainRight'  BY <2>1, ChainSame DEF RegInv, Native
  <2>4. BaseRight' /\ FillingRight' /\ Inherits' /\ CountRight'
    BY <2>1 DEF RegInv, BaseRight, FillingRight, Inherits, CountRight, LiveSet, Live
  <2> QED  BY <2>1, <2>2, <2>3, <2>4 DEF RegInv
<1>2. CASE G!Next
  <2>1. ~G!PoolingRefused  BY <1>2 DEF G!Next
  <2>2. CASE \E i \in Info, b \in G!Registered \cup {NoMem}, f \in Features : G!Reserve(i, b, f)
    BY <2>2, ReserveInv
  <2>3. CASE \E u \in User, i \in Info : G!Lookup(u, i)  BY <2>3, LookupInv
  <2>4. CASE \E u \in User, i \in Info : G!AddConversion(u, i)  BY <2>4, AddConversionInv
  <2>5. CASE \E u \in User, r \in Mem : G!Assemble(u, r)  BY <2>5, AssembleInv
  <2>6. CASE \E u \in User : G!Fill(u)  BY <2>6, FillTypeInv
  <2>7. CASE \E r \in Mem : G!Publish(r)  BY <2>1, <2>7, PublishTypeInv
  <2>8. CASE \E r \in Mem : G!Dealloc(r)  BY <2>8, DeallocInv
  <2>9. CASE \E r \in Mem, b \in Mem : G!Derive(r, b)  BY <2>9, DeriveInv
  <2> QED  BY <1>2, <2>2, <2>3, <2>4, <2>5, <2>6, <2>7, <2>8, <2>9 DEF G!Next
<1> QED  BY <1>1, <1>2

LEMMA RegAnswer ==
    ASSUME RegLegal, RegInv
    PROVE  G!FastRight /\ G!UnregisterComplete /\ G!Inherited /\ G!TypesCounted
<1>1. G!FastRight
  BY DEF G!FastRight, RegInv, RegTypes, FastFollows, SlowRight, Native, RegLegal
<1>2. G!UnregisterComplete  BY DEF G!UnregisterComplete, RegInv
<1>3. G!Inherited
  BY DEF G!Inherited, G!Registered, RegInv, Inherits, Live
<1>4. G!TypesCounted
  <2>1. G!Registered = LiveSet  BY DEF G!Registered, LiveSet
  <2>2. \A S : G!Cardinality(S) = Cardinality(S)  BY DEF G!Cardinality, Cardinality
  <2> QED  BY <2>1, <2>2 DEF G!TypesCounted, RegInv, CountRight
<1> QED  BY <1>1, <1>2, <1>3, <1>4

LEMMA RegTypeOK == ASSUME RegLegal, RegInv PROVE G!TypeOK
<1>1. counted \in 0 .. Cardinality(Mem)
  <2>1. LiveSet \subseteq Mem /\ counted = Cardinality(LiveSet)
    BY DEF LiveSet, RegInv, CountRight
  <2>2. Cardinality(LiveSet) <= Cardinality(Mem)  BY <2>1, FS_Subset DEF RegLegal
  <2> QED  BY <2>1, <2>2, LiveFinite, FS_CardinalityType DEF RegLegal
<1>2. \A r \in Mem : DOMAIN types[r] = DOMAIN G!Free
  <2> TAKE r \in Mem
  <2>1. types[r] \in RegRecord  BY DEF RegInv, RegTypes
  <2> QED  BY <2>1 DEF RegRecord, G!Free
<1>3. counted \in 0 .. G!Cardinality(Mem)  BY <1>1 DEF G!Cardinality, Cardinality
<1> QED  BY <1>2, <1>3 DEF G!TypeOK, RegInv, RegTypes

(* Whatever is registered, derived, looked up, filled and deleted, by any number of *)
(* threads of either build: the fast maps have what the registry has, for every     *)
(* address of a type; the check of nb_type_unregister() never fails; Python          *)
(* subclasses share the intrusive hook of their bases and nothing that is freed;     *)
(* and each type in the registry is counted once.                                    *)
THEOREM TypesRight ==
    RegLegal /\ G!Spec =>
        [](G!TypeOK /\ G!FastRight /\ G!UnregisterComplete /\ G!Inherited /\ G!TypesCounted)
<1> SUFFICES ASSUME RegLegal
             PROVE  G!Spec => [](G!TypeOK /\ G!FastRight /\ G!UnregisterComplete
                                 /\ G!Inherited /\ G!TypesCounted)
    OBVIOUS
<1>1. G!Init => RegInv  BY RegInit
<1>2. RegInv /\ [G!Next]_(G!registryVars) => RegInv'  BY RegNext
<1>3. RegInv => G!TypeOK /\ G!FastRight /\ G!UnregisterComplete /\ G!Inherited /\ G!TypesCounted
  BY RegAnswer, RegTypeOK
<1> QED  BY <1>1, <1>2, <1>3, PTL DEF G!Spec

-----------------------------------------------------------------------------
(* Errors that C++ carries.                                                      *)

ErrLegal == /\ IsFiniteSet(Thread) /\ IsFiniteSet(Carrier) /\ IsFiniteSet(Exc)
            /\ Absent \notin Thread \cup Carrier \cup Exc /\ "unavailable" \notin Thread

PayloadType == [live : BOOLEAN, value : Exc \cup {Absent}, msg : Thread \cup {Absent}]
WhatType == [pc : {"none", "format", "publish", "got"}, err : Carrier \cup {Absent},
             msg : Thread \cup {Absent, "unavailable"}]
ErrTypes ==
    /\ indicator \in [Thread -> Exc \cup {Absent}] /\ payload \in [Carrier -> PayloadType]
    /\ buffers \in [Carrier -> SUBSET Thread] /\ excs \in [Exc -> Nat]
    /\ cause \in [Exc -> Exc \cup {Absent}] /\ what \in [Thread -> WhatType]
    /\ alive \in BOOLEAN
    /\ \A e \in Carrier : ~payload[e].live => payload[e] = X!Blank

At(a, b) == IF a = b THEN 1 ELSE 0

\* Who refers to an exception, and how often.
Pointing(S, g, v) == {x \in S : g[x] = v}
Many(S, g, v) == Cardinality(Pointing(S, g, v))
Values(p) == [e \in Carrier |-> p[e].value]
Shares(i, p, c, v) == Many(Thread, i, v) + Many(Carrier, Values(p), v) + 2 * Many(Exc, c, v)
Counts == alive => \A v \in Exc : excs[v] = Shares(indicator, payload, cause, v)
Wanted(v) == \/ \E t \in Thread : indicator[t] = v
             \/ \E e \in Carrier : payload[e].value = v
             \/ \E w \in Exc : cause[w] = v
Alive == \A v \in Exc : /\ Wanted(v) => excs[v] > 0
                        /\ excs[v] = 0 => cause[v] = Absent

\* Who is at work on the message of an exception.
AtWork(e) == {t \in Thread : what[t].pc = "publish" /\ what[t].err = e}
MessageSound(t) ==
    /\ what[t].pc = "none" => what[t] = X!NoWhat
    /\ what[t].pc # "none" => what[t].err \in Carrier /\ payload[what[t].err].live
    /\ what[t].pc = "publish" => what[t].msg = t /\ payload[what[t].err].msg # t
    /\ what[t].pc = "got" /\ what[t].msg # "unavailable" =>
          what[t].msg \in Thread /\ what[t].msg = payload[what[t].err].msg
Messages == /\ \A t \in Thread : MessageSound(t)
            /\ \A e \in Carrier : buffers[e] = ({payload[e].msg} \ {Absent}) \cup AtWork(e)

ErrInv == ErrTypes /\ Counts /\ Alive /\ Messages

LEMMA PointingFinite ==
    ASSUME NEW S, IsFiniteSet(S), NEW g, NEW v
    PROVE  IsFiniteSet(Pointing(S, g, v)) /\ Many(S, g, v) \in Nat
<1>1. Pointing(S, g, v) \subseteq S  BY DEF Pointing
<1> QED  BY <1>1, FS_Subset, FS_CardinalityType DEF Many

LEMMA PointingSome ==
    ASSUME NEW S, IsFiniteSet(S), NEW g, NEW v
    PROVE  Many(S, g, v) > 0 <=> \E x \in S : g[x] = v
<1>1. Pointing(S, g, v) = {} <=> ~\E x \in S : g[x] = v  BY DEF Pointing
<1>2. Many(S, g, v) = 0 <=> Pointing(S, g, v) = {}  BY PointingFinite, FS_EmptySet DEF Many
<1> QED  BY <1>1, <1>2, PointingFinite

\* At pointer changes.
SameBut(S, g, h, k) == \A x \in S : x # k => h[x] = g[x]
LEMMA PointerMoves ==
    ASSUME NEW S, IsFiniteSet(S), NEW g, NEW h, NEW k \in S, SameBut(S, g, h, k), NEW v
    PROVE  Many(S, h, v) = Many(S, g, v) + At(h[k], v) - At(g[k], v)
<1> DEFINE Rest == Pointing(S, g, v) \ {k}
<1>1. IsFiniteSet(Rest) /\ Cardinality(Rest) \in Nat /\ k \notin Rest
  BY PointingFinite, FS_Subset, FS_CardinalityType
<1>2. /\ Pointing(S, g, v) = (IF g[k] = v THEN Rest \cup {k} ELSE Rest)
      /\ Pointing(S, h, v) = (IF h[k] = v THEN Rest \cup {k} ELSE Rest)
  BY DEF Pointing, SameBut
<1>3. Cardinality(Rest \cup {k}) = Cardinality(Rest) + 1  BY <1>1, FS_AddElement
<1> HIDE DEF Rest
<1>4. /\ Many(S, g, v) = Cardinality(Rest) + At(g[k], v)
      /\ Many(S, h, v) = Cardinality(Rest) + At(h[k], v)
  BY <1>1, <1>2, <1>3 DEF At, Many
<1> QED  BY <1>1, <1>4 DEF At

LEMMA ErrCardinality == \A S : X!Cardinality(S) = Cardinality(S)
BY DEF X!Cardinality, Cardinality

\* Dropping a reference to v: who dies, and that the counts follow.
LEMMA DropCounts ==
    ASSUME ErrLegal, ErrTypes, NEW v \in Exc, X!Drop(v)
    PROVE  /\ cause' \in [Exc -> Exc \cup {Absent}] /\ excs' \in [Exc -> Int]
           /\ \A x \in Exc : excs'[x] - 2 * Many(Exc, cause', x)
                             = excs[x] - 2 * Many(Exc, cause, x) - At(x, v)
           /\ \A x \in Exc : excs'[x] = 0 /\ (excs[x] = 0 => cause[x] = Absent) => cause'[x] = Absent
           /\ \A x \in Exc : cause'[x] \in {cause[x], Absent}
<1> DEFINE D == X!Dying(v)
           L(S, x) == Cardinality({w \in S : cause[w] = x})
<1>1. D \subseteq Exc  BY DEF X!Dying
<1>2. /\ excs' = [x \in Exc |-> excs[x] - X!Lost(v, D, x)]
      /\ cause' = [x \in Exc |-> IF x \in D THEN Absent ELSE cause[x]]
  BY DEF X!Drop
<1>3. \A S \in SUBSET Exc : \A x : /\ X!Lost(v, S, x) = At(x, v) + 2 * L(S, x)
                                   /\ IsFiniteSet({w \in S : cause[w] = x}) /\ L(S, x) \in Nat
  <2> SUFFICES ASSUME NEW S \in SUBSET Exc, NEW x
               PROVE  /\ X!Lost(v, S, x) = At(x, v) + 2 * L(S, x)
                      /\ IsFiniteSet({w \in S : cause[w] = x}) /\ L(S, x) \in Nat
      OBVIOUS
  <2>1. IsFiniteSet({w \in S : cause[w] = x})  BY FS_Subset DEF ErrLegal
  <2>2. L(S, x) \in Nat  BY <2>1, FS_CardinalityType
  <2>3. X!Lost(v, S, x) = At(x, v) + 2 * L(S, x)  BY ErrCardinality DEF X!Lost, At
  <2> QED  BY <2>1, <2>2, <2>3
<1>4. \A x \in Exc : excs[x] \in 1 .. X!Lost(v, D, x) => x \in D
  <2> SUFFICES ASSUME NEW x \in Exc, excs[x] \in 1 .. X!Lost(v, D, x),
                      NEW gone \in SUBSET Exc,
                      \A w \in Exc : excs[w] \in 1 .. X!Lost(v, gone, w) => w \in gone
               PROVE  x \in gone
    BY DEF X!Dying
  <2>1. D \subseteq gone  BY DEF X!Dying
  <2>2. {w \in D : cause[w] = x} \subseteq {w \in gone : cause[w] = x}  BY <2>1
  <2>3. L(D, x) <= L(gone, x)  BY <1>3, <2>2, FS_Subset
  <2> HIDE DEF D, L
  <2>4. /\ X!Lost(v, D, x) = At(x, v) + 2 * L(D, x) /\ L(D, x) \in Nat
        /\ X!Lost(v, gone, x) = At(x, v) + 2 * L(gone, x) /\ L(gone, x) \in Nat
    BY <1>1, <1>3
  <2>5. excs[x] \in 1 .. X!Lost(v, gone, x)
    BY <2>3, <2>4 DEF At, ErrTypes
  <2> QED  BY <2>5
<1>5. \A x \in Exc : Many(Exc, cause', x) = Many(Exc, cause, x) - L(D, x)
  <2> SUFFICES ASSUME NEW x \in Exc PROVE Many(Exc, cause', x) = Many(Exc, cause, x) - L(D, x)
      OBVIOUS
  <2>1. {w \in D : cause[w] = x} \subseteq Pointing(Exc, cause, x)  BY <1>1 DEF Pointing
  <2>2. Pointing(Exc, cause', x) = Pointing(Exc, cause, x) \ {w \in D : cause[w] = x}
    <3> HIDE DEF D
    <3> QED  BY <1>2 DEF Pointing, ErrLegal
  <2>3. IsFiniteSet(Pointing(Exc, cause, x))  BY PointingFinite DEF ErrLegal
  <2> DEFINE P == Pointing(Exc, cause, x)
             Q == {w \in D : cause[w] = x}
  <2>4. P \cap Q = Q  BY <2>1
  <2>5. Cardinality(P \ Q) = Cardinality(P) - Cardinality(P \cap Q)
    <3> HIDE DEF P, Q
    <3> QED  BY <2>3, FS_Difference DEF P
  <2> QED  BY <2>2, <2>4, <2>5 DEF Many
<1> HIDE DEF D
<1>6. cause' \in [Exc -> Exc \cup {Absent}]  BY <1>2 DEF ErrTypes
<1>7. \A x \in Exc : cause'[x] \in {cause[x], Absent}  BY <1>2
<1>8. \A x \in Exc : excs'[x] - 2 * Many(Exc, cause', x)
                     = excs[x] - 2 * Many(Exc, cause, x) - At(x, v)
  <2> SUFFICES ASSUME NEW x \in Exc
               PROVE  excs'[x] - 2 * Many(Exc, cause', x)
                      = excs[x] - 2 * Many(Exc, cause, x) - At(x, v)
      OBVIOUS
  <2> HIDE DEF L
  <2>1. X!Lost(v, D, x) = At(x, v) + 2 * L(D, x) /\ L(D, x) \in Nat  BY <1>1, <1>3
  <2>2. excs'[x] = excs[x] - X!Lost(v, D, x)  BY <1>2
  <2>3. Many(Exc, cause, x) \in Nat  BY PointingFinite DEF ErrLegal
  <2>4. excs[x] \in Nat /\ At(x, v) \in Nat  BY DEF ErrTypes, At
  <2> QED  BY <2>1, <2>2, <2>3, <2>4, <1>5
<1>9. \A x \in Exc : excs'[x] = 0 /\ (excs[x] = 0 => cause[x] = Absent) => cause'[x] = Absent
  <2> SUFFICES ASSUME NEW x \in Exc, excs'[x] = 0, excs[x] = 0 => cause[x] = Absent
               PROVE  cause'[x] = Absent
      OBVIOUS
  <2> HIDE DEF L
  <2>0. X!Lost(v, D, x) = At(x, v) + 2 * L(D, x) /\ L(D, x) \in Nat  BY <1>1, <1>3
  <2>1. X!Lost(v, D, x) \in Nat  BY <2>0 DEF At
  <2>2. excs[x] = X!Lost(v, D, x) /\ excs[x] \in Nat  BY <1>2, <2>1 DEF ErrTypes
  <2>3. excs[x] # 0 => x \in D  BY <1>4, <2>1, <2>2
  <2> QED  BY <1>2, <2>3
<1>10. excs' \in [Exc -> Int]
  <2> HIDE DEF L
  <2>1. \A x \in Exc : X!Lost(v, D, x) \in Int
    <3> TAKE x \in Exc
    <3>1. X!Lost(v, D, x) = At(x, v) + 2 * L(D, x) /\ L(D, x) \in Nat  BY <1>1, <1>3
    <3> QED  BY <3>1 DEF At
  <2> QED  BY <1>2, <2>1 DEF ErrTypes
<1> QED  BY <1>6, <1>7, <1>8, <1>9, <1>10

LEMMA ErrInit == ErrLegal /\ X!Init => ErrInv
<1> SUFFICES ASSUME ErrLegal, X!Init PROVE ErrInv  OBVIOUS
<1>1. ErrTypes
  BY DEF ErrLegal, X!Init, ErrTypes, PayloadType, WhatType, X!Blank, X!NoWhat
<1>2. \A v \in Exc : ~Wanted(v)
  BY DEF ErrLegal, X!Init, Wanted, X!Blank
<1>3. Counts
  <2> SUFFICES ASSUME NEW v \in Exc PROVE excs[v] = Shares(indicator, payload, cause, v)
    BY DEF Counts
  <2>1. /\ ~\E t \in Thread : indicator[t] = v
        /\ ~\E e \in Carrier : Values(payload)[e] = v
        /\ ~\E w \in Exc : cause[w] = v
    BY <1>2 DEF Wanted, Values
  <2>2. /\ Many(Thread, indicator, v) \in Nat /\ ~(Many(Thread, indicator, v) > 0)
        /\ Many(Carrier, Values(payload), v) \in Nat /\ ~(Many(Carrier, Values(payload), v) > 0)
        /\ Many(Exc, cause, v) \in Nat /\ ~(Many(Exc, cause, v) > 0)
    BY <2>1, PointingFinite, PointingSome DEF ErrLegal
  <2> QED  BY <2>2 DEF X!Init, Shares
<1>4. Alive  BY <1>2 DEF Alive, X!Init
<1>5. Messages
  BY DEF Messages, MessageSound, AtWork, X!Init, X!Blank, X!NoWhat
<1> QED  BY <1>1, <1>3, <1>4, <1>5 DEF ErrInv

\* While Python runs, counts that are exact keep what is referred to alive.
LEMMA AliveFollows ==
    ASSUME ErrLegal, \A v \in Exc : excs'[v] = Shares(indicator, payload, cause, v)',
           \A v \in Exc : excs'[v] = 0 => cause'[v] = Absent
    PROVE  Alive'
<1> SUFFICES ASSUME NEW v \in Exc, Wanted(v)' PROVE excs'[v] > 0
  BY DEF Alive
<1>1. /\ Many(Thread, indicator', v) \in Nat /\ Many(Carrier, Values(payload'), v) \in Nat
      /\ Many(Exc, cause', v) \in Nat
  BY PointingFinite DEF ErrLegal
<1>2. \/ Many(Thread, indicator', v) > 0 \/ Many(Carrier, Values(payload'), v) > 0
      \/ Many(Exc, cause', v) > 0
  <2>1. CASE \E t \in Thread : indicator'[t] = v  BY <2>1, PointingSome DEF ErrLegal
  <2>2. CASE \E e \in Carrier : payload'[e].value = v
    <3>1. \E e \in Carrier : Values(payload')[e] = v  BY <2>2 DEF Values
    <3> QED  BY <3>1, PointingSome DEF ErrLegal
  <2>3. CASE \E w \in Exc : cause'[w] = v  BY <2>3, PointingSome DEF ErrLegal
  <2> QED  BY <2>1, <2>2, <2>3 DEF Wanted
<1>3. excs'[v] = Many(Thread, indicator', v) + Many(Carrier, Values(payload'), v)
                 + 2 * Many(Exc, cause', v)
  BY DEF Shares
<1> QED  BY <1>1, <1>2, <1>3

LEMMA AliveStays ==
    ASSUME Alive, UNCHANGED <<excs, cause>>, \A v \in Exc : Wanted(v)' => Wanted(v)
    PROVE  Alive'
BY DEF Alive

\* The counts of references as a step changes them: of indicators, carriers and causes.
LEMMA ManyNat ==
    ASSUME ErrLegal, NEW v
    PROVE  /\ Many(Thread, indicator, v) \in Nat /\ Many(Carrier, Values(payload), v) \in Nat
           /\ Many(Exc, cause, v) \in Nat
BY PointingFinite DEF ErrLegal

LEMMA IndicatorMoves ==
    ASSUME ErrLegal, ErrTypes, NEW t \in Thread, NEW w, NEW g
    PROVE  g = [indicator EXCEPT ![t] = w] =>
             \A v : Many(Thread, g, v)
                     = Many(Thread, indicator, v) + At(w, v) - At(indicator[t], v)
<1>1. g = [indicator EXCEPT ![t] = w] => SameBut(Thread, indicator, g, t) /\ g[t] = w
  BY DEF SameBut, ErrTypes
<1>2. SameBut(Thread, indicator, g, t) =>
        \A v : Many(Thread, g, v) = Many(Thread, indicator, v) + At(g[t], v) - At(indicator[t], v)
  BY PointerMoves DEF ErrLegal
<1> QED  BY <1>1, <1>2

LEMMA CarrierMoves ==
    ASSUME ErrLegal, ErrTypes, NEW e \in Carrier, NEW p, NEW q,
           \A f \in Carrier : f # e => q[f].value = p[f].value
    PROVE  \A v : Many(Carrier, Values(q), v)
                  = Many(Carrier, Values(p), v) + At(q[e].value, v) - At(p[e].value, v)
<1>1. SameBut(Carrier, Values(p), Values(q), e)  BY DEF SameBut, Values
<1>2. Values(q)[e] = q[e].value /\ Values(p)[e] = p[e].value  BY DEF Values
<1> QED  BY <1>1, <1>2, PointerMoves DEF ErrLegal

LEMMA MessagesKept ==
    ASSUME Messages, UNCHANGED <<buffers, what>>,
           \A e \in Carrier : /\ payload'[e].msg = payload[e].msg
                              /\ payload[e].live => payload'[e].live
    PROVE  Messages'
<1>1. \A e \in Carrier : AtWork(e)' = AtWork(e)  BY DEF AtWork
<1> QED  BY <1>1 DEF Messages, MessageSound

LEMMA FailsInv ==
    ASSUME ErrLegal, ErrInv, NEW t \in Thread, NEW v \in Exc, X!Fails(t, v)
    PROVE  ErrInv'
<1> USE DEF ErrInv
<1>1. /\ indicator' = [indicator EXCEPT ![t] = v] /\ indicator[t] = Absent
      /\ excs' = [excs EXCEPT ![v] = 1] /\ excs[v] = 0
      /\ UNCHANGED <<payload, buffers, cause, what, alive>>
  BY DEF X!Fails
<1>2. ErrTypes'  BY <1>1 DEF ErrTypes
<1>3. \A x \in Exc : alive => excs'[x] = Shares(indicator, payload, cause, x)'
  <2> SUFFICES ASSUME NEW x \in Exc, alive PROVE excs'[x] = Shares(indicator, payload, cause, x)'
      OBVIOUS
  <2>1. Many(Thread, indicator', x) = Many(Thread, indicator, x) + At(v, x) - At(Absent, x)
    BY <1>1, IndicatorMoves
  <2>2. Absent # x  BY DEF ErrLegal
  <2>3. excs'[x] = excs[x] + At(v, x)  BY <1>1 DEF ErrTypes, At
  <2>4. excs[x] = Shares(indicator, payload, cause, x)  BY DEF Counts
  <2>5. Shares(indicator, payload, cause, x)' = Shares(indicator', payload, cause, x)
    BY <1>1 DEF Shares
  <2> QED  BY <2>1, <2>2, <2>3, <2>4, <2>5, ManyNat DEF Shares, At
<1>4. Counts'  BY <1>1, <1>3 DEF Counts
<1>5. Alive'
  BY <1>1, <1>3, AliveFollows DEF Alive, ErrTypes, X!Fails
<1>6. Messages'  BY <1>1, MessagesKept
<1> QED  BY <1>2, <1>4, <1>5, <1>6

LEMMA FetchInv ==
    ASSUME ErrLegal, ErrInv, NEW t \in Thread, NEW e \in Carrier, X!Fetch(t, e)
    PROVE  ErrInv'
<1> USE DEF ErrInv
<1> DEFINE v == indicator[t]
<1>1. /\ v \in Exc /\ payload[e] = X!Blank
      /\ indicator' = [indicator EXCEPT ![t] = Absent]
      /\ payload' = [payload EXCEPT ![e] = [live |-> TRUE, value |-> v, msg |-> Absent]]
      /\ UNCHANGED <<buffers, excs, cause, what, alive>>
  BY DEF X!Fetch, ErrTypes
<1>2. ErrTypes'  BY <1>1 DEF ErrTypes, PayloadType
<1>3. \A x \in Exc : alive => excs'[x] = Shares(indicator, payload, cause, x)'
  <2> SUFFICES ASSUME NEW x \in Exc, alive PROVE excs'[x] = Shares(indicator, payload, cause, x)'
      OBVIOUS
  <2>1. Many(Thread, indicator', x) = Many(Thread, indicator, x) + At(Absent, x) - At(v, x)
    BY <1>1, IndicatorMoves
  <2>2. Many(Carrier, Values(payload'), x)
        = Many(Carrier, Values(payload), x) + At(v, x) - At(Absent, x)
    <3>1. /\ \A f \in Carrier : f # e => payload'[f].value = payload[f].value
          /\ payload'[e].value = v /\ payload[e].value = Absent
      BY <1>1 DEF ErrTypes, X!Blank
    <3> QED  BY <3>1, CarrierMoves
  <2>3. excs[x] = Shares(indicator, payload, cause, x)  BY DEF Counts
  <2>4. excs'[x] = excs[x] /\ Many(Exc, cause', x) = Many(Exc, cause, x)  BY <1>1
  <2> QED  BY <2>1, <2>2, <2>3, <2>4, ManyNat DEF Shares, At
<1>4. Counts'  BY <1>1, <1>3 DEF Counts
<1>5. Alive'
  BY <1>1, <1>3, AliveFollows DEF Alive, X!Fetch
<1>6. Messages'  BY <1>1, MessagesKept DEF ErrTypes, X!Blank
<1> QED  BY <1>2, <1>4, <1>5, <1>6

\* An indicator gives up its exception, or the carrier e does.
LEMMA HandleInv ==
    ASSUME ErrLegal, ErrInv, NEW t \in Thread, X!Handle(t)
    PROVE  ErrInv'
<1> USE DEF ErrInv
<1> DEFINE v == indicator[t]
<1>1. /\ v \in Exc /\ X!Drop(v) /\ alive
      /\ indicator' = [indicator EXCEPT ![t] = Absent]
      /\ UNCHANGED <<payload, buffers, what, alive>>
  BY DEF X!Handle, ErrTypes
<1>2. /\ cause' \in [Exc -> Exc \cup {Absent}] /\ excs' \in [Exc -> Int]
      /\ \A x \in Exc : excs'[x] - 2 * Many(Exc, cause', x)
                        = excs[x] - 2 * Many(Exc, cause, x) - At(x, v)
      /\ \A x \in Exc : excs'[x] = 0 /\ (excs[x] = 0 => cause[x] = Absent) => cause'[x] = Absent
  BY <1>1, DropCounts
<1>3. \A x \in Exc : excs'[x] = Shares(indicator, payload, cause, x)' /\ excs'[x] \in Nat
  <2> SUFFICES ASSUME NEW x \in Exc
               PROVE  excs'[x] = Shares(indicator, payload, cause, x)' /\ excs'[x] \in Nat
      OBVIOUS
  <2>1. Many(Thread, indicator', x) = Many(Thread, indicator, x) + At(Absent, x) - At(v, x)
    BY <1>1, IndicatorMoves
  <2>2. /\ Many(Thread, indicator', x) \in Nat /\ Many(Exc, cause', x) \in Nat
        /\ Many(Carrier, Values(payload), x) \in Nat
    BY PointingFinite DEF ErrLegal
  <2>3. excs[x] = Shares(indicator, payload, cause, x)  BY <1>1 DEF Counts
  <2>4. excs'[x] - 2 * Many(Exc, cause', x) = excs[x] - 2 * Many(Exc, cause, x) - At(x, v)
    BY <1>2
  <2>5. At(Absent, x) = 0 /\ At(x, v) = At(v, x) /\ At(v, x) \in Nat  BY DEF At, ErrLegal
  <2>6. excs'[x] \in Int  BY <1>2
  <2> HIDE DEF v
  <2> QED  BY <1>1, <2>1, <2>2, <2>3, <2>4, <2>5, <2>6, ManyNat DEF Shares
<1>4. Counts'  BY <1>3 DEF Counts
<1>5. Alive'  BY <1>2, <1>3, AliveFollows DEF Alive
<1>6. Messages'  BY <1>1, MessagesKept
<1>7. ErrTypes'  BY <1>1, <1>2, <1>3 DEF ErrTypes
<1> QED  BY <1>4, <1>5, <1>6, <1>7

LEMMA RestoreInv ==
    ASSUME ErrLegal, ErrInv, NEW t \in Thread, NEW e \in Carrier, X!Restore(t, e)
    PROVE  ErrInv'
<1> USE DEF ErrInv
<1> DEFINE u == indicator[t]
           v == payload[e].value
<1>1. /\ alive /\ v \in Exc /\ u \in Exc \cup {Absent}
      /\ indicator' = [indicator EXCEPT ![t] = v]
      /\ payload' = [payload EXCEPT ![e].value = Absent]
      /\ UNCHANGED <<buffers, what, alive>>
      /\ IF u = Absent THEN UNCHANGED <<excs, cause>> ELSE X!Drop(u)
  BY DEF X!Restore, X!Keep, ErrTypes, PayloadType
<1>2. payload'[e].value = Absent /\ \A f \in Carrier :
        /\ f # e => payload'[f].value = payload[f].value
        /\ payload'[f].msg = payload[f].msg /\ payload'[f].live = payload[f].live
        /\ payload'[f] \in PayloadType
        /\ ~payload[f].live => f # e /\ payload'[f] = payload[f]
  BY <1>1 DEF ErrTypes, PayloadType, X!Blank, ErrLegal
<1>3. /\ cause' \in [Exc -> Exc \cup {Absent}] /\ excs' \in [Exc -> Int]
      /\ \A x \in Exc : excs'[x] - 2 * Many(Exc, cause', x)
                        = excs[x] - 2 * Many(Exc, cause, x) - At(x, u)
      /\ \A x \in Exc : excs'[x] = 0 /\ (excs[x] = 0 => cause[x] = Absent) => cause'[x] = Absent
  <2>1. CASE u \in Exc  BY <1>1, <2>1, DropCounts DEF ErrLegal
  <2>2. CASE u = Absent
    <3>1. UNCHANGED <<excs, cause>> /\ excs \in [Exc -> Int] /\ cause \in [Exc -> Exc \cup {Absent}]
      BY <1>1, <2>2 DEF ErrTypes
    <3>2. \A x \in Exc : At(x, u) = 0 /\ excs[x] \in Int /\ Many(Exc, cause, x) \in Nat
      BY <2>2, <3>1, ManyNat DEF At, ErrLegal
    <3> QED  BY <3>1, <3>2
  <2> QED  BY <1>1, <2>1, <2>2
<1>4. \A x \in Exc : excs'[x] = Shares(indicator, payload, cause, x)' /\ excs'[x] \in Nat
  <2> SUFFICES ASSUME NEW x \in Exc
               PROVE  excs'[x] = Shares(indicator, payload, cause, x)' /\ excs'[x] \in Nat
      OBVIOUS
  <2>1. Many(Thread, indicator', x) = Many(Thread, indicator, x) + At(v, x) - At(u, x)
    BY <1>1, IndicatorMoves
  <2>2. Many(Carrier, Values(payload'), x) = Many(Carrier, Values(payload), x) + At(Absent, x) - At(v, x)
    BY <1>2, CarrierMoves
  <2>3. /\ Many(Thread, indicator', x) \in Nat /\ Many(Exc, cause', x) \in Nat
        /\ Many(Carrier, Values(payload'), x) \in Nat
    BY PointingFinite DEF ErrLegal
  <2>4. excs[x] = Shares(indicator, payload, cause, x)  BY <1>1 DEF Counts
  <2>5. excs'[x] - 2 * Many(Exc, cause', x) = excs[x] - 2 * Many(Exc, cause, x) - At(x, u)
    BY <1>3
  <2>6. /\ At(Absent, x) = 0 /\ At(x, u) = At(u, x) /\ At(u, x) \in Nat /\ At(v, x) \in Nat
        /\ excs'[x] \in Int
    BY <1>3 DEF At, ErrLegal
  <2> HIDE DEF v, u
  <2> QED  BY <2>1, <2>2, <2>3, <2>4, <2>5, <2>6, ManyNat DEF Shares
<1>5. Counts'  BY <1>4 DEF Counts
<1>6. Alive'  BY <1>3, <1>4, AliveFollows DEF Alive
<1>7. Messages'  BY <1>1, <1>2, MessagesKept
<1>8. ErrTypes'
  <2>1. indicator' \in [Thread -> Exc \cup {Absent}]  BY <1>1 DEF ErrTypes
  <2>2. payload' \in [Carrier -> PayloadType]  BY <1>1, <1>2 DEF ErrTypes
  <2>3. \A f \in Carrier : ~payload'[f].live => payload'[f] = X!Blank  BY <1>2 DEF ErrTypes
  <2>4. excs' \in [Exc -> Nat]  BY <1>3, <1>4
  <2> QED  BY <1>1, <1>3, <2>1, <2>2, <2>3, <2>4 DEF ErrTypes
<1> QED  BY <1>5, <1>6, <1>7, <1>8

LEMMA ChainInv ==
    ASSUME ErrLegal, ErrInv, NEW t \in Thread, NEW w \in Exc, X!Chain(t, w)
    PROVE  ErrInv'
<1> USE DEF ErrInv
<1> DEFINE v == indicator[t]
<1>1. /\ alive /\ v \in Exc /\ excs[w] = 0 /\ excs[v] > 0 /\ w # v /\ cause[w] = Absent
      /\ indicator' = [indicator EXCEPT ![t] = w]
      /\ cause' = [cause EXCEPT ![w] = v]
      /\ excs' = [excs EXCEPT ![w] = 1, ![v] = excs[v] + 1]
      /\ UNCHANGED <<payload, buffers, what, alive>>
  BY DEF X!Chain, ErrTypes, Alive, Wanted
<1>2. /\ excs' \in [Exc -> Nat]
      /\ \A x \in Exc : excs'[x] = excs[x] + At(w, x) + At(v, x)
  BY <1>1 DEF ErrTypes, At
<1>3. \A x \in Exc : excs'[x] = Shares(indicator, payload, cause, x)'
  <2> SUFFICES ASSUME NEW x \in Exc PROVE excs'[x] = Shares(indicator, payload, cause, x)'
      OBVIOUS
  <2>1. Many(Thread, indicator', x) = Many(Thread, indicator, x) + At(w, x) - At(v, x)
    BY <1>1, IndicatorMoves
  <2>2. Many(Exc, cause', x) = Many(Exc, cause, x) + At(v, x) - At(Absent, x)
    <3>1. SameBut(Exc, cause, cause', w) /\ cause'[w] = v /\ cause[w] = Absent
      BY <1>1 DEF SameBut, ErrTypes
    <3>2. Many(Exc, cause', x) = Many(Exc, cause, x) + At(cause'[w], x) - At(cause[w], x)
      <4> HIDE DEF v
      <4> QED  BY <3>1, PointerMoves DEF ErrLegal
    <3> QED  BY <3>1, <3>2
  <2>3. excs[x] = Shares(indicator, payload, cause, x)  BY <1>1 DEF Counts
  <2>4. At(Absent, x) = 0 /\ At(w, x) \in Nat /\ At(v, x) \in Nat  BY DEF At, ErrLegal
  <2>5. Many(Carrier, Values(payload'), x) = Many(Carrier, Values(payload), x)  BY <1>1
  <2> HIDE DEF v
  <2> QED  BY <1>2, <2>1, <2>2, <2>3, <2>4, <2>5, ManyNat DEF Shares
<1>4. Counts'  BY <1>3 DEF Counts
<1>5. \A x \in Exc : excs'[x] = 0 => cause'[x] = Absent
  BY <1>1, <1>2 DEF Alive, ErrTypes, At
<1>6. Alive'  BY <1>3, <1>5, AliveFollows
<1>7. Messages'  BY <1>1, MessagesKept
<1>8. ErrTypes'  BY <1>1, <1>2 DEF ErrTypes
<1> QED  BY <1>4, <1>6, <1>7, <1>8

\* Nobody asks an exception that is gone.
LEMMA NoneAtWork ==
    ASSUME Messages, NEW e \in Carrier, ~payload[e].live \/ X!Unshared(e)
    PROVE  AtWork(e) = {} /\ \A t \in Thread : what[t].pc # "none" => what[t].err # e
BY DEF Messages, MessageSound, AtWork, X!Unshared

LEMMA CopyInv ==
    ASSUME ErrLegal, ErrInv, NEW t \in Thread, NEW e \in Carrier, NEW f \in Carrier, X!Copy(t, e, f)
    PROVE  ErrInv'
<1> USE DEF ErrInv
<1> DEFINE v == payload[e].value
           msg == payload[e].msg
<1>1. /\ v \in Exc \cup {Absent} /\ msg \in Thread \cup {Absent} /\ payload[e].live
      /\ payload[e] \in PayloadType /\ ~payload[f].live /\ payload[f] = X!Blank /\ e # f
      /\ payload' = [payload EXCEPT ![f] = payload[e]]
      /\ buffers' = IF msg = Absent THEN buffers ELSE [buffers EXCEPT ![f] = {msg}]
      /\ excs' = IF v # Absent /\ alive THEN [excs EXCEPT ![v] = excs[v] + 1] ELSE excs
      /\ UNCHANGED <<indicator, cause, what, alive>>
  BY DEF X!Copy, ErrTypes, PayloadType
<1>2. payload'[f] = payload[e] /\ \A g \in Carrier : g # f => payload'[g] = payload[g]
  BY <1>1 DEF ErrTypes
<1>3. ErrTypes'
  <2>1. payload' \in [Carrier -> PayloadType]  BY <1>1 DEF ErrTypes
  <2>2. \A g \in Carrier : ~payload'[g].live => payload'[g] = X!Blank  BY <1>1, <1>2 DEF ErrTypes
  <2>3. buffers' \in [Carrier -> SUBSET Thread]  BY <1>1 DEF ErrTypes
  <2>4. excs' \in [Exc -> Nat]  BY <1>1 DEF ErrTypes
  <2> QED  BY <1>1, <2>1, <2>2, <2>3, <2>4 DEF ErrTypes
<1>4. alive => \A x \in Exc : excs'[x] = Shares(indicator, payload, cause, x)'
  <2> SUFFICES ASSUME NEW x \in Exc, alive PROVE excs'[x] = Shares(indicator, payload, cause, x)'
      OBVIOUS
  <2>1. Many(Carrier, Values(payload'), x) = Many(Carrier, Values(payload), x) + At(v, x) - At(Absent, x)
    <3>1. /\ \A g \in Carrier : g # f => payload'[g].value = payload[g].value
          /\ payload'[f].value = v /\ payload[f].value = Absent
      BY <1>1, <1>2 DEF X!Blank
    <3> QED  BY <3>1, CarrierMoves
  <2>2. excs[x] = Shares(indicator, payload, cause, x)  BY DEF Counts
  <2>3. excs'[x] = excs[x] + At(v, x)  BY <1>1 DEF ErrTypes, At, ErrLegal
  <2>4. At(Absent, x) = 0 /\ At(v, x) \in Nat  BY DEF At, ErrLegal
  <2>5. Many(Thread, indicator', x) = Many(Thread, indicator, x) /\ Many(Exc, cause', x) = Many(Exc, cause, x)
    BY <1>1
  <2> HIDE DEF v
  <2> QED  BY <2>1, <2>2, <2>3, <2>4, <2>5, ManyNat DEF Shares
<1>5. Counts'  BY <1>1, <1>4 DEF Counts
<1>6. Alive'
  <2>1. CASE alive
    <3>1. \A x \in Exc : excs'[x] = 0 => cause'[x] = Absent
      BY <1>1, <2>1 DEF Alive, ErrTypes, Wanted
    <3> QED  BY <1>4, <2>1, <3>1, AliveFollows
  <2>2. CASE ~alive
    <3>1. \A x \in Exc : Wanted(x)' => Wanted(x)  BY <1>1, <1>2 DEF Wanted
    <3> QED  BY <1>1, <2>2, <3>1, AliveStays
  <2> QED  BY <2>1, <2>2
<1>7. Messages'
  <2>1. AtWork(f) = {} /\ \A u \in Thread : what[u].pc # "none" => what[u].err # f
    BY <1>1, NoneAtWork
  <2>2. \A g \in Carrier : AtWork(g)' = AtWork(g)  BY <1>1 DEF AtWork
  <2>3. \A u \in Thread : MessageSound(u)'
    BY <1>1, <1>2, <2>1 DEF Messages, MessageSound
  <2>4. buffers'[f] = {msg} \ {Absent}
    <3>1. buffers[f] = {}  BY <1>1, <2>1 DEF Messages, X!Blank
    <3> QED  BY <1>1, <3>1 DEF ErrTypes
  <2>5. \A g \in Carrier : g # f => buffers'[g] = buffers[g]  BY <1>1 DEF ErrTypes
  <2>6. \A g \in Carrier : buffers'[g] = ({payload'[g].msg} \ {Absent}) \cup AtWork(g)'
    BY <1>2, <2>1, <2>2, <2>4, <2>5 DEF Messages
  <2> QED  BY <2>3, <2>6 DEF Messages
<1> QED  BY <1>3, <1>5, <1>6, <1>7

LEMMA MoveInv ==
    ASSUME ErrLegal, ErrInv, NEW t \in Thread, NEW e \in Carrier, NEW f \in Carrier, X!Move(t, e, f)
    PROVE  ErrInv'
<1> USE DEF ErrInv
<1> DEFINE v == payload[e].value
           left == [X!Blank EXCEPT !.live = TRUE]
<1>1. /\ v \in Exc /\ X!Unshared(e) /\ payload[e].live /\ payload[e] \in PayloadType
      /\ ~payload[f].live /\ payload[f] = X!Blank /\ e # f
      /\ payload' = [payload EXCEPT ![f] = payload[e], ![e] = left]
      /\ buffers' = [buffers EXCEPT ![f] = buffers[e], ![e] = {}]
      /\ UNCHANGED <<indicator, excs, cause, what, alive>>
  BY DEF X!Move, ErrTypes, PayloadType
<1>2. /\ payload'[f] = payload[e] /\ payload'[e] = left
      /\ \A g \in Carrier : g \notin {e, f} => payload'[g] = payload[g]
  BY <1>1 DEF ErrTypes
<1>3. left.live = TRUE /\ left.value = Absent /\ left.msg = Absent /\ left \in PayloadType
  BY DEF X!Blank, PayloadType
<1> HIDE DEF left
<1>4. ErrTypes'
  <2>1. payload' \in [Carrier -> PayloadType]  BY <1>1, <1>3 DEF ErrTypes
  <2>2. \A g \in Carrier : ~payload'[g].live => payload'[g] = X!Blank
    BY <1>1, <1>2, <1>3 DEF ErrTypes
  <2>3. buffers' \in [Carrier -> SUBSET Thread]  BY <1>1 DEF ErrTypes
  <2> QED  BY <1>1, <2>1, <2>2, <2>3 DEF ErrTypes
<1>5. \A x \in Exc : Many(Carrier, Values(payload'), x) = Many(Carrier, Values(payload), x)
  <2> SUFFICES ASSUME NEW x \in Exc
               PROVE  Many(Carrier, Values(payload'), x) = Many(Carrier, Values(payload), x)
      OBVIOUS
  <2> DEFINE mid == [payload EXCEPT ![f] = payload[e]]
  <2>1. mid[f] = payload[e] /\ \A g \in Carrier : g # f => mid[g] = payload[g]
    BY <1>1 DEF ErrTypes
  <2> HIDE DEF mid
  <2>2. Many(Carrier, Values(mid), x) = Many(Carrier, Values(payload), x) + At(v, x) - At(Absent, x)
    <3>1. /\ \A g \in Carrier : g # f => mid[g].value = payload[g].value
          /\ mid[f].value = v /\ payload[f].value = Absent
      BY <1>1, <2>1 DEF X!Blank
    <3> QED  BY <3>1, CarrierMoves
  <2>3. Many(Carrier, Values(payload'), x) = Many(Carrier, Values(mid), x) + At(Absent, x) - At(v, x)
    <3>1. /\ \A g \in Carrier : g # e => payload'[g].value = mid[g].value
          /\ payload'[e].value = Absent /\ mid[e].value = v
      BY <1>1, <1>2, <1>3, <2>1
    <3> QED  BY <3>1, CarrierMoves
  <2>4. At(Absent, x) \in Nat /\ At(v, x) \in Nat  BY DEF At
  <2> HIDE DEF v
  <2> QED  BY <2>2, <2>3, <2>4, ManyNat
<1>6. Counts'  BY <1>1, <1>5 DEF Counts, Shares
<1>7. Alive'
  <2>1. \A x \in Exc, g \in Carrier : payload'[g].value = x => \E h \in Carrier : payload[h].value = x
    <3> SUFFICES ASSUME NEW x \in Exc, NEW g \in Carrier, payload'[g].value = x
                 PROVE  \E h \in Carrier : payload[h].value = x
        OBVIOUS
    <3>1. CASE g = f  BY <1>2, <3>1
    <3>2. CASE g = e  BY <1>2, <1>3, <3>2 DEF ErrLegal
    <3>3. CASE g \notin {e, f}  BY <1>2, <3>3
    <3> QED  BY <3>1, <3>2, <3>3
  <2>2. \A x \in Exc : Wanted(x)' => Wanted(x)  BY <1>1, <2>1 DEF Wanted
  <2> QED  BY <1>1, <2>2, AliveStays
<1>8. Messages'
  <2>1. /\ AtWork(e) = {} /\ AtWork(f) = {}
        /\ \A u \in Thread : what[u].pc # "none" => what[u].err \notin {e, f}
    BY <1>1, NoneAtWork
  <2>2. \A g \in Carrier : AtWork(g)' = AtWork(g)  BY <1>1 DEF AtWork
  <2>3. \A u \in Thread : MessageSound(u)'
    <3> SUFFICES ASSUME NEW u \in Thread PROVE MessageSound(u)'  OBVIOUS
    <3>1. MessageSound(u) /\ what'[u] = what[u]  BY <1>1 DEF Messages
    <3>2. CASE what[u].pc = "none"  BY <3>1, <3>2 DEF MessageSound
    <3>3. CASE what[u].pc # "none"
      <4>1. payload'[what[u].err] = payload[what[u].err]
        BY <1>2, <2>1, <3>1, <3>3 DEF MessageSound
      <4> QED  BY <3>1, <3>3, <4>1 DEF MessageSound
    <3> QED  BY <3>2, <3>3
  <2>4. /\ buffers'[f] = buffers[e] /\ buffers'[e] = {}
        /\ \A g \in Carrier : g \notin {e, f} => buffers'[g] = buffers[g]
    BY <1>1 DEF ErrTypes
  <2>5. \A g \in Carrier : buffers'[g] = ({payload'[g].msg} \ {Absent}) \cup AtWork(g)'
    BY <1>2, <1>3, <2>1, <2>2, <2>4 DEF Messages
  <2> QED  BY <2>3, <2>5 DEF Messages
<1> QED  BY <1>4, <1>6, <1>7, <1>8

LEMMA DestroyInv ==
    ASSUME ErrLegal, ErrInv, NEW t \in Thread, NEW e \in Carrier, X!Destroy(t, e)
    PROVE  ErrInv'
<1> USE DEF ErrInv
<1> DEFINE v == payload[e].value
<1>1. /\ v \in Exc \cup {Absent} /\ X!Unshared(e) /\ payload[e].live
      /\ payload' = [payload EXCEPT ![e] = X!Blank]
      /\ buffers' = [buffers EXCEPT ![e] = buffers[e] \ {payload[e].msg}]
      /\ IF v # Absent /\ alive THEN X!Drop(v) ELSE UNCHANGED <<excs, cause>>
      /\ UNCHANGED <<indicator, what, alive>>
  BY DEF X!Destroy, X!Keep, ErrTypes, PayloadType
<1>2. /\ payload'[e] = X!Blank /\ \A g \in Carrier : g # e => payload'[g] = payload[g]
      /\ X!Blank \in PayloadType /\ X!Blank.value = Absent /\ X!Blank.msg = Absent
      /\ X!Blank.live = FALSE
  BY <1>1 DEF ErrTypes, X!Blank, PayloadType
<1>3. /\ cause' \in [Exc -> Exc \cup {Absent}] /\ excs' \in [Exc -> Int]
      /\ alive => \A x \in Exc : excs'[x] - 2 * Many(Exc, cause', x)
                                 = excs[x] - 2 * Many(Exc, cause, x) - At(x, v)
      /\ \A x \in Exc : excs'[x] = 0 /\ (excs[x] = 0 => cause[x] = Absent) => cause'[x] = Absent
  <2>1. CASE v # Absent /\ alive  BY <1>1, <2>1, DropCounts DEF ErrLegal
  <2>2. CASE ~(v # Absent /\ alive)
    <3>1. UNCHANGED <<excs, cause>> /\ excs \in [Exc -> Int] /\ cause \in [Exc -> Exc \cup {Absent}]
      BY <1>1, <2>2 DEF ErrTypes
    <3>2. alive => \A x \in Exc : At(x, v) = 0 /\ excs[x] \in Int /\ Many(Exc, cause, x) \in Nat
      BY <2>2, <3>1, ManyNat DEF At, ErrLegal
    <3> QED  BY <3>1, <3>2
  <2> QED  BY <1>1, <2>1, <2>2
<1>4. alive => \A x \in Exc : excs'[x] = Shares(indicator, payload, cause, x)' /\ excs'[x] \in Nat
  <2> SUFFICES ASSUME NEW x \in Exc, alive
               PROVE  excs'[x] = Shares(indicator, payload, cause, x)' /\ excs'[x] \in Nat
      OBVIOUS
  <2>1. Many(Carrier, Values(payload'), x) = Many(Carrier, Values(payload), x) + At(Absent, x) - At(v, x)
    <3>1. /\ \A g \in Carrier : g # e => payload'[g].value = payload[g].value
          /\ payload'[e].value = Absent /\ payload[e].value = v
      BY <1>2
    <3> QED  BY <3>1, CarrierMoves
  <2>2. /\ Many(Thread, indicator', x) \in Nat /\ Many(Exc, cause', x) \in Nat
        /\ Many(Carrier, Values(payload'), x) \in Nat
    BY PointingFinite DEF ErrLegal
  <2>3. excs[x] = Shares(indicator, payload, cause, x)  BY DEF Counts
  <2>4. excs'[x] - 2 * Many(Exc, cause', x) = excs[x] - 2 * Many(Exc, cause, x) - At(x, v)
    BY <1>3
  <2>5. At(Absent, x) = 0 /\ At(x, v) = At(v, x) /\ At(v, x) \in Nat /\ excs'[x] \in Int
    BY <1>3 DEF At, ErrLegal
  <2>6. Many(Thread, indicator', x) = Many(Thread, indicator, x)  BY <1>1
  <2> HIDE DEF v
  <2> QED  BY <2>1, <2>2, <2>3, <2>4, <2>5, <2>6, ManyNat DEF Shares
<1>5. Counts'  BY <1>1, <1>4 DEF Counts
<1>6. Alive'
  <2>1. CASE alive
    <3>1. \A x \in Exc : excs'[x] = 0 => cause'[x] = Absent  BY <1>3 DEF Alive
    <3> QED  BY <1>4, <2>1, <3>1, AliveFollows
  <2>2. CASE ~alive
    <3>1. \A x \in Exc : Wanted(x)' => Wanted(x)  BY <1>1, <1>2, <2>2 DEF Wanted, ErrLegal
    <3> QED  BY <1>1, <2>2, <3>1, AliveStays
  <2> QED  BY <2>1, <2>2
<1>7. Messages'
  <2>1. AtWork(e) = {} /\ \A u \in Thread : what[u].pc # "none" => what[u].err # e
    BY <1>1, NoneAtWork
  <2>2. \A g \in Carrier : AtWork(g)' = AtWork(g)  BY <1>1 DEF AtWork
  <2>3. \A u \in Thread : MessageSound(u)'
    BY <1>1, <1>2, <2>1 DEF Messages, MessageSound
  <2>4. buffers'[e] = {} /\ \A g \in Carrier : g # e => buffers'[g] = buffers[g]
    BY <1>1, <2>1 DEF ErrTypes, Messages
  <2>5. \A g \in Carrier : buffers'[g] = ({payload'[g].msg} \ {Absent}) \cup AtWork(g)'
    BY <1>2, <2>1, <2>2, <2>4 DEF Messages
  <2> QED  BY <2>3, <2>5 DEF Messages
<1>8. ErrTypes'
  <2>1. payload' \in [Carrier -> PayloadType]  BY <1>1, <1>2 DEF ErrTypes
  <2>2. \A f \in Carrier : ~payload'[f].live => payload'[f] = X!Blank  BY <1>2 DEF ErrTypes
  <2>3. excs' \in [Exc -> Nat]
    <3>1. CASE alive  BY <1>3, <1>4, <3>1
    <3>2. CASE ~alive  BY <1>1, <3>2 DEF ErrTypes
    <3> QED  BY <3>1, <3>2
  <2>4. buffers' \in [Carrier -> SUBSET Thread]  BY <1>1 DEF ErrTypes
  <2> QED  BY <1>1, <1>3, <2>1, <2>2, <2>3, <2>4 DEF ErrTypes
<1> QED  BY <1>5, <1>6, <1>7, <1>8

\* Steps of a caller of what() concern messages only.
LEMMA ValuesKept ==
    ASSUME ErrInv, UNCHANGED <<indicator, excs, cause, alive>>,
           \A e \in Carrier : payload'[e].value = payload[e].value
    PROVE  Counts' /\ Alive'
<1>1. Values(payload') = Values(payload)  BY DEF Values
<1>2. \A x \in Exc : Wanted(x)' => Wanted(x)  BY DEF Wanted
<1> QED  BY <1>1, <1>2, AliveStays DEF ErrInv, Counts, Shares

LEMMA WhatInv ==
    ASSUME ErrLegal, ErrInv, NEW t \in Thread, NEW e \in Carrier, X!What(t, e)
    PROVE  ErrInv'
<1> USE DEF ErrInv
<1> DEFINE w == IF payload[e].msg # Absent THEN [pc |-> "got", err |-> e, msg |-> payload[e].msg]
                ELSE IF alive THEN [pc |-> "format", err |-> e, msg |-> Absent]
                ELSE [pc |-> "got", err |-> e, msg |-> "unavailable"]
<1>1. /\ what[t] = X!NoWhat /\ payload[e].live /\ payload[e].msg \in Thread \cup {Absent}
      /\ what' = [what EXCEPT ![t] = w]
      /\ UNCHANGED <<indicator, payload, buffers, excs, cause, alive>>
  BY DEF X!What, X!Idle, ErrTypes, PayloadType
<1>2. w \in WhatType /\ w.pc \in {"got", "format"} /\ w.err = e
      /\ (w.pc = "got" /\ w.msg # "unavailable" => w.msg \in Thread /\ w.msg = payload[e].msg)
  BY <1>1 DEF WhatType
<1> HIDE DEF w
<1>3. what'[t] = w /\ \A u \in Thread : u # t => what'[u] = what[u]  BY <1>1 DEF ErrTypes
<1>4. ErrTypes'  BY <1>1, <1>2 DEF ErrTypes
<1>5. Counts' /\ Alive'  BY <1>1, ValuesKept
<1>6. \A g \in Carrier : AtWork(g)' = AtWork(g)  BY <1>1, <1>2, <1>3 DEF AtWork, X!NoWhat
<1>7. \A u \in Thread : MessageSound(u)'
  <2> SUFFICES ASSUME NEW u \in Thread PROVE MessageSound(u)'  OBVIOUS
  <2>1. CASE u = t  BY <1>1, <1>2, <1>3, <2>1 DEF MessageSound
  <2>2. CASE u # t  BY <1>1, <1>3, <2>2 DEF MessageSound, Messages
  <2> QED  BY <2>1, <2>2
<1>8. Messages'  BY <1>1, <1>6, <1>7 DEF Messages
<1> QED  BY <1>4, <1>5, <1>8

LEMMA FormatInv ==
    ASSUME ErrLegal, ErrInv, NEW t \in Thread, X!Format(t)
    PROVE  ErrInv'
<1> USE DEF ErrInv
<1>0. PICK e \in Carrier : e = what[t].err
  BY DEF X!Format, Messages, MessageSound
<1>1. /\ what[t].err = e /\ payload[e].live /\ what[t].pc = "format" /\ what[t] \in WhatType
      /\ payload[e].msg \in Thread \cup {Absent}
      /\ UNCHANGED <<indicator, payload, excs, cause, alive>>
  BY <1>0 DEF X!Format, Messages, MessageSound, ErrTypes, PayloadType
<1>2. Counts' /\ Alive'  BY <1>1, ValuesKept
<1>3. CASE payload[e].msg # Absent
  <2>1. what' = [what EXCEPT ![t].pc = "got", ![t].msg = payload[e].msg] /\ UNCHANGED buffers
    BY <1>0, <1>3 DEF X!Format
  <2>2. /\ what'[t].pc = "got" /\ what'[t].err = e /\ what'[t].msg = payload[e].msg
        /\ what'[t] \in WhatType /\ \A u \in Thread : u # t => what'[u] = what[u]
    BY <1>1, <1>3, <2>1 DEF ErrTypes, WhatType
  <2>3. what' \in [Thread -> WhatType]  BY <2>1, <2>2 DEF ErrTypes
  <2>4. ErrTypes'  BY <1>1, <2>1, <2>3 DEF ErrTypes
  <2>5. \A g \in Carrier : AtWork(g)' = AtWork(g)  BY <1>1, <2>2 DEF AtWork
  <2>6. \A u \in Thread : MessageSound(u)'
    <3> SUFFICES ASSUME NEW u \in Thread PROVE MessageSound(u)'  OBVIOUS
    <3>1. CASE u = t  BY <1>1, <1>3, <2>2, <3>1 DEF MessageSound
    <3>2. CASE u # t  BY <1>1, <2>2, <3>2 DEF MessageSound, Messages
    <3> QED  BY <3>1, <3>2
  <2>7. Messages'  BY <1>1, <2>1, <2>5, <2>6 DEF Messages
  <2> QED  BY <1>2, <2>4, <2>7
<1>4. CASE payload[e].msg = Absent
  <2>1. /\ buffers' = [buffers EXCEPT ![e] = buffers[e] \cup {t}]
        /\ what' = [what EXCEPT ![t].pc = "publish", ![t].msg = t]
    BY <1>0, <1>4 DEF X!Format
  <2>2. /\ what'[t].pc = "publish" /\ what'[t].err = e /\ what'[t].msg = t
        /\ what'[t] \in WhatType /\ \A u \in Thread : u # t => what'[u] = what[u]
    BY <1>1, <2>1 DEF ErrTypes, WhatType
  <2>3. what' \in [Thread -> WhatType]  BY <2>1, <2>2 DEF ErrTypes
  <2>4. buffers' \in [Carrier -> SUBSET Thread]  BY <2>1 DEF ErrTypes
  <2>5. ErrTypes'  BY <1>1, <2>3, <2>4 DEF ErrTypes
  <2>6. AtWork(e)' = AtWork(e) \cup {t} /\ \A g \in Carrier : g # e => AtWork(g)' = AtWork(g)
    BY <1>1, <2>2 DEF AtWork
  <2>7. \A u \in Thread : MessageSound(u)'
    <3> SUFFICES ASSUME NEW u \in Thread PROVE MessageSound(u)'  OBVIOUS
    <3>1. CASE u = t  BY <1>1, <1>4, <2>2, <3>1 DEF MessageSound, ErrLegal
    <3>2. CASE u # t  BY <1>1, <2>2, <3>2 DEF MessageSound, Messages
    <3> QED  BY <3>1, <3>2
  <2>8. /\ buffers'[e] = buffers[e] \cup {t}
        /\ \A g \in Carrier : g # e => buffers'[g] = buffers[g]
    BY <1>1, <2>1 DEF ErrTypes
  <2>9. \A g \in Carrier : buffers'[g] = ({payload'[g].msg} \ {Absent}) \cup AtWork(g)'
    <3> SUFFICES ASSUME NEW g \in Carrier
                 PROVE  buffers'[g] = ({payload'[g].msg} \ {Absent}) \cup AtWork(g)'
        OBVIOUS
    <3>1. buffers[g] = ({payload[g].msg} \ {Absent}) \cup AtWork(g) /\ payload'[g] = payload[g]
      BY <1>1 DEF Messages
    <3>2. CASE g = e
      BY <2>6, <2>8, <3>1, <3>2
    <3>3. CASE g # e  BY <2>6, <2>8, <3>1, <3>3
    <3> QED  BY <3>2, <3>3
  <2> QED  BY <1>2, <2>5, <2>7, <2>9 DEF Messages
<1> QED  BY <1>3, <1>4

LEMMA PublishErrInv ==
    ASSUME ErrLegal, ErrInv, NEW t \in Thread, X!Publish(t)
    PROVE  ErrInv'
<1> USE DEF ErrInv
<1>0. PICK e \in Carrier : e = what[t].err
  BY DEF X!Publish, Messages, MessageSound
<1>1. /\ what[t].err = e /\ payload[e].live /\ what[t].pc = "publish" /\ what[t] \in WhatType
      /\ payload[e] \in PayloadType /\ what[t].msg = t /\ payload[e].msg # t
      /\ UNCHANGED <<indicator, excs, cause, alive>>
  BY <1>0 DEF X!Publish, Messages, MessageSound, ErrTypes
<1>2. /\ payload' = IF payload[e].msg = Absent THEN [payload EXCEPT ![e].msg = t] ELSE payload
      /\ buffers' = IF payload[e].msg = Absent THEN buffers
                    ELSE [buffers EXCEPT ![e] = buffers[e] \ {t}]
      /\ what' = [what EXCEPT ![t].pc = "got", ![t].msg = payload'[e].msg]
  BY <1>1 DEF X!Publish
<1>3. /\ payload'[e] \in PayloadType /\ payload'[e].live /\ payload'[e].msg \in Thread
      /\ payload'[e].value = payload[e].value
      /\ payload'[e].msg = IF payload[e].msg = Absent THEN t ELSE payload[e].msg
      /\ \A g \in Carrier : g # e => payload'[g] = payload[g]
  BY <1>1, <1>2 DEF ErrTypes, PayloadType, ErrLegal
<1>4. /\ what'[t].pc = "got" /\ what'[t].err = e /\ what'[t].msg = payload'[e].msg
      /\ what'[t] \in WhatType /\ \A u \in Thread : u # t => what'[u] = what[u]
  BY <1>1, <1>2, <1>3 DEF ErrTypes, WhatType
<1>5. Counts' /\ Alive'
  <2>1. \A g \in Carrier : payload'[g].value = payload[g].value  BY <1>3
  <2> QED  BY <1>1, <2>1, ValuesKept
<1>6. ErrTypes'
  <2>1. payload' \in [Carrier -> PayloadType]  BY <1>2, <1>3 DEF ErrTypes
  <2>2. \A g \in Carrier : ~payload'[g].live => payload'[g] = X!Blank  BY <1>3 DEF ErrTypes
  <2>3. buffers' \in [Carrier -> SUBSET Thread]  BY <1>2 DEF ErrTypes
  <2>4. what' \in [Thread -> WhatType]  BY <1>2, <1>4 DEF ErrTypes
  <2> QED  BY <1>1, <2>1, <2>2, <2>3, <2>4 DEF ErrTypes
<1>7. AtWork(e)' = AtWork(e) \ {t} /\ \A g \in Carrier : g # e => AtWork(g)' = AtWork(g)
  BY <1>1, <1>4 DEF AtWork
<1>8. \A u \in Thread : MessageSound(u)'
  <2> SUFFICES ASSUME NEW u \in Thread PROVE MessageSound(u)'  OBVIOUS
  <2>1. CASE u = t  BY <1>1, <1>3, <1>4, <2>1 DEF MessageSound
  <2>2. CASE u # t /\ what[u].err # e
    <3>1. what'[u] = what[u] /\ MessageSound(u)  BY <1>4, <2>2 DEF Messages
    <3> QED  BY <1>3, <2>2, <3>1 DEF MessageSound
  <2>3. CASE u # t /\ what[u].err = e
    <3>1. what'[u] = what[u] /\ MessageSound(u)  BY <1>4, <2>3 DEF Messages
    <3> QED  BY <1>1, <1>3, <2>3, <3>1 DEF MessageSound, ErrLegal
  <2> QED  BY <2>1, <2>2, <2>3
<1>9. \A g \in Carrier : buffers'[g] = ({payload'[g].msg} \ {Absent}) \cup AtWork(g)'
  <2>1. \A g \in Carrier : g # e => buffers'[g] = buffers[g]  BY <1>2 DEF ErrTypes
  <2>2. t \in AtWork(e) /\ buffers[e] = ({payload[e].msg} \ {Absent}) \cup AtWork(e)
    BY <1>1 DEF AtWork, Messages
  <2>3. buffers'[e] = IF payload[e].msg = Absent THEN buffers[e] ELSE buffers[e] \ {t}
    BY <1>1, <1>2 DEF ErrTypes
  <2>4. buffers'[e] = ({payload'[e].msg} \ {Absent}) \cup (AtWork(e) \ {t})
    <3>1. CASE payload[e].msg = Absent  BY <1>3, <2>2, <2>3, <3>1 DEF ErrLegal
    <3>2. CASE payload[e].msg # Absent  BY <1>1, <1>3, <2>2, <2>3, <3>2
    <3> QED  BY <3>1, <3>2
  <2> SUFFICES ASSUME NEW g \in Carrier
               PROVE  buffers'[g] = ({payload'[g].msg} \ {Absent}) \cup AtWork(g)'
      OBVIOUS
  <2>5. CASE g = e  BY <1>7, <2>4, <2>5
  <2>6. CASE g # e
    <3>1. buffers[g] = ({payload[g].msg} \ {Absent}) \cup AtWork(g)  BY DEF Messages
    <3> QED  BY <1>3, <1>7, <2>1, <2>6, <3>1
  <2> QED  BY <2>5, <2>6
<1> QED  BY <1>5, <1>6, <1>8, <1>9 DEF Messages

LEMMA ReadInv ==
    ASSUME ErrLegal, ErrInv, NEW t \in Thread, X!Read(t)
    PROVE  ErrInv'
<1> USE DEF ErrInv
<1>1. /\ what[t].pc = "got" /\ what' = [what EXCEPT ![t] = X!NoWhat]
      /\ UNCHANGED <<indicator, payload, buffers, excs, cause, alive>>
  BY DEF X!Read
<1>2. X!NoWhat \in WhatType /\ X!NoWhat.pc = "none"  BY DEF X!NoWhat, WhatType
<1>3. what'[t] = X!NoWhat /\ \A u \in Thread : u # t => what'[u] = what[u]
  BY <1>1 DEF ErrTypes
<1>4. ErrTypes'  BY <1>1, <1>2 DEF ErrTypes
<1>5. Counts' /\ Alive'  BY <1>1, ValuesKept
<1>6. \A g \in Carrier : AtWork(g)' = AtWork(g)  BY <1>1, <1>2, <1>3 DEF AtWork
<1>7. \A u \in Thread : MessageSound(u)'
  <2> SUFFICES ASSUME NEW u \in Thread PROVE MessageSound(u)'  OBVIOUS
  <2>1. CASE u = t  BY <1>2, <1>3, <2>1 DEF MessageSound
  <2>2. CASE u # t  BY <1>1, <1>3, <2>2 DEF MessageSound, Messages
  <2> QED  BY <2>1, <2>2
<1> QED  BY <1>1, <1>4, <1>5, <1>6, <1>7 DEF Messages

LEMMA ShutDownInv ==
    ASSUME ErrLegal, ErrInv, X!ShutDown
    PROVE  ErrInv'
<1> USE DEF ErrInv
<1>1. /\ alive' = FALSE /\ UNCHANGED <<indicator, payload, buffers, excs, cause, what>>
  BY DEF X!ShutDown
<1>2. ErrTypes' /\ Counts'  BY <1>1 DEF ErrTypes, Counts
<1>3. Alive'
  <2>1. \A x \in Exc : Wanted(x)' => Wanted(x)  BY <1>1 DEF Wanted
  <2> QED  BY <1>1, <2>1, AliveStays
<1>4. Messages'  BY <1>1, MessagesKept
<1> QED  BY <1>2, <1>3, <1>4

LEMMA ErrStep == ErrLegal /\ ErrInv /\ [X!Next]_(X!errorVars) => ErrInv'
<1> SUFFICES ASSUME ErrLegal, ErrInv, [X!Next]_(X!errorVars) PROVE ErrInv'  OBVIOUS
<1>1. CASE UNCHANGED X!errorVars
  <2>1. UNCHANGED <<indicator, payload, buffers, excs, cause, what, alive>>
    BY <1>1 DEF X!errorVars
  <2>2. ErrTypes'  BY <2>1 DEF ErrTypes, ErrInv
  <2>3. Counts' /\ Alive'  BY <2>1, ValuesKept
  <2>4. Messages'  BY <2>1, MessagesKept DEF ErrInv
  <2> QED  BY <2>2, <2>3, <2>4 DEF ErrInv
<1>2. CASE X!Next
  BY <1>2, ShutDownInv, HandleInv, FormatInv, PublishErrInv, ReadInv, FailsInv, ChainInv, FetchInv,
     RestoreInv, DestroyInv, WhatInv, CopyInv, MoveInv
  DEF X!Next
<1> QED  BY <1>1, <1>2

\* What the invariant says of references and messages.
LEMMA ErrOwners ==
    ASSUME ErrLegal, ErrInv, NEW v \in Exc
    PROVE  /\ X!Owners(v) = Shares(indicator, payload, cause, v)
           /\ X!Owners(v) > 0 => Wanted(v)
<1>1. {e \in Carrier : payload[e].value = v} = Pointing(Carrier, Values(payload), v)
  BY DEF Pointing, Values
<1>2. X!Owners(v) = Shares(indicator, payload, cause, v)
  BY <1>1, ErrCardinality DEF X!Owners, Shares, Many, Pointing
<1>3. /\ Many(Thread, indicator, v) > 0 => \E t \in Thread : indicator[t] = v
      /\ Many(Carrier, Values(payload), v) > 0 => \E e \in Carrier : Values(payload)[e] = v
      /\ Many(Exc, cause, v) > 0 => \E w \in Exc : cause[w] = v
  BY PointingSome DEF ErrLegal
<1>4. Shares(indicator, payload, cause, v) > 0 => Wanted(v)
  BY <1>3, ManyNat DEF Shares, Wanted, Values
<1> QED  BY <1>2, <1>4

LEMMA ErrAnswer == ErrLegal /\ ErrInv => X!ErrorRefsExact /\ X!CarriedAlive /\ X!OneMessage
<1> SUFFICES ASSUME ErrLegal, ErrInv PROVE X!ErrorRefsExact /\ X!CarriedAlive /\ X!OneMessage
    OBVIOUS
<1>1. X!ErrorRefsExact  BY ErrOwners DEF X!ErrorRefsExact, ErrInv, Counts
<1>2. X!CarriedAlive  BY ErrOwners DEF X!CarriedAlive, ErrInv, Alive
<1>3. X!OneMessage
  BY DEF X!OneMessage, ErrInv, Messages, MessageSound, AtWork, ErrLegal
<1> QED  BY <1>1, <1>2, <1>3

LEMMA ErrTypeOK == ErrLegal /\ ErrInv => X!TypeOK
BY DEF X!TypeOK, ErrInv, ErrTypes, PayloadType

\* An error that C++ carries keeps exactly the references that indicators, carriers and
\* later errors with it as their cause account for, so it is alive as long as it can be
\* raised again, also while carriers are copied and destroyed during shutdown; the
\* message that what() returned is the one that is published, and it is freed with its
\* exception (error.cpp:22-202, nb_error.h:44-86).
THEOREM ErrorsRight ==
    ErrLegal /\ X!Spec => [](X!TypeOK /\ X!ErrorRefsExact /\ X!CarriedAlive /\ X!OneMessage)
<1> SUFFICES ASSUME ErrLegal
             PROVE  X!Spec => [](X!TypeOK /\ X!ErrorRefsExact /\ X!CarriedAlive /\ X!OneMessage)
    OBVIOUS
<1>1. X!Init => ErrInv  BY ErrInit
<1>2. ErrInv /\ [X!Next]_(X!errorVars) => ErrInv'  BY ErrStep
<1>3. ErrInv => X!TypeOK /\ X!ErrorRefsExact /\ X!CarriedAlive /\ X!OneMessage
  BY ErrAnswer, ErrTypeOK
<1> QED  BY <1>1, <1>2, <1>3, PTL DEF X!Spec

-----------------------------------------------------------------------------
(* Translators.                                                                  *)

TransLegal == End \notin Node

WalkType == [at : Node \cup {End}, tried : Seq(Node), plan : Seq(Node),
             state : {"idle", "walking", "handled"}]
TransTypes ==
    /\ head \in Node \cup {End} /\ next \in [Node -> Node \cup {End}]
    /\ adding \in [Walker -> Node \cup {End}] /\ walk \in [Walker -> WalkType]
    /\ order \in Seq(Node)

\* The list leads from the last that was registered to the first.
Linked ==
    /\ head = IF Len(order) = 0 THEN End ELSE order[Len(order)]
    /\ \A i \in 1 .. Len(order) : next[order[i]] = IF i = 1 THEN End ELSE order[i - 1]
    /\ \A i, j \in 1 .. Len(order) : order[i] = order[j] => i = j
Added(t) == adding[t] # End =>
    /\ \A i \in 1 .. Len(order) : order[i] # adding[t]
    /\ next[adding[t]] = head
OneAdds == \A t, u \in Walker : adding[t] # End /\ adding[u] # End => t = u

\* A translation follows the list as it was when it began.
Follows(t) ==
    LET plan == walk[t].plan
        tried == walk[t].tried
    IN  /\ Len(plan) <= Len(order) /\ Len(tried) <= Len(plan)
        /\ \A i \in 1 .. Len(plan) : plan[i] = order[Len(plan) + 1 - i]
        /\ \A i \in 1 .. Len(tried) : tried[i] = plan[i]
        /\ walk[t].state = "walking" =>
              walk[t].at = IF Len(tried) < Len(plan) THEN plan[Len(tried) + 1] ELSE End

TransInv == /\ TransTypes /\ Linked /\ OneAdds
            /\ \A t \in Walker : Added(t) /\ Follows(t)

LEMMA TransInit == TransLegal /\ W!Init => TransInv
<1> SUFFICES ASSUME TransLegal, W!Init PROVE TransInv  OBVIOUS
<1>1. TransTypes  BY DEF W!Init, TransTypes, WalkType, W!Idle
<1>2. order = <<>> /\ Len(order) = 0 /\ \A t \in Walker : adding[t] = End /\ walk[t] = W!Idle
  BY DEF W!Init
<1>3. Linked /\ OneAdds  BY <1>2 DEF W!Init, Linked, OneAdds
<1>4. \A t \in Walker : Added(t) /\ Follows(t)  BY <1>2 DEF Added, Follows, W!Idle
<1> QED  BY <1>1, <1>3, <1>4 DEF TransInv

LEMMA AllocateInv ==
    ASSUME TransLegal, TransInv, NEW t \in Walker, NEW n \in Node, W!Allocate(t, n)
    PROVE  TransInv'
<1> USE DEF TransInv
<1>1. /\ \A u \in Walker : adding[u] = End
      /\ \A i \in 1 .. Len(order) : order[i] # n
      /\ adding' = [adding EXCEPT ![t] = n] /\ next' = [next EXCEPT ![n] = head]
      /\ UNCHANGED <<head, walk, order>>
  BY DEF W!Allocate, W!Fresh, W!Link, W!ToSet, TransTypes
<1>2. TransTypes'  BY <1>1 DEF TransTypes
<1>3. next'[n] = head /\ \A m \in Node : m # n => next'[m] = next[m]  BY <1>1 DEF TransTypes
<1>4. \A i \in 1 .. Len(order) : order[i] \in Node  BY DEF TransTypes
<1>5. Linked'  BY <1>1, <1>3, <1>4 DEF Linked
<1>6. adding'[t] = n /\ \A u \in Walker : u # t => adding'[u] = End  BY <1>1 DEF TransTypes
<1>7. OneAdds'  BY <1>6 DEF OneAdds
<1>8. \A u \in Walker : Added(u)'  BY <1>1, <1>3, <1>6 DEF Added
<1>9. \A u \in Walker : Follows(u)'  BY <1>1 DEF Follows
<1> QED  BY <1>2, <1>5, <1>7, <1>8, <1>9

LEMMA StoreTransInv ==
    ASSUME TransLegal, TransInv, NEW t \in Walker, W!Store(t)
    PROVE  TransInv'
<1> USE DEF TransInv
<1> DEFINE n == adding[t]
           k == Len(order)
<1>1. /\ n \in Node /\ next[n] = head /\ \A i \in 1 .. k : order[i] # n
      /\ head' = n /\ order' = Append(order, n)
      /\ adding' = [adding EXCEPT ![t] = End] /\ UNCHANGED <<next, walk>>
  BY DEF W!Store, TransTypes, Added
<1>2. /\ order' \in Seq(Node) /\ Len(order') = k + 1 /\ k \in Nat /\ order'[k + 1] = n
      /\ \A i \in 1 .. k : order'[i] = order[i]
  BY <1>1 DEF TransTypes
<1> HIDE DEF k
<1>3. TransTypes'  BY <1>1, <1>2 DEF TransTypes
<1>4. Linked'
  <2>1. head' = IF Len(order') = 0 THEN End ELSE order'[Len(order')]  BY <1>1, <1>2
  <2>2. \A i \in 1 .. k + 1 : next[order'[i]] = IF i = 1 THEN End ELSE order'[i - 1]
    <3> SUFFICES ASSUME NEW i \in 1 .. k + 1
                 PROVE  next[order'[i]] = IF i = 1 THEN End ELSE order'[i - 1]
        OBVIOUS
    <3>1. CASE i <= k  BY <1>2, <3>1 DEF Linked, k
    <3>2. CASE i = k + 1  BY <1>1, <1>2, <3>2 DEF Linked, k
    <3> QED  BY <1>2, <3>1, <3>2
  <2>3. \A i, j \in 1 .. k + 1 : order'[i] = order'[j] => i = j
    BY <1>1, <1>2 DEF Linked, k
  <2> QED  BY <1>1, <1>2, <2>1, <2>2, <2>3 DEF Linked
<1>5. \A u \in Walker : adding'[u] = End
  <2>1. \A u \in Walker : u # t => adding[u] = End  BY DEF OneAdds, W!Store
  <2> QED  BY <1>1, <2>1 DEF TransTypes
<1>6. OneAdds' /\ \A u \in Walker : Added(u)'  BY <1>5 DEF OneAdds, Added
<1>7. \A u \in Walker : Follows(u)'
  <2> SUFFICES ASSUME NEW u \in Walker PROVE Follows(u)'  OBVIOUS
  <2> DEFINE p == Len(walk[u].plan)
  <2>1. p \in Nat /\ p <= k /\ \A i \in 1 .. p : p + 1 - i \in 1 .. k
    BY <1>2 DEF Follows, TransTypes, WalkType, k
  <2>2. \A i \in 1 .. p : walk[u].plan[i] = order'[p + 1 - i]
    BY <1>2, <2>1 DEF Follows, k
  <2>3. walk'[u] = walk[u] /\ Len(walk[u].plan) <= Len(order')  BY <1>1, <1>2, <2>1
  <2>4. Follows(u)  OBVIOUS
  <2> QED  BY <2>2, <2>3, <2>4 DEF Follows
<1> QED  BY <1>3, <1>4, <1>6, <1>7

LEMMA BeginTransInv ==
    ASSUME TransLegal, TransInv, NEW t \in Walker, W!Begin(t)
    PROVE  TransInv'
<1> USE DEF TransInv
<1> DEFINE w == [at |-> head, tried |-> <<>>, plan |-> W!Reverse(order), state |-> "walking"]
<1>1. walk' = [walk EXCEPT ![t] = w] /\ UNCHANGED <<head, next, adding, order>>
  BY DEF W!Begin
<1>2. /\ w.plan \in Seq(Node) /\ Len(w.plan) = Len(order) /\ Len(order) \in Nat
      /\ \A i \in 1 .. Len(order) : w.plan[i] = order[Len(order) + 1 - i]
  <2>1. /\ order \in Seq(Node) /\ Len(order) \in Nat
        /\ W!Reverse(order) = [i \in 1 .. Len(order) |-> order[(Len(order) - i) + 1]]
    BY DEF TransTypes, W!Reverse
  <2>2. \A i \in 1 .. Len(order) : (Len(order) - i) + 1 \in 1 .. Len(order)  BY <2>1
  <2> QED  BY <2>1, <2>2
<1>3. w.at = head /\ w.tried = <<>> /\ w.state = "walking" /\ w \in WalkType
  BY <1>2 DEF WalkType, TransTypes
<1> HIDE DEF w
<1>4. walk'[t] = w /\ \A u \in Walker : u # t => walk'[u] = walk[u]  BY <1>1 DEF TransTypes
<1>5. TransTypes'  BY <1>1, <1>3 DEF TransTypes
<1>6. Linked' /\ OneAdds' /\ \A u \in Walker : Added(u)'  BY <1>1 DEF Linked, OneAdds, Added
<1>7. \A u \in Walker : Follows(u)'
  <2> SUFFICES ASSUME NEW u \in Walker PROVE Follows(u)'  OBVIOUS
  <2>1. CASE u = t  BY <1>1, <1>2, <1>3, <1>4, <2>1 DEF Follows, Linked
  <2>2. CASE u # t  BY <1>1, <1>4, <2>2 DEF Follows
  <2> QED  BY <2>1, <2>2
<1> QED  BY <1>5, <1>6, <1>7

LEMMA TryInv ==
    ASSUME TransLegal, TransInv, NEW t \in Walker, NEW handled \in BOOLEAN, W!Try(t, handled)
    PROVE  TransInv'
<1> USE DEF TransInv
<1> DEFINE n == walk[t].at
           tried == walk[t].tried
           plan == walk[t].plan
           j == Len(tried)
           k == Len(plan)
<1>1. /\ n \in Node /\ walk[t].state = "walking" /\ walk[t] \in WalkType
      /\ tried \in Seq(Node) /\ plan \in Seq(Node) /\ j \in Nat /\ k \in Nat
      /\ walk' = [walk EXCEPT ![t].tried = Append(tried, n),
                              ![t].state = IF handled THEN "handled" ELSE walk[t].state,
                              ![t].at = IF handled THEN n ELSE next[n]]
      /\ UNCHANGED <<head, next, adding, order>>
  BY DEF W!Try, W!GoesOn, TransTypes, WalkType
<1>2. /\ walk'[t].tried = Append(tried, n) /\ walk'[t].plan = plan
      /\ walk'[t].state = IF handled THEN "handled" ELSE "walking"
      /\ walk'[t].at = IF handled THEN n ELSE next[n]
      /\ walk'[t] \in WalkType /\ \A u \in Walker : u # t => walk'[u] = walk[u]
  <2> DEFINE A == IF handled THEN n ELSE next[n]
             S == IF handled THEN "handled" ELSE walk[t].state
             T == Append(tried, n)
  <2>1. /\ T \in Seq(Node) /\ A \in Node \cup {End} /\ S \in {"idle", "walking", "handled"}
        /\ S = IF handled THEN "handled" ELSE "walking"
    BY <1>1 DEF TransTypes
  <2>2. walk' = [walk EXCEPT ![t].tried = T, ![t].state = S, ![t].at = A]  BY <1>1
  <2> HIDE DEF A, S, T
  <2> DEFINE a == [walk[t] EXCEPT !.tried = T]
             b == [a EXCEPT !.state = S]
             c == [b EXCEPT !.at = A]
  <2>3. walk'[t] = c /\ \A u \in Walker : u # t => walk'[u] = walk[u]
    BY <2>2 DEF TransTypes
  <2>4. a \in WalkType /\ a.tried = T /\ a.plan = plan  BY <1>1, <2>1 DEF WalkType
  <2> HIDE DEF a
  <2>5. b \in WalkType /\ b.tried = T /\ b.plan = plan /\ b.state = S
    BY <2>1, <2>4 DEF WalkType
  <2> HIDE DEF b
  <2>6. c \in WalkType /\ c.tried = T /\ c.plan = plan /\ c.state = S /\ c.at = A
    BY <2>1, <2>5 DEF WalkType
  <2> QED  BY <2>1, <2>3, <2>6 DEF A, S, T
<1>3. TransTypes'
  <2>1. walk' \in [Walker -> WalkType]  BY <1>1, <1>2 DEF TransTypes
  <2> QED  BY <1>1, <2>1 DEF TransTypes
<1>4. Linked' /\ OneAdds' /\ \A u \in Walker : Added(u)'  BY <1>1 DEF Linked, OneAdds, Added
<1>5. /\ j <= k /\ k <= Len(order) /\ Len(order) \in Nat
      /\ \A i \in 1 .. k : plan[i] = order[k + 1 - i]
      /\ \A i \in 1 .. j : tried[i] = plan[i]
      /\ n = IF j < k THEN plan[j + 1] ELSE End
  BY <1>1 DEF Follows, TransTypes
<1> HIDE DEF j, k, n, plan, tried
<1>6. j < k /\ n = plan[j + 1]  BY <1>1, <1>5 DEF TransLegal
<1>7. next[n] = IF j + 1 < k THEN plan[j + 2] ELSE End
  <2>1. j + 1 \in 1 .. k /\ k - j \in 1 .. Len(order) /\ k + 1 - (j + 1) = k - j
    BY <1>1, <1>5, <1>6
  <2>2. n = order[k - j]  BY <1>5, <1>6, <2>1
  <2>3. next[n] = IF k - j = 1 THEN End ELSE order[k - j - 1]  BY <2>1, <2>2 DEF Linked
  <2>4. j + 1 < k => plan[j + 2] = order[k - j - 1]
    <3>1. j + 1 < k => j + 2 \in 1 .. k /\ k + 1 - (j + 2) = k - j - 1  BY <1>1
    <3> QED  BY <1>5, <3>1
  <2> QED  BY <1>1, <1>6, <2>3, <2>4
<1>9. Len(walk'[t].tried) = j + 1 /\ \A i \in 1 .. j + 1 : walk'[t].tried[i] = plan[i]
  <2>1. /\ Len(Append(tried, n)) = j + 1 /\ Append(tried, n)[j + 1] = n
        /\ \A i \in 1 .. j : Append(tried, n)[i] = tried[i]
    BY <1>1 DEF j
  <2>2. \A i \in 1 .. j + 1 : i \in 1 .. j \/ i = j + 1  BY <1>1
  <2> QED  BY <1>2, <1>5, <1>6, <2>1, <2>2
<1>8. \A u \in Walker : Follows(u)'
  <2> SUFFICES ASSUME NEW u \in Walker PROVE Follows(u)'  OBVIOUS
  <2>1. CASE u = t
    <3>1. Len(plan) = k /\ order' = order  BY <1>1 DEF k
    <3>2. walk'[t].state = "walking" => walk'[t].at = IF j + 1 < k THEN plan[j + 2] ELSE End
      BY <1>2, <1>7
    <3>3. j + 1 \in Nat /\ j + 1 <= k /\ (j + 1) + 1 = j + 2  BY <1>1, <1>6
    <3>4. /\ walk'[t].plan = plan /\ Len(walk'[t].plan) = k /\ Len(walk'[t].tried) = j + 1
          /\ Len(order') = Len(order)
      BY <1>2, <1>9, <3>1
    <3>5. /\ \A i \in 1 .. k : walk'[t].plan[i] = order'[k + 1 - i]
          /\ \A i \in 1 .. j + 1 : walk'[t].tried[i] = walk'[t].plan[i]
      BY <1>5, <1>9, <3>1, <3>4
    <3> QED  BY <1>5, <2>1, <3>2, <3>3, <3>4, <3>5 DEF Follows
  <2>2. CASE u # t  BY <1>1, <1>2, <2>2 DEF Follows
  <2> QED  BY <2>1, <2>2
<1> QED  BY <1>3, <1>4, <1>8

LEMMA FinishInv ==
    ASSUME TransLegal, TransInv, NEW t \in Walker, W!Finish(t)
    PROVE  TransInv'
<1> USE DEF TransInv
<1>1. walk' = [walk EXCEPT ![t] = W!Idle] /\ UNCHANGED <<head, next, adding, order>>
  BY DEF W!Finish
<1>2. /\ W!Idle \in WalkType /\ W!Idle.tried = <<>> /\ W!Idle.plan = <<>> /\ W!Idle.state = "idle"
  BY DEF W!Idle, WalkType
<1>3. walk'[t] = W!Idle /\ \A u \in Walker : u # t => walk'[u] = walk[u]  BY <1>1 DEF TransTypes
<1>4. TransTypes'  BY <1>1, <1>2 DEF TransTypes
<1>5. Linked' /\ OneAdds' /\ \A u \in Walker : Added(u)'  BY <1>1 DEF Linked, OneAdds, Added
<1>6. \A u \in Walker : Follows(u)'
  <2> SUFFICES ASSUME NEW u \in Walker PROVE Follows(u)'  OBVIOUS
  <2>1. CASE u = t  BY <1>1, <1>2, <1>3, <2>1 DEF Follows, TransTypes
  <2>2. CASE u # t  BY <1>1, <1>3, <2>2 DEF Follows
  <2> QED  BY <2>1, <2>2
<1> QED  BY <1>4, <1>5, <1>6

LEMMA TransStep == TransLegal /\ TransInv /\ [W!Next]_(W!transVars) => TransInv'
<1> SUFFICES ASSUME TransLegal, TransInv, [W!Next]_(W!transVars) PROVE TransInv'  OBVIOUS
<1>1. CASE UNCHANGED W!transVars
  BY <1>1 DEF W!transVars, TransInv, TransTypes, Linked, OneAdds, Added, Follows
<1>2. CASE W!Next
  BY <1>2, AllocateInv, StoreTransInv, BeginTransInv, TryInv, FinishInv DEF W!Next
<1> QED  BY <1>1, <1>2

LEMMA TransAnswer == TransLegal /\ TransInv => W!LastFirst
<1> SUFFICES ASSUME TransLegal, TransInv, NEW t \in Walker
             PROVE  /\ W!IsPrefix(walk[t].tried, walk[t].plan)
                    /\ walk[t].state = "walking" /\ walk[t].at = End => walk[t].tried = walk[t].plan
  BY DEF W!LastFirst
<1> DEFINE tried == walk[t].tried
           plan == walk[t].plan
<1>1. /\ tried \in Seq(Node) /\ plan \in Seq(Node) /\ Len(tried) \in Nat /\ Len(plan) \in Nat
      /\ Len(tried) <= Len(plan) /\ \A i \in 1 .. Len(tried) : tried[i] = plan[i]
      /\ walk[t].state = "walking" =>
            walk[t].at = IF Len(tried) < Len(plan) THEN plan[Len(tried) + 1] ELSE End
  BY DEF TransInv, TransTypes, WalkType, Follows
<1> HIDE DEF tried, plan
<1>2. W!IsPrefix(tried, plan)
  <2>1. /\ SubSeq(tried, 1, Len(tried)) = [i \in 1 .. Len(tried) |-> tried[i]]
        /\ SubSeq(plan, 1, Len(tried)) = [i \in 1 .. Len(tried) |-> plan[i]]
    BY <1>1
  <2> QED  BY <1>1, <2>1 DEF W!IsPrefix
<1>3. walk[t].state = "walking" /\ walk[t].at = End => tried = plan
  <2> SUFFICES ASSUME walk[t].state = "walking", walk[t].at = End PROVE tried = plan  OBVIOUS
  <2>1. Len(tried) = Len(plan)  BY <1>1 DEF TransLegal
  <2> QED  BY <1>1, <2>1, SeqEqual
<1> QED  BY <1>2, <1>3 DEF tried, plan

\* An exception of C++ is offered to the translators that were registered when it was
\* caught, the last registered first, and given up only after all of them, whatever a
\* thread registers meanwhile (error.cpp:203-208, nb_func.cpp:627-646).
THEOREM TranslatorsRight == TransLegal /\ W!Spec => []W!LastFirst
<1> SUFFICES ASSUME TransLegal PROVE W!Spec => []W!LastFirst  OBVIOUS
<1>1. W!Init => TransInv  BY TransInit
<1>2. TransInv /\ [W!Next]_(W!transVars) => TransInv'  BY TransStep
<1>3. TransInv => W!LastFirst  BY TransAnswer
<1> QED  BY <1>1, <1>2, <1>3, PTL DEF W!Spec

-----------------------------------------------------------------------------
(* Overloads.                                                                    *)

AllBodies == {"ok", "next", "throws", "unconvertible"}
ArrivedType == [pc : {"idle", "try", "body", "done", "nomatch", "returned"},
             pos : PosArgs \cup {<<>>}, kw : KwArgs \cup {<<>>}, pass : 0 .. 1, k : Nat,
             result : {"-", "value", "NULL", "NotImplemented"}, error : BOOLEAN, handler : BOOLEAN]
DispTypes ==
    /\ overloads \in Seq([shape : Shape, body : AllBodies]) /\ complexity \in 0 .. 2
    /\ arrived \in ArrivedType /\ inst \in {"none", "raw", "ready", "freed"}

\* The dispatcher suits every overload; constructors are not mixed with other functions.
Own(s) == IF s.star \/ s.kw \/ Y!NArgs(s) > MaxSimple THEN 2 ELSE Y!Num(Y!HasArgs(s))
ChainSound == \A k \in 1 .. Len(overloads) :
    /\ Own(overloads[k].shape) <= complexity
    /\ overloads[k].shape.ctor = overloads[1].shape.ctor
    /\ overloads[k].body \in Y!Bodies(overloads[k].shape)

\* No overload before the current one takes the arguments, in this pass or an earlier one.
Fit(s, pass) == IF pass = 0 THEN Y!Fits(s, arrived.pos, arrived.kw, TRUE)
                            ELSE Y!Fits(s, arrived.pos, arrived.kw, FALSE)
Takes(j, pass) == Fit(overloads[j].shape, pass) /\ overloads[j].body # "next"
Never(pass) == \A j \in 1 .. Len(overloads) : ~Takes(j, pass)
Searched ==
    /\ arrived.k \in 1 .. Len(overloads) /\ arrived.pos \in PosArgs /\ arrived.kw \in KwArgs
    /\ complexity = 0 => arrived.kw = <<>>
    /\ arrived.pass = 0 => Len(overloads) > 1
    /\ arrived.pass = 1 /\ Len(overloads) > 1 => Never(0)
    /\ \A j \in 1 .. Len(overloads) : j < arrived.k => ~Takes(j, arrived.pass)
Fresh == arrived.result = "-" /\ ~arrived.error /\ ~arrived.handler
Target == IF overloads[1].shape.ctor THEN "raw" ELSE "none"
DispSound ==
    /\ arrived.pc \in {"try", "body"} => Searched /\ Fresh /\ inst = Target
    /\ arrived.pc = "body" =>
          /\ Fit(overloads[arrived.k].shape, arrived.pass)
          /\ Y!Temps(Y!Packed(Y!Current) \cup Y!Converted(Y!Current, Len(Y!Current.params))) \subseteq temps
    /\ arrived.pc = "done" =>
          /\ Searched /\ Takes(arrived.k, arrived.pass)
          /\ arrived.result = IF overloads[arrived.k].body = "ok" THEN "value" ELSE "NULL"
          /\ arrived.error = (overloads[arrived.k].body = "throws")
          /\ arrived.handler = (overloads[arrived.k].body = "unconvertible")
          /\ inst = IF overloads[arrived.k].body = "ok" /\ overloads[1].shape.ctor THEN "ready" ELSE Target
    /\ arrived.pc = "nomatch" =>
          /\ Len(overloads) > 0 /\ Y!Chosen(arrived.pos, arrived.kw) = 0
          /\ arrived.handler /\ ~arrived.error /\ inst = Target
    /\ arrived.pc = "returned" => Len(overloads) > 0 /\ Y!OutcomeConsistent
    /\ arrived.pc \in {"idle", "returned"} => temps = {}

DispInv == DispTypes /\ ChainSound /\ DispSound

-----------------------------------------------------------------------------
\* The least and greatest elements that the code computes.
LEMMA MaxOfTwo ==
    ASSUME NEW a \in Nat, NEW b \in Nat
    PROVE  Y!Max({a, b}) = IF a >= b THEN a ELSE b
<1>1. \A x \in {a, b} : (\A y \in {a, b} : x >= y) => x = IF a >= b THEN a ELSE b
  OBVIOUS
<1>2. \E x \in {a, b} : \A y \in {a, b} : x >= y
  <2>1. CASE a >= b  BY <2>1
  <2>2. CASE ~(a >= b)  BY <2>2
  <2> QED  BY <2>1, <2>2
<1> QED  BY <1>1, <1>2 DEF Y!Max

LEMMA MinOf ==
    ASSUME NEW S, S \subseteq Nat, NEW k \in S, \A j \in S : k <= j
    PROVE  Y!Min(S) = k
<1>1. \A x \in S : (\A y \in S : x =< y) => x = k
  <2> SUFFICES ASSUME NEW x \in S, \A y \in S : x =< y PROVE x = k  OBVIOUS
  <2>1. x <= k /\ k <= x /\ x \in Nat /\ k \in Nat  OBVIOUS
  <2> QED  BY <2>1
<1> QED  BY <1>1 DEF Y!Min

\* Whom the rules choose, when no earlier overload takes the arguments.
LEMMA ChosenHere ==
    ASSUME DispTypes, NEW k \in 1 .. Len(overloads), NEW pass \in 0 .. 1, Takes(k, pass),
           \A j \in 1 .. Len(overloads) : j < k => ~Takes(j, pass),
           pass = 0 => Len(overloads) > 1, pass = 1 /\ Len(overloads) > 1 => Never(0)
    PROVE  Y!Chosen(arrived.pos, arrived.kw) = k
<1> DEFINE E == Y!Candidates(TRUE, arrived.pos, arrived.kw)
           L == Y!Candidates(FALSE, arrived.pos, arrived.kw)
<1>1. DOMAIN overloads = 1 .. Len(overloads) /\ Len(overloads) \in Nat  BY DEF DispTypes
<1>2. /\ E = {j \in 1 .. Len(overloads) : Takes(j, 0)} /\ L = {j \in 1 .. Len(overloads) : Takes(j, 1)}
  BY <1>1 DEF Y!Candidates, Takes, Fit
<1> HIDE DEF E, L
<1>3. CASE pass = 0
  <2>1. E \subseteq Nat /\ k \in E /\ \A j \in E : k <= j  BY <1>1, <1>2, <1>3
  <2>2. Y!Min(E) = k /\ E # {}  BY <2>1, MinOf
  <2> QED  BY <1>3, <2>2 DEF Y!Chosen, E, L
<1>4. CASE pass = 1
  <2>1. L \subseteq Nat /\ k \in L /\ \A j \in L : k <= j  BY <1>1, <1>2, <1>4
  <2>2. Y!Min(L) = k /\ L # {}  BY <2>1, MinOf
  <2>3. Len(overloads) > 1 => E = {}  BY <1>2, <1>4 DEF Never
  <2> QED  BY <2>2, <2>3 DEF Y!Chosen, E, L
<1> QED  BY <1>3, <1>4

LEMMA ChosenNone ==
    ASSUME DispTypes, Len(overloads) > 1 => Never(0), Never(1)
    PROVE  Y!Chosen(arrived.pos, arrived.kw) = 0
<1>1. DOMAIN overloads = 1 .. Len(overloads)  BY DEF DispTypes
<1>2. Y!Candidates(FALSE, arrived.pos, arrived.kw) = {j \in 1 .. Len(overloads) : Takes(j, 1)}
  BY <1>1 DEF Y!Candidates, Takes, Fit
<1>3. Y!Candidates(TRUE, arrived.pos, arrived.kw) = {j \in 1 .. Len(overloads) : Takes(j, 0)}
  BY <1>1 DEF Y!Candidates, Takes, Fit
<1>4. /\ Y!Candidates(FALSE, arrived.pos, arrived.kw) = {}
      /\ Len(overloads) > 1 => Y!Candidates(TRUE, arrived.pos, arrived.kw) = {}
  BY <1>2, <1>3 DEF Never
<1> QED  BY <1>4 DEF Y!Chosen

-----------------------------------------------------------------------------
\* Where an argument comes from, by the rules of a call.
From(s, i) ==
    CASE i <= Len(arrived.pos) /\ i <= s.npos ->
            IF s.params[i].name \in DOMAIN arrived.kw THEN "clash" ELSE arrived.pos[i]
      [] ~(i <= Len(arrived.pos) /\ i <= s.npos) /\ s.params[i].name \in DOMAIN arrived.kw ->
            arrived.kw[s.params[i].name]
      [] OTHER -> s.params[i].default
\* What the rules ask of a parameter with these sources.
Offered(src, s, i) == IF src = {} THEN s.params[i].default ELSE (CHOOSE w \in src : TRUE)[2]
Right(v, s, i, strict) ==
    /\ v # "-"
    /\ \/ v = s.params[i].takes \/ (v = "none" /\ s.params[i].none)
       \/ (~strict /\ ~s.copy /\ v = "b")
Suits(s, i, strict) == From(s, i) # "clash" /\ Right(From(s, i), s, i, strict)
Gets(src, s, i, strict) == Y!Cardinality(src) <= 1 /\ Right(Offered(src, s, i), s, i, strict)

LEMMA GetsOne ==
    ASSUME NEW s, NEW i, NEW strict, NEW x, NEW y
    PROVE  Gets({<<x, y>>}, s, i, strict) <=> Right(y, s, i, strict)
<1>1. Cardinality({<<x, y>>}) = 1  BY FS_Singleton
<1>2. Y!Cardinality({<<x, y>>}) <= 1
  <2>1. Y!Cardinality({<<x, y>>}) = 1  BY <1>1 DEF Y!Cardinality, Cardinality
  <2> QED  BY <2>1
<1>3. Offered({<<x, y>>}, s, i) = y
  <2>1. (CHOOSE w \in {<<x, y>>} : TRUE) = <<x, y>>  OBVIOUS
  <2>2. {<<x, y>>} # {}  OBVIOUS
  <2>3. Offered({<<x, y>>}, s, i) = (CHOOSE w \in {<<x, y>>} : TRUE)[2]  BY <2>2, Zenon DEF Offered
  <2>4. Offered({<<x, y>>}, s, i) = <<x, y>>[2]  BY <2>1, <2>3, Zenon
  <2> QED  BY <2>4
<1> QED  BY <1>2, <1>3, Zenon DEF Gets

LEMMA GetsNone ==
    ASSUME NEW s, NEW i, NEW strict
    PROVE  Gets({}, s, i, strict) <=> Right(s.params[i].default, s, i, strict)
<1>1. Y!Cardinality({}) <= 1
  <2>1. Cardinality({}) = 0  BY FS_EmptySet
  <2>2. Y!Cardinality({}) = 0  BY <2>1 DEF Y!Cardinality, Cardinality
  <2> QED  BY <2>2
<1>2. Offered({}, s, i) = s.params[i].default  BY DEF Offered
<1> QED  BY <1>1, <1>2, Zenon DEF Gets

LEMMA GetsTwo ==
    ASSUME NEW s, NEW i, NEW strict, NEW x, NEW y
    PROVE  ~Gets({<<"position", x>>} \cup {<<"name", y>>}, s, i, strict)
<1> DEFINE S == {<<"position", x>>}
           e == <<"name", y>>
<1>1. IsFiniteSet(S) /\ Cardinality(S) = 1  BY FS_Singleton
<1>2. e \notin S  OBVIOUS
<1> HIDE DEF S, e
<1>3. Cardinality(S \cup {e}) = 2  BY <1>1, <1>2, FS_AddElement
<1>4. Y!Cardinality(S \cup {e}) = 2  BY <1>3 DEF Y!Cardinality, Cardinality
<1>5. ~(2 <= 1)  OBVIOUS
<1>6. ~Gets(S \cup {e}, s, i, strict)  BY <1>4, <1>5 DEF Gets
<1> QED  BY <1>6 DEF S, e

\* Shapes and calls are as Legal says.
Arity(s) == Len(s.params)
Given == Len(arrived.pos)

LEMMA LegalShape ==
    ASSUME Y!Legal, NEW s \in Shape
    PROVE  /\ s.params \in Seq(Y!Param) /\ DOMAIN s.params = 1 .. Arity(s)
           /\ Arity(s) \in Nat /\ s.npos \in Nat /\ s.npos <= Arity(s)
           /\ s.star \in BOOLEAN /\ s.kw \in BOOLEAN /\ s.ctor \in BOOLEAN
           /\ s.copy \in BOOLEAN /\ s.op \in BOOLEAN /\ ~(s.ctor /\ s.op)
           /\ \A i \in 1 .. Arity(s) :
                 /\ s.params[i].name \in {"-", "x", "y"} /\ s.params[i].takes \in {"a", "b"}
                 /\ s.params[i].default \in {"-", "a", "b"} /\ s.params[i].none \in BOOLEAN
                 /\ i > s.npos \/ s.params[i].default # "-" => Y!HasArgs(s)
<1>1. Y!WellFormed(s)  BY DEF Y!Legal
<1>2. s \in Y!Shapes /\ s.npos <= Arity(s) /\ ~(s.ctor /\ s.op)
      /\ \A i \in DOMAIN s.params : i > s.npos \/ s.params[i].default # "-" => Y!HasArgs(s)
  BY <1>1 DEF Y!WellFormed, Arity
<1>3. /\ s.params \in Seq(Y!Param) /\ s.npos \in Nat
      /\ s.star \in BOOLEAN /\ s.kw \in BOOLEAN /\ s.ctor \in BOOLEAN
      /\ s.copy \in BOOLEAN /\ s.op \in BOOLEAN
  BY <1>2 DEF Y!Shapes
<1>4. DOMAIN s.params = 1 .. Arity(s) /\ Arity(s) \in Nat  BY <1>3, LenProperties DEF Arity
<1>5. \A i \in 1 .. Arity(s) : s.params[i] \in Y!Param  BY <1>3, ElementOfSeq DEF Arity
<1>6. \A i \in 1 .. Arity(s) :
        /\ s.params[i].name \in {"-", "x", "y"} /\ s.params[i].takes \in {"a", "b"}
        /\ s.params[i].default \in {"-", "a", "b"} /\ s.params[i].none \in BOOLEAN
  BY <1>5 DEF Y!Param
<1> QED  BY <1>2, <1>3, <1>4, <1>6

LEMMA LegalCall ==
    ASSUME Y!Legal, arrived.pos \in PosArgs, arrived.kw \in KwArgs
    PROVE  /\ DOMAIN arrived.pos = 1 .. Given /\ Given \in Nat
           /\ \A i \in 1 .. Given : arrived.pos[i] \in {"a", "b", "none"}
           /\ "-" \notin DOMAIN arrived.kw
           /\ \A n \in DOMAIN arrived.kw : arrived.kw[n] \in {"a", "b", "none"}
           /\ arrived.kw = [n \in DOMAIN arrived.kw |-> arrived.kw[n]]
<1> DEFINE p == arrived.pos
           kw == arrived.kw
<1>1. p \in Seq(Y!Kinds) /\ "-" \notin DOMAIN kw /\ \A n \in DOMAIN kw : kw[n] \in Y!Kinds
  BY DEF Y!Legal
<1>2. kw = [n \in DOMAIN kw |-> kw[n]]  BY DEF Y!Legal
<1> HIDE DEF p, kw
<1>3. DOMAIN p = 1 .. Len(p) /\ Len(p) \in Nat  BY <1>1, LenProperties
<1>4. \A i \in 1 .. Len(p) : p[i] \in Y!Kinds  BY <1>1, ElementOfSeq
<1> QED  BY <1>1, <1>2, <1>3, <1>4 DEF Y!Kinds, Given, p, kw

\* A number between one and the arity.
LEMMA Index ==
    ASSUME Y!Legal, NEW s \in Shape, NEW i \in 1 .. Arity(s)
    PROVE  i \in Nat /\ i >= 1 /\ i <= Arity(s)
<1>1. Arity(s) \in Nat  BY LegalShape
<1> QED  BY <1>1

LEMMA Suitable ==
    ASSUME Y!Legal, NEW s \in Shape, NEW strict \in BOOLEAN,
           arrived.pos \in PosArgs, arrived.kw \in KwArgs
    PROVE  Y!Fits(s, arrived.pos, arrived.kw, strict) <=>
             /\ s.star \/ Given <= s.npos
             /\ s.kw \/ \A n \in DOMAIN arrived.kw : \E i \in 1 .. Arity(s) : s.params[i].name = n
             /\ \A i \in 1 .. Arity(s) : Suits(s, i, strict)
<1> DEFINE p == arrived.pos
           kw == arrived.kw
<1>1. ASSUME NEW i \in 1 .. Arity(s)
      PROVE  Suits(s, i, strict) <=> Gets(Y!Sources(s, p, kw, i), s, i, strict)
  <2> DEFINE name == s.params[i].name
             P == i <= Given /\ i <= s.npos
             N == name \in DOMAIN kw
             S == Y!Sources(s, p, kw, i)
  <2>1. /\ (i <= Given => p[i] \in {"a", "b", "none"})
        /\ (N => kw[name] \in {"a", "b", "none"})
        /\ s.params[i].default \in {"-", "a", "b"}
    <3>1. s.params[i].default \in {"-", "a", "b"}  BY LegalShape
    <3>2. Given \in Nat /\ \A j \in 1 .. Given : p[j] \in {"a", "b", "none"}  BY LegalCall
    <3>3. \A n \in DOMAIN kw : kw[n] \in {"a", "b", "none"}  BY LegalCall
    <3>4. i \in Nat /\ i >= 1  BY Index
    <3>5. i <= Given => i \in 1 .. Given  BY <3>2, <3>4
    <3> HIDE DEF p, kw, name
    <3> QED  BY <3>1, <3>2, <3>3, <3>5
  <2>2. CASE P /\ N
    <3>1. S = {<<"position", p[i]>>} \cup {<<"name", kw[name]>>}  BY <2>2 DEF Y!Sources, Given
    <3>2. From(s, i) = "clash"  BY <2>2 DEF From, Given
    <3>3. ~Gets(S, s, i, strict)
      <4>1. \A x, y : ~Gets({<<"position", x>>} \cup {<<"name", y>>}, s, i, strict)  BY GetsTwo
      <4> QED  BY <3>1, <4>1, Zenon
    <3> QED  BY <3>2, <3>3 DEF Suits
  <2>3. CASE P /\ ~N
    <3>1. S = {<<"position", p[i]>>}  BY <2>3 DEF Y!Sources, Given
    <3>2. From(s, i) = p[i] /\ p[i] \in {"a", "b", "none"}  BY <2>1, <2>3 DEF From, Given
    <3>3. Gets(S, s, i, strict) <=> Right(p[i], s, i, strict)  BY <3>1, GetsOne
    <3>4. From(s, i) # "clash"  BY <3>2
    <3> HIDE DEF p, kw
    <3> QED  BY <3>2, <3>3, <3>4, Zenon DEF Suits
  <2>4. CASE ~P /\ N
    <3>1. S = {<<"name", kw[name]>>}  BY <2>4 DEF Y!Sources, Given
    <3>2. From(s, i) = kw[name] /\ kw[name] \in {"a", "b", "none"}  BY <2>1, <2>4 DEF From, Given
    <3>3. Gets(S, s, i, strict) <=> Right(kw[name], s, i, strict)  BY <3>1, GetsOne
    <3>4. From(s, i) # "clash"  BY <3>2
    <3> HIDE DEF p, kw
    <3> QED  BY <3>2, <3>3, <3>4, Zenon DEF Suits
  <2>5. CASE ~P /\ ~N
    <3>1. S = {}  BY <2>5 DEF Y!Sources, Given
    <3>2. From(s, i) = s.params[i].default  BY <2>5 DEF From, Given
    <3>3. Gets(S, s, i, strict) <=> Right(s.params[i].default, s, i, strict)  BY <3>1, GetsNone
    <3>4. From(s, i) # "clash"  BY <2>1, <3>2
    <3> QED  BY <3>2, <3>3, <3>4, Zenon DEF Suits
  <2> QED  BY <2>2, <2>3, <2>4, <2>5
<1>2. DOMAIN s.params = 1 .. Arity(s)  BY LegalShape
<1>3. Len(p) = Given  BY DEF Given
<1> HIDE DEF p, kw
<1>4. Y!Fits(s, p, kw, strict) <=>
        /\ s.star \/ Given <= s.npos
        /\ s.kw \/ \A n \in DOMAIN kw : \E i \in 1 .. Arity(s) : s.params[i].name = n
        /\ \A i \in 1 .. Arity(s) : Gets(Y!Sources(s, p, kw, i), s, i, strict)
  BY <1>2, <1>3, Zenon DEF Y!Fits, Gets, Offered, Right
<1> QED  BY <1>1, <1>4 DEF p, kw

\* What a chain knows about its overloads.
LEMMA Known ==
    ASSUME Y!Legal, DispTypes, ChainSound, NEW k \in 1 .. Len(overloads)
    PROVE  /\ overloads[k].shape \in Shape
           /\ complexity < 2 => ~overloads[k].shape.star /\ ~overloads[k].shape.kw
           /\ complexity = 0 => ~Y!HasArgs(overloads[k].shape)
<1> DEFINE s == overloads[k].shape
<1>1. s \in Shape
  <2>1. overloads[k] \in [shape : Shape, body : AllBodies]  BY ElementOfSeq DEF DispTypes
  <2> QED  BY <2>1
<1>2. Own(s) <= complexity /\ complexity \in 0 .. 2  BY DEF ChainSound, DispTypes
<1>3. s.star \in BOOLEAN /\ s.kw \in BOOLEAN  BY <1>1, LegalShape
<1> HIDE DEF s
<1>4. complexity < 2 => ~s.star /\ ~s.kw  BY <1>2, <1>3 DEF Own
<1>5. complexity = 0 => ~Y!HasArgs(s)  BY <1>2, <1>3 DEF Own, Y!Num
<1> QED  BY <1>1, <1>4, <1>5 DEF s

LEMMA NoArgs ==
    ASSUME Y!Legal, NEW s \in Shape, ~Y!HasArgs(s)
    PROVE  /\ s.npos = Arity(s)
           /\ \A i \in 1 .. Arity(s) :
                 s.params[i].name = "-" /\ s.params[i].default = "-" /\ ~s.params[i].none
<1>1. /\ DOMAIN s.params = 1 .. Arity(s) /\ Arity(s) \in Nat
      /\ s.npos \in Nat /\ s.npos <= Arity(s)
  BY LegalShape
<1>2. \A i \in 1 .. Arity(s) : ~(i > s.npos) /\ s.params[i].default = "-"  BY LegalShape
<1>3. \A i \in 1 .. Arity(s) : s.params[i].name = "-" /\ ~s.params[i].none
  BY <1>1 DEF Y!HasArgs
<1>4. s.npos = Arity(s)
  <2>1. CASE Arity(s) = 0  BY <1>1, <2>1
  <2>2. CASE Arity(s) > 0
    <3>1. Arity(s) \in 1 .. Arity(s)  BY <1>1, <2>2
    <3>2. ~(Arity(s) > s.npos)  BY <1>2, <3>1
    <3> QED  BY <1>1, <3>2
  <2> QED  BY <1>1, <2>1, <2>2
<1> QED  BY <1>2, <1>3, <1>4

\* An overload that takes the arguments has places for them.
LEMMA CountNeeded ==
    ASSUME Y!Legal, DispTypes, ChainSound, Searched, NEW pass \in 0 .. 1,
           Fit(overloads[arrived.k].shape, pass)
    PROVE  Y!CountFits(overloads[arrived.k].shape)
<1> DEFINE s == overloads[arrived.k].shape
           L == Arity(s)
           has == Y!HasArgs(s)
<1>1. /\ s \in Shape /\ (complexity < 2 => ~s.star /\ ~s.kw)
      /\ (complexity = 0 => ~has)
  BY Known DEF Searched
<1>2. /\ Given \in Nat /\ L \in Nat /\ s.npos \in Nat /\ s.npos <= L
      /\ "-" \notin DOMAIN arrived.kw
  BY <1>1, LegalShape, LegalCall DEF Searched
<1>3. (s.star \/ Given <= s.npos) /\ \A i \in 1 .. L : From(s, i) # "-"
  <2> SUFFICES ASSUME NEW strict \in BOOLEAN, Y!Fits(s, arrived.pos, arrived.kw, strict)
               PROVE  (s.star \/ Given <= s.npos) /\ \A i \in 1 .. L : From(s, i) # "-"
    BY DEF Fit
  <2>1. (s.star \/ Given <= s.npos) /\ \A i \in 1 .. L : Suits(s, i, strict)
    BY <1>1, Suitable DEF Searched
  <2> HIDE DEF s, L
  <2> QED  BY <2>1 DEF Suits, Right
<1>4. ~has => s.npos = L /\ \A i \in 1 .. L : s.params[i].name = "-" /\ s.params[i].default = "-"
  BY <1>1, NoArgs
<1> HIDE DEF L, has, s
<1>5. ~has => Given >= L
  <2> SUFFICES ASSUME ~has, ~(Given >= L) PROVE FALSE  OBVIOUS
  <2>1. L \in 1 .. L /\ ~(L <= Given)  BY <1>2
  <2>2. s.params[L].name = "-" /\ s.params[L].default = "-"  BY <1>4, <2>1
  <2>3. From(s, L) = "-"  BY <1>2, <2>1, <2>2 DEF From, Given
  <2> QED  BY <1>3, <2>1, <2>3
<1>6. CASE complexity = 0
  <2>1. Given = L
    <3>1. ~has /\ s.npos = L /\ ~s.star  BY <1>1, <1>4, <1>6
    <3>2. Given >= L /\ Given <= s.npos  BY <1>3, <1>5, <3>1
    <3> QED  BY <1>2, <3>1, <3>2
  <2>2. Y!Simple /\ ~Y!Positional  BY <1>6 DEF Y!Simple, Y!Positional
  <2>3. Len(arrived.pos) = Len(s.params)  BY <2>1 DEF L, Given, Arity
  <2> QED  BY <2>2, <2>3, Zenon DEF Y!CountFits, s
<1>7. CASE complexity = 1 /\ arrived.kw = <<>>
  <2>1. Given <= s.npos /\ (Given >= L \/ has)  BY <1>1, <1>3, <1>5, <1>7
  <2>2. ~Y!Simple /\ Y!Positional  BY <1>7 DEF Y!Simple, Y!Positional
  <2> QED  BY <2>1, <2>2, Zenon DEF Y!CountFits, L, Given, Arity, has, s
<1>8. CASE complexity # 0 /\ ~(complexity = 1 /\ arrived.kw = <<>>)
  <2>1. (Given <= s.npos \/ s.star) /\ (Given >= s.npos \/ has)
    <3>1. Given <= s.npos \/ s.star  BY <1>3
    <3>2. ~has => Given >= s.npos  BY <1>2, <1>4, <1>5
    <3> QED  BY <3>1, <3>2
  <2>2. ~Y!Simple /\ ~Y!Positional  BY <1>8 DEF Y!Simple, Y!Positional
  <2> QED  BY <2>1, <2>2, Zenon DEF Y!CountFits, L, Given, Arity, has, s
<1> QED  BY <1>6, <1>7, <1>8

\* If there are places enough, what a dispatcher collects is what the rules give.
LEMMA CollectedRight ==
    ASSUME Y!Legal, DispTypes, ChainSound, Searched, Y!CountFits(overloads[arrived.k].shape),
           NEW i \in 1 .. Arity(overloads[arrived.k].shape)
    PROVE  Y!Collected(overloads[arrived.k].shape, i) = From(overloads[arrived.k].shape, i)
<1> DEFINE s == overloads[arrived.k].shape
           name == s.params[i].name
<1>1. /\ s \in Shape /\ (complexity = 0 => ~Y!HasArgs(s)) /\ complexity \in 0 .. 2
  BY Known DEF Searched, DispTypes
<1>2. Given \in Nat /\ s.npos \in Nat /\ "-" \notin DOMAIN arrived.kw
  BY <1>1, LegalShape, LegalCall DEF Searched
<1>3. i \in Nat /\ i <= Arity(s)  BY <1>1, Index
<1>4. Y!Named(s, i) <=> name \in DOMAIN arrived.kw  BY <1>2 DEF Y!Named
<1>5. CASE complexity = 0
  <2>1. Y!Simple /\ ~Y!Positional  BY <1>5 DEF Y!Simple, Y!Positional
  <2>2. Given = Arity(s)  BY <2>1, Zenon DEF Y!CountFits, Given, Arity
  <2>3. s.npos = Arity(s) /\ name = "-"  BY <1>1, <1>5, NoArgs
  <2>4. Y!Collected(s, i) = arrived.pos[i]  BY <2>1, Zenon DEF Y!Collected
  <2>5. i <= Given /\ i <= s.npos /\ name \notin DOMAIN arrived.kw  BY <1>2, <1>3, <2>2, <2>3
  <2>6. From(s, i) = arrived.pos[i]  BY <2>5 DEF From, Given
  <2> QED  BY <2>4, <2>6
<1>6. CASE complexity = 1 /\ arrived.kw = <<>>
  <2>1. ~Y!Simple /\ Y!Positional  BY <1>6 DEF Y!Simple, Y!Positional
  <2>2. Given <= s.npos
    <3>1. Len(arrived.pos) <= s.npos  BY <2>1, Zenon DEF Y!CountFits
    <3> QED  BY <3>1 DEF Given
  <2>3. Y!Collected(s, i) = Y!FromMedium(s, i)  BY <2>1, Zenon DEF Y!Collected
  <2>4. name \notin DOMAIN arrived.kw
    <3>1. DOMAIN arrived.kw = {}  BY <1>6
    <3> QED  BY <3>1
  <2>5. i <= Given => i <= s.npos  BY <1>2, <1>3, <2>2
  <2>6. Y!FromMedium(s, i) = From(s, i)  BY <2>4, <2>5 DEF Y!FromMedium, From, Given
  <2> QED  BY <2>3, <2>6
<1>7. CASE complexity # 0 /\ ~(complexity = 1 /\ arrived.kw = <<>>)
  <2>1. ~Y!Simple /\ ~Y!Positional  BY <1>7 DEF Y!Simple, Y!Positional
  <2>2. Y!Collected(s, i) = Y!FromComplex(s, i)  BY <2>1, Zenon DEF Y!Collected
  <2>3. Y!FromComplex(s, i) = From(s, i)
    <3> DEFINE P == i <= Given /\ i <= s.npos
    <3>1. CASE P /\ Y!Named(s, i)
      <4>1. Y!FromComplex(s, i) = "clash"  BY <3>1 DEF Y!FromComplex, Given
      <4>2. From(s, i) = "clash"  BY <1>4, <3>1 DEF From, Given
      <4> QED  BY <4>1, <4>2
    <3>2. CASE P /\ ~Y!Named(s, i)
      <4>1. Y!FromComplex(s, i) = arrived.pos[i]  BY <3>2 DEF Y!FromComplex, Given
      <4>2. From(s, i) = arrived.pos[i]  BY <1>4, <3>2 DEF From, Given
      <4> QED  BY <4>1, <4>2
    <3>3. CASE ~P /\ Y!Named(s, i)
      <4>1. Y!FromComplex(s, i) = arrived.kw[name]  BY <3>3 DEF Y!FromComplex, Given
      <4>2. From(s, i) = arrived.kw[name]  BY <1>4, <3>3 DEF From, Given
      <4> QED  BY <4>1, <4>2
    <3>4. CASE ~P /\ ~Y!Named(s, i)
      <4>1. Y!FromComplex(s, i) = s.params[i].default  BY <3>4 DEF Y!FromComplex, Given
      <4>2. From(s, i) = s.params[i].default  BY <1>4, <3>4 DEF From, Given
      <4> QED  BY <4>1, <4>2
    <3> QED  BY <3>1, <3>2, <3>3, <3>4
  <2> QED  BY <2>2, <2>3
<1> QED  BY <1>5, <1>6, <1>7

\* The arguments of an overload are available and castable exactly if they suit it.
LEMMA SuitsHere ==
    ASSUME Y!Legal, DispTypes, ChainSound, Searched, Y!CountFits(overloads[arrived.k].shape),
           NEW i \in 1 .. Arity(overloads[arrived.k].shape)
    PROVE  Suits(overloads[arrived.k].shape, i, arrived.pass = 0) <=>
             Y!Available(overloads[arrived.k].shape, i) /\ Y!Castable(overloads[arrived.k].shape, i)
<1> DEFINE s == overloads[arrived.k].shape
           v == From(s, i)
<1>1. s \in Shape  BY Known DEF Searched
<1>2. /\ s.params[i].takes \in {"a", "b"} /\ s.params[i].none \in BOOLEAN
      /\ s.params[i].default \in {"-", "a", "b"} /\ s.copy \in BOOLEAN
  BY <1>1, LegalShape
<1>3. arrived.pass \in 0 .. 1  BY DEF DispTypes, ArrivedType
<1>4. Y!Collected(s, i) = v  BY CollectedRight
<1>5. v \in {"-", "clash", "a", "b", "none"}
  <2>1. /\ Given \in Nat /\ \A j \in 1 .. Given : arrived.pos[j] \in {"a", "b", "none"}
        /\ \A n \in DOMAIN arrived.kw : arrived.kw[n] \in {"a", "b", "none"}
    BY LegalCall DEF Searched
  <2>2. i \in Nat /\ i >= 1  BY <1>1, Index
  <2>3. i <= Given => arrived.pos[i] \in {"a", "b", "none"}  BY <2>1, <2>2
  <2> HIDE DEF s
  <2> QED  BY <1>2, <2>1, <2>3 DEF From, Given
<1> HIDE DEF s, v
<1>6. Y!Converts(s, i) <=>
        v = "b" /\ s.params[i].takes = "a" /\ arrived.pass = 1 /\ ~s.copy
  BY <1>4 DEF Y!Converts
<1>7. Y!Available(s, i) <=> v \notin {"-", "clash"} /\ (v = "none" => s.params[i].none)
  BY <1>4 DEF Y!Available
<1>8. Y!Castable(s, i) <=> v \in {s.params[i].takes, "none"} \/ Y!Converts(s, i)
  BY <1>4 DEF Y!Castable
<1>9. Suits(s, i, arrived.pass = 0) <=>
        /\ v \notin {"-", "clash"}
        /\ \/ v = s.params[i].takes \/ (v = "none" /\ s.params[i].none)
           \/ (arrived.pass # 0 /\ ~s.copy /\ v = "b")
  BY Zenon DEF Suits, Right, v
<1>10. (arrived.pass # 0) <=> (arrived.pass = 1)  BY <1>3
<1> QED  BY <1>2, <1>5, <1>6, <1>7, <1>8, <1>9, <1>10 DEF s

\* What the dispatchers check of an overload is that it takes the arguments.
Keywords(s) == s.kw \/ DOMAIN arrived.kw \subseteq Y!Used(s)
Passes(s) ==
    /\ Y!CountFits(s) /\ Keywords(s)
    /\ \A i \in 1 .. Arity(s) : Y!Available(s, i) /\ Y!Castable(s, i)

LEMMA TryFits ==
    ASSUME Y!Legal, DispTypes, ChainSound, Searched
    PROVE  Fit(overloads[arrived.k].shape, arrived.pass) <=> Passes(overloads[arrived.k].shape)
<1> DEFINE s == overloads[arrived.k].shape
           strict == arrived.pass = 0
           Ks == s.kw \/ \A n \in DOMAIN arrived.kw : \E i \in 1 .. Arity(s) : s.params[i].name = n
<1>1. s \in Shape /\ complexity \in 0 .. 2 /\ arrived.pass \in 0 .. 1
  BY Known DEF Searched, DispTypes, ArrivedType
<1>2. Fit(s, arrived.pass) <=>
        (s.star \/ Given <= s.npos) /\ Ks /\ \A i \in 1 .. Arity(s) : Suits(s, i, strict)
  <2>1. CASE arrived.pass = 0
    <3>1. Y!Fits(s, arrived.pos, arrived.kw, TRUE) <=>
            (s.star \/ Given <= s.npos) /\ Ks /\ \A i \in 1 .. Arity(s) : Suits(s, i, TRUE)
      BY <1>1, Suitable DEF Searched
    <3>2. strict = TRUE  BY <2>1
    <3> HIDE DEF s, strict, Ks
    <3> QED  BY <2>1, <3>1, <3>2 DEF Fit
  <2>2. CASE arrived.pass # 0
    <3>1. Y!Fits(s, arrived.pos, arrived.kw, FALSE) <=>
            (s.star \/ Given <= s.npos) /\ Ks /\ \A i \in 1 .. Arity(s) : Suits(s, i, FALSE)
      BY <1>1, Suitable DEF Searched
    <3>2. strict = FALSE  BY <2>2
    <3> HIDE DEF s, strict, Ks
    <3> QED  BY <2>2, <3>1, <3>2 DEF Fit
  <2> QED  BY <2>1, <2>2
<1>3. Keywords(s) <=> Ks
  <2>1. "-" \notin DOMAIN arrived.kw /\ DOMAIN s.params = 1 .. Arity(s)
    BY <1>1, LegalCall, LegalShape DEF Searched
  <2>2. \A i \in 1 .. Arity(s) : Y!Named(s, i) <=> s.params[i].name \in DOMAIN arrived.kw
    BY <2>1 DEF Y!Named
  <2> HIDE DEF s
  <2>3. Y!Used(s) = {s.params[i].name : i \in {j \in 1 .. Arity(s) : Y!Named(s, j)}}
    BY <2>1 DEF Y!Used
  <2>4. \A n \in DOMAIN arrived.kw :
          n \in Y!Used(s) <=> \E i \in 1 .. Arity(s) : s.params[i].name = n
    BY <2>2, <2>3
  <2> QED  BY <2>4 DEF Keywords
<1>4. Y!CountFits(s) => s.star \/ Given <= s.npos
  <2> SUFFICES ASSUME Y!CountFits(s) PROVE s.star \/ Given <= s.npos  OBVIOUS
  <2>1. (complexity = 0 => ~Y!HasArgs(s)) /\ s.npos \in Nat /\ Given \in Nat
    BY <1>1, Known, LegalShape, LegalCall DEF Searched
  <2>2. CASE complexity = 0
    <3>1. Y!Simple /\ ~Y!Positional  BY <2>2 DEF Y!Simple, Y!Positional
    <3>2. Given = Arity(s)  BY <3>1, Zenon DEF Y!CountFits, Given, Arity
    <3>3. s.npos = Arity(s)  BY <1>1, <2>1, <2>2, NoArgs
    <3> QED  BY <2>1, <3>2, <3>3
  <2>3. CASE complexity = 1 /\ arrived.kw = <<>>
    <3>1. ~Y!Simple /\ Y!Positional  BY <2>3 DEF Y!Simple, Y!Positional
    <3> QED  BY <3>1, Zenon DEF Y!CountFits, Given
  <2>4. CASE complexity # 0 /\ ~(complexity = 1 /\ arrived.kw = <<>>)
    <3>1. ~Y!Simple /\ ~Y!Positional  BY <2>4 DEF Y!Simple, Y!Positional
    <3> QED  BY <3>1, Zenon DEF Y!CountFits, Given
  <2> QED  BY <2>2, <2>3, <2>4
<1>5. CASE Y!CountFits(s)
  <2>1. \A i \in 1 .. Arity(s) : Suits(s, i, strict) <=> Y!Available(s, i) /\ Y!Castable(s, i)
    BY <1>5, SuitsHere
  <2> HIDE DEF s, strict, Ks
  <2> QED  BY <1>2, <1>3, <1>4, <1>5, <2>1 DEF Passes, s
<1>6. CASE ~Y!CountFits(s)
  <2>1. ~Fit(s, arrived.pass)  BY <1>1, <1>6, CountNeeded
  <2> QED  BY <1>6, <2>1 DEF Passes
<1> QED  BY <1>5, <1>6

-----------------------------------------------------------------------------
\* Steps of a call.
LEMMA SameTakes ==
    ASSUME arrived'.pos = arrived.pos, arrived'.kw = arrived.kw, overloads' = overloads
    PROVE  /\ \A s, pass : Fit(s, pass)' = Fit(s, pass)
           /\ \A j, pass : Takes(j, pass)' = Takes(j, pass)
           /\ \A pass : Never(pass)' = Never(pass)
           /\ Y!Chosen(arrived.pos, arrived.kw)' = Y!Chosen(arrived.pos, arrived.kw)
<1>1. \A s, pass : Fit(s, pass)' = Fit(s, pass)  BY DEF Fit
<1>2. \A j, pass : Takes(j, pass)' = Takes(j, pass)  BY <1>1 DEF Takes
<1>3. \A pass : Never(pass)' = Never(pass)  BY <1>2 DEF Never
<1>4. \A strict, p, kw : Y!Candidates(strict, p, kw)' = Y!Candidates(strict, p, kw)
  BY DEF Y!Candidates
<1>5. Y!Chosen(arrived.pos, arrived.kw)' = Y!Chosen(arrived.pos, arrived.kw)
  BY <1>4 DEF Y!Chosen
<1> QED  BY <1>1, <1>2, <1>3, <1>5

\* What the next overload changes.
LEMMA NextFields ==
    ASSUME arrived \in ArrivedType, arrived' = Y!NextOverload
    PROVE  LET last == arrived.k = Len(overloads)
               out == last /\ arrived.pass = 1
           IN  /\ arrived' \in ArrivedType
               /\ arrived'.pos = arrived.pos /\ arrived'.kw = arrived.kw
               /\ arrived'.result = arrived.result /\ arrived'.error = arrived.error
               /\ arrived'.k = (IF last THEN 1 ELSE arrived.k + 1)
               /\ arrived'.pass = (IF last THEN 1 ELSE arrived.pass)
               /\ arrived'.pc = (IF out THEN "nomatch" ELSE "try")
               /\ arrived'.handler = out
<1> DEFINE last == arrived.k = Len(overloads)
           out == last /\ arrived.pass = 1
       Ks == IF last THEN 1 ELSE arrived.k + 1
       P == IF last THEN 1 ELSE arrived.pass
       S == IF out THEN "nomatch" ELSE "try"
<1>1. arrived' = [arrived EXCEPT !.k = Ks, !.pass = P, !.pc = S, !.handler = out]
  BY DEF Y!NextOverload
<1>2. Ks \in Nat /\ P \in 0 .. 1 /\ S \in {"try", "nomatch"} /\ out \in BOOLEAN
  BY DEF ArrivedType
<1> HIDE DEF last, out, Ks, P, S
<1>3. arrived' = [pc |-> S, pos |-> arrived.pos, kw |-> arrived.kw, pass |-> P, k |-> Ks,
                  result |-> arrived.result, error |-> arrived.error, handler |-> out]
  BY <1>1 DEF ArrivedType
<1>4. arrived' \in ArrivedType  BY <1>2, <1>3 DEF ArrivedType
<1>5. /\ arrived'.pos = arrived.pos /\ arrived'.kw = arrived.kw
      /\ arrived'.result = arrived.result /\ arrived'.error = arrived.error
      /\ arrived'.k = Ks /\ arrived'.pass = P /\ arrived'.pc = S /\ arrived'.handler = out
  BY <1>3
<1> QED  BY <1>4, <1>5, Zenon DEF Ks, P, S, out, last

\* A call that gives up an overload goes on to the next one, or fails.
LEMMA Skips ==
    ASSUME DispTypes, DispSound, arrived.pc \in {"try", "body"},
           ~Takes(arrived.k, arrived.pass), arrived' = Y!NextOverload,
           overloads' = overloads, complexity' = complexity, inst' = inst
    PROVE  DispTypes' /\ DispSound'
<1> DEFINE n == Len(overloads)
<1>1. /\ arrived \in ArrivedType /\ n \in Nat /\ Searched /\ Fresh /\ inst = Target
      /\ arrived.k \in 1 .. n /\ arrived.pass \in 0 .. 1
  BY DEF DispTypes, DispSound, Searched, ArrivedType
<1>2. /\ arrived' \in ArrivedType
      /\ arrived'.pos = arrived.pos /\ arrived'.kw = arrived.kw
      /\ arrived'.result = arrived.result /\ arrived'.error = arrived.error
      /\ arrived'.k = (IF arrived.k = n THEN 1 ELSE arrived.k + 1)
      /\ arrived'.pass = (IF arrived.k = n THEN 1 ELSE arrived.pass)
      /\ arrived'.pc = (IF arrived.k = n /\ arrived.pass = 1 THEN "nomatch" ELSE "try")
      /\ arrived'.handler = (arrived.k = n /\ arrived.pass = 1)
  BY <1>1, NextFields
<1>3. DispTypes'  BY <1>2 DEF DispTypes
<1>4. Target' = Target  BY DEF Target
<1>5. /\ \A j, pass : Takes(j, pass)' = Takes(j, pass)
      /\ \A pass : Never(pass)' = Never(pass)
      /\ Y!Chosen(arrived.pos, arrived.kw)' = Y!Chosen(arrived.pos, arrived.kw)
  BY <1>2, SameTakes
<1>6. \A j \in 1 .. n : j <= arrived.k => ~Takes(j, arrived.pass)
  <2>1. \A j \in 1 .. n : j < arrived.k => ~Takes(j, arrived.pass)  BY <1>1 DEF Searched
  <2>2. \A j \in 1 .. n : j <= arrived.k => j < arrived.k \/ j = arrived.k  BY <1>1
  <2> QED  BY <2>1, <2>2
<1>7. arrived.k = n => Never(arrived.pass)
  <2>1. \A j \in 1 .. n : j <= n  BY <1>1
  <2> QED  BY <1>6, <2>1 DEF Never
<1>8. CASE arrived.k = n /\ arrived.pass = 1
  <2>1. Y!Chosen(arrived.pos, arrived.kw) = 0
    <3>1. Never(1) /\ (n > 1 => Never(0))  BY <1>1, <1>7, <1>8 DEF Searched
    <3> QED  BY <3>1, ChosenNone
  <2>2. Y!Chosen(arrived.pos, arrived.kw)' = 0  BY <1>5, <2>1
  <2>3. n > 0  BY <1>1
  <2> HIDE DEF n
  <2> QED  BY <1>1, <1>2, <1>3, <1>4, <1>8, <2>2, <2>3 DEF DispSound, Fresh, n
<1>9. CASE ~(arrived.k = n /\ arrived.pass = 1)
  <2>1. arrived'.pc = "try" /\ ~arrived'.handler  BY <1>2, <1>9
  <2>2. Searched'
    <3>1. arrived'.k \in 1 .. n  BY <1>1, <1>2
    <3>2. /\ arrived'.pos \in PosArgs /\ arrived'.kw \in KwArgs
          /\ complexity = 0 => arrived'.kw = <<>>
      BY <1>1, <1>2 DEF Searched
    <3>3. arrived'.pass = 0 => n > 1  BY <1>1, <1>2 DEF Searched
    <3>4. arrived'.pass = 1 /\ n > 1 => Never(0)
      <4>1. CASE arrived.k = n
        <5>1. arrived.pass = 0  BY <1>1, <1>9, <4>1
        <5> QED  BY <1>7, <4>1, <5>1
      <4>2. CASE arrived.k # n  BY <1>1, <1>2, <4>2 DEF Searched
      <4> QED  BY <4>1, <4>2
    <3>5. \A j \in 1 .. n : j < arrived'.k => ~Takes(j, arrived'.pass)
      <4>1. CASE arrived.k = n  BY <1>2, <4>1
      <4>2. CASE arrived.k # n
        <5>1. arrived'.k = arrived.k + 1 /\ arrived'.pass = arrived.pass  BY <1>2, <4>2
        <5>2. \A j \in 1 .. n : j < arrived.k + 1 => j <= arrived.k  BY <1>1
        <5> QED  BY <1>6, <5>1, <5>2
      <4> QED  BY <4>1, <4>2
    <3> QED  BY <1>5, <3>1, <3>2, <3>3, <3>4, <3>5 DEF Searched
  <2>3. Fresh' /\ inst' = Target'  BY <1>1, <1>2, <1>4, <2>1 DEF Fresh
  <2> QED  BY <1>3, <2>1, <2>2, <2>3 DEF DispSound
<1> QED  BY <1>8, <1>9

\* Temporaries of an overload keep their names while the call stays with it.
LEMMA SameTemps ==
    ASSUME arrived'.pos = arrived.pos, arrived'.kw = arrived.kw, arrived'.pass = arrived.pass,
           arrived'.k = arrived.k, overloads' = overloads, complexity' = complexity
    PROVE  Y!Temps(Y!Packed(Y!Current) \cup Y!Converted(Y!Current, Len(Y!Current.params)))'
           = Y!Temps(Y!Packed(Y!Current) \cup Y!Converted(Y!Current, Len(Y!Current.params)))
<1>1. \A s, i : Y!Named(s, i)' = Y!Named(s, i)  BY DEF Y!Named
<1>2. \A s, i : Y!FromComplex(s, i)' = Y!FromComplex(s, i)  BY <1>1, Zenon DEF Y!FromComplex
<1>3. \A s, i : Y!FromMedium(s, i)' = Y!FromMedium(s, i)  BY DEF Y!FromMedium
<1>4. Y!Simple' = Y!Simple /\ Y!Positional' = Y!Positional  BY DEF Y!Simple, Y!Positional
<1>5. \A s, i : Y!Collected(s, i)' = Y!Collected(s, i)
  BY <1>2, <1>3, <1>4, Zenon DEF Y!Collected
<1>6. \A s, i : Y!Converts(s, i)' = Y!Converts(s, i)  BY <1>5 DEF Y!Converts
<1>7. \A s, u : Y!Converted(s, u)' = Y!Converted(s, u)  BY <1>6 DEF Y!Converted
<1>8. Y!Current' = Y!Current  BY DEF Y!Current
<1>9. \A x : Y!Temps(x)' = Y!Temps(x)  BY DEF Y!Temps
<1> QED  BY <1>7, <1>8, <1>9

LEMMA TryKeeps ==
    ASSUME Y!Legal, DispInv, Y!Try
    PROVE  DispInv'
<1> DEFINE s == overloads[arrived.k].shape
           bad == {i \in DOMAIN s.params : ~Y!Castable(s, i)}
           available == Y!CountFits(s) /\ \A i \in DOMAIN s.params : Y!Available(s, i)
           named == s.kw \/ DOMAIN arrived.kw \subseteq Y!Used(s)
           Takes0 == available /\ named /\ bad = {}
<1>1. /\ DispTypes /\ ChainSound /\ DispSound /\ arrived.pc = "try" /\ Searched /\ Fresh
      /\ inst = Target /\ overloads' = overloads /\ complexity' = complexity /\ inst' = inst
      /\ arrived \in ArrivedType
  BY DEF DispInv, DispSound, Y!Try, DispTypes
<1>2. s \in Shape /\ DOMAIN s.params = 1 .. Arity(s)
  BY <1>1, Known, LegalShape DEF Searched
<1>3. Takes0 <=> Fit(s, arrived.pass)
  <2>1. Fit(s, arrived.pass) <=> Passes(s)  BY <1>1, TryFits
  <2>2. bad = {} <=> \A i \in 1 .. Arity(s) : Y!Castable(s, i)  BY <1>2
  <2> QED  BY <1>2, <2>1, <2>2 DEF Passes, Keywords
<1>4. ChainSound'  BY <1>1 DEF ChainSound
<1>5. CASE ~Takes0
  <2>1. arrived' = Y!NextOverload  BY <1>5 DEF Y!Try, Y!Current
  <2>2. ~Takes(arrived.k, arrived.pass)  BY <1>3, <1>5 DEF Takes
  <2> QED  BY <1>1, <1>4, <2>1, <2>2, Skips DEF DispInv
<1>6. CASE Takes0
  <2>1. arrived' = [arrived EXCEPT !.pc = "body"]  BY <1>6 DEF Y!Try, Y!Current
  <2>2. temps' = temps \cup Y!Temps(Y!Packed(s) \cup Y!Converted(s, Len(s.params)))
    <3>1. available /\ named /\ bad = {}  BY <1>6
    <3> HIDE DEF available, named, bad
    <3> QED  BY <3>1 DEF Y!Try, Y!Current, available, named, bad
  <2>3. /\ arrived' \in ArrivedType /\ arrived'.pc = "body" /\ arrived'.pos = arrived.pos
        /\ arrived'.kw = arrived.kw /\ arrived'.pass = arrived.pass /\ arrived'.k = arrived.k
        /\ arrived'.result = arrived.result /\ arrived'.error = arrived.error
        /\ arrived'.handler = arrived.handler
    BY <1>1, <2>1 DEF ArrivedType
  <2>4. /\ \A x, pass : Fit(x, pass)' = Fit(x, pass)
        /\ \A j, pass : Takes(j, pass)' = Takes(j, pass)
        /\ \A pass : Never(pass)' = Never(pass)
    BY <1>1, <2>3, SameTakes
  <2>5. Searched' /\ Fresh' /\ Target' = Target  BY <1>1, <2>3, <2>4 DEF Searched, Fresh, Target
  <2>6. Fit(overloads[arrived.k].shape, arrived.pass)'  BY <1>1, <1>3, <1>6, <2>3, <2>4
  <2>7. Y!Temps(Y!Packed(Y!Current) \cup Y!Converted(Y!Current, Len(Y!Current.params)))'
        \subseteq temps'
    <3>1. Y!Temps(Y!Packed(Y!Current) \cup Y!Converted(Y!Current, Len(Y!Current.params)))'
          = Y!Temps(Y!Packed(Y!Current) \cup Y!Converted(Y!Current, Len(Y!Current.params)))
      BY <1>1, <2>3, SameTemps
    <3>2. Y!Current = s  BY DEF Y!Current
    <3> HIDE DEF s
    <3> QED  BY <2>2, <3>1, <3>2
  <2>8. DispTypes'  BY <1>1, <2>3 DEF DispTypes
  <2> QED  BY <1>1, <1>4, <2>3, <2>5, <2>6, <2>7, <2>8 DEF DispInv, DispSound
<1> QED  BY <1>5, <1>6

LEMMA BodyKeeps ==
    ASSUME Y!Legal, DispInv, Y!Body
    PROVE  DispInv'
<1> DEFINE k == arrived.k
           b == overloads[k].body
<1>1. /\ DispTypes /\ ChainSound /\ DispSound /\ arrived.pc = "body" /\ Searched /\ Fresh
      /\ inst = Target /\ overloads' = overloads /\ complexity' = complexity /\ temps' = temps
      /\ arrived \in ArrivedType /\ Fit(overloads[k].shape, arrived.pass)
      /\ k \in 1 .. Len(overloads) /\ Len(overloads) \in Nat
  <2>1. /\ DispTypes /\ ChainSound /\ DispSound /\ arrived.pc = "body"
        /\ overloads' = overloads /\ complexity' = complexity /\ temps' = temps
    BY DEF DispInv, Y!Body
  <2>2. Searched /\ Fresh /\ inst = Target /\ Fit(overloads[k].shape, arrived.pass)
    BY <2>1 DEF DispSound
  <2>3. k \in 1 .. Len(overloads)  BY <2>2 DEF Searched
  <2>4. arrived \in ArrivedType /\ Len(overloads) \in Nat  BY <2>1 DEF DispTypes
  <2> QED  BY <2>1, <2>2, <2>3, <2>4
<1>2. b \in AllBodies
  <2>1. overloads[k] \in [shape : Shape, body : AllBodies]  BY <1>1, ElementOfSeq DEF DispTypes
  <2> QED  BY <2>1
<1>3. ChainSound'  BY <1>1 DEF ChainSound
<1>4. CASE b = "next"
  <2>1. arrived' = Y!NextOverload /\ inst' = inst  BY <1>4 DEF Y!Body
  <2>2. ~Takes(k, arrived.pass)  BY <1>4 DEF Takes
  <2> QED  BY <1>1, <1>3, <2>1, <2>2, Skips DEF DispInv
<1>5. CASE b # "next"
  <2> DEFINE r == IF b = "ok" THEN "value" ELSE "NULL"
             e == b = "throws"
             h == b = "unconvertible"
  <2>1. /\ arrived' = [arrived EXCEPT !.pc = "done", !.result = r, !.error = e, !.handler = h]
        /\ inst' = IF b = "ok" /\ overloads[1].shape.ctor THEN "ready" ELSE inst
    BY <1>5 DEF Y!Body, Y!Ctor
  <2>2. r \in {"value", "NULL"} /\ e \in BOOLEAN /\ h \in BOOLEAN  OBVIOUS
  <2> HIDE DEF r, e, h
  <2>3. arrived' = [pc |-> "done", pos |-> arrived.pos, kw |-> arrived.kw, pass |-> arrived.pass,
                    k |-> arrived.k, result |-> r, error |-> e, handler |-> h]
    BY <1>1, <2>1 DEF ArrivedType
  <2>4. arrived' \in ArrivedType  BY <1>1, <2>2, <2>3 DEF ArrivedType
  <2>5. /\ arrived'.pc = "done" /\ arrived'.pos = arrived.pos /\ arrived'.kw = arrived.kw
        /\ arrived'.pass = arrived.pass /\ arrived'.k = k /\ arrived'.result = r
        /\ arrived'.error = e /\ arrived'.handler = h
    BY <2>3
  <2>6. /\ \A j, pass : Takes(j, pass)' = Takes(j, pass)
        /\ \A pass : Never(pass)' = Never(pass)
    BY <1>1, <2>5, SameTakes
  <2>7. Searched' /\ Target' = Target  BY <1>1, <2>5, <2>6 DEF Searched, Target
  <2>8. Takes(arrived.k, arrived.pass)'
    <3>1. Takes(k, arrived.pass)  BY <1>1, <1>5 DEF Takes
    <3> QED  BY <2>5, <2>6, <3>1
  <2>9. inst' = IF b = "ok" /\ overloads[1].shape.ctor THEN "ready" ELSE Target  BY <1>1, <2>1
  <2>10. DispTypes'  BY <1>1, <2>4, <2>9 DEF DispTypes, Target
  <2>11. DispSound'
    <3>1. overloads'[arrived'.k].body = b /\ overloads'[1].shape.ctor = overloads[1].shape.ctor
      BY <1>1, <2>5
    <3> QED  BY <2>5, <2>7, <2>8, <2>9, <3>1 DEF DispSound, r, e, h
  <2> QED  BY <1>3, <2>10, <2>11 DEF DispInv
<1> QED  BY <1>4, <1>5

LEMMA FinishKeeps ==
    ASSUME Y!Legal, DispInv, Y!Finish
    PROVE  DispInv'
<1> DEFINE r == Y!Report(arrived.result)
           e == arrived.error \/ Y!Fails
<1>1. /\ DispTypes /\ ChainSound /\ DispSound /\ arrived.pc \in {"done", "nomatch"}
      /\ overloads' = overloads /\ complexity' = complexity /\ temps' = {}
      /\ arrived' = [arrived EXCEPT !.pc = "returned", !.result = r, !.error = e]
      /\ inst' = (IF inst = "raw" THEN "freed" ELSE inst) /\ arrived \in ArrivedType
  BY DEF DispInv, Y!Finish, DispTypes
<1>2. Len(overloads) > 0 /\ Len(overloads) \in Nat
  BY <1>1 DEF DispSound, Searched, DispTypes
<1>3. overloads[1].shape \in Shape  BY <1>1, <1>2, Known
<1>4. overloads[1].shape.ctor \in BOOLEAN /\ ~(overloads[1].shape.ctor /\ overloads[1].shape.op)
  BY <1>3, LegalShape
<1>5. r \in {"-", "value", "NULL", "NotImplemented"} /\ e \in BOOLEAN
  BY <1>1 DEF ArrivedType, Y!Report
<1> HIDE DEF r, e
<1>6. arrived' = [pc |-> "returned", pos |-> arrived.pos, kw |-> arrived.kw, pass |-> arrived.pass,
                  k |-> arrived.k, result |-> r, error |-> e, handler |-> arrived.handler]
  BY <1>1 DEF ArrivedType
<1>7. arrived' \in ArrivedType  BY <1>1, <1>5, <1>6 DEF ArrivedType
<1>8. arrived'.pc = "returned" /\ arrived'.result = r /\ arrived'.error = e  BY <1>6
<1>9. (r = "NULL") = e /\ (overloads[1].shape.ctor => inst' = IF e THEN "freed" ELSE "ready")
  <2>1. CASE arrived.pc = "done"
    <3> DEFINE b == overloads[arrived.k].body
    <3>1. ~Y!Declines /\ (Y!Fails <=> arrived.handler)  BY <2>1 DEF Y!Declines, Y!Fails
    <3>2. /\ arrived.result = (IF b = "ok" THEN "value" ELSE "NULL")
          /\ arrived.error = (b = "throws") /\ arrived.handler = (b = "unconvertible")
          /\ inst = IF b = "ok" /\ overloads[1].shape.ctor THEN "ready" ELSE Target
          /\ b # "next" /\ arrived.k \in 1 .. Len(overloads)
      BY <1>1, <2>1 DEF DispSound, Takes, Searched
    <3>3. b \in AllBodies
      <4>1. overloads[arrived.k] \in [shape : Shape, body : AllBodies]
        BY <1>1, <3>2, ElementOfSeq DEF DispTypes
      <4> QED  BY <4>1
    <3> HIDE DEF b
    <3>4. CASE b = "ok"
      <4>1. arrived.result = "value" /\ ~arrived.error /\ ~Y!Fails  BY <3>1, <3>2, <3>4
      <4>2. r = "value" /\ ~e  BY <3>1, <4>1 DEF r, e, Y!Report
      <4> QED  BY <1>1, <1>5, <3>2, <3>4, <4>2 DEF Target
    <3>5. CASE b \in {"throws", "unconvertible"}
      <4>1. r = "NULL" /\ e  BY <3>1, <3>2, <3>5 DEF r, e, Y!Report
      <4> QED  BY <1>1, <3>2, <3>5, <4>1 DEF Target
    <3> QED  BY <3>2, <3>3, <3>4, <3>5 DEF AllBodies
  <2>2. CASE arrived.pc = "nomatch"
    <3>1. arrived.handler /\ ~arrived.error /\ inst = Target  BY <1>1, <2>2 DEF DispSound
    <3>2. CASE overloads[1].shape.op
      <4>1. Y!Declines /\ ~Y!Fails  BY <2>2, <3>2 DEF Y!Fails, Y!Declines
      <4>2. r = "NotImplemented" /\ ~e  BY <3>1, <4>1 DEF r, e, Y!Report
      <4> QED  BY <1>4, <1>5, <3>2, <4>2
    <3>3. CASE ~overloads[1].shape.op
      <4>1. r = "NULL" /\ e
        BY <2>2, <3>1, <3>3 DEF r, e, Y!Report, Y!Fails, Y!Declines
      <4> QED  BY <1>1, <3>1, <4>1 DEF Target
    <3> QED  BY <3>2, <3>3
  <2> QED  BY <1>1, <2>1, <2>2
<1>10. Y!OutcomeConsistent'
  <2>1. overloads'[1].shape.ctor = overloads[1].shape.ctor  BY <1>1
  <2> QED  BY <1>8, <1>9, <2>1 DEF Y!OutcomeConsistent, Y!Ctor
<1>11. DispTypes'  BY <1>1, <1>7 DEF DispTypes
<1>12. ChainSound'  BY <1>1 DEF ChainSound
<1>13. DispSound'  BY <1>1, <1>2, <1>8, <1>10 DEF DispSound
<1> QED  BY <1>11, <1>12, <1>13 DEF DispInv

LEMMA ReturnKeeps ==
    ASSUME DispInv, Y!Return
    PROVE  DispInv'
<1>1. /\ arrived' = Y!NoCall /\ inst' = "none" /\ temps' = {}
      /\ overloads' = overloads /\ complexity' = complexity
  BY DEF Y!Return, DispInv, DispSound
<1>2. arrived' \in ArrivedType /\ arrived'.pc = "idle"  BY <1>1 DEF ArrivedType, Y!NoCall
<1> QED  BY <1>1, <1>2 DEF DispInv, DispTypes, ChainSound, DispSound

LEMMA DefineKeeps ==
    ASSUME Y!Legal, DispInv, NEW s \in Shape, NEW hides \in BOOLEAN, NEW b \in Y!Bodies(s),
           Y!Define(s, b, hides)
    PROVE  DispInv'
<1> DEFINE old == IF hides THEN <<>> ELSE overloads
           need == IF hides THEN 0 ELSE complexity
           new == [shape |-> s, body |-> b]
<1>1. /\ DispTypes /\ ChainSound /\ DispSound /\ temps = {} /\ temps' = temps
      /\ overloads' = Append(old, new) /\ complexity' = Y!Needs(s, need)
      /\ arrived' = Y!NoCall /\ inst' = "none"
      /\ (overloads # <<>> /\ ~hides => overloads[1].shape.ctor = s.ctor)
  BY DEF DispInv, DispSound, Y!Define
<1>2. new \in [shape : Shape, body : AllBodies]  BY DEF Y!Bodies, AllBodies
<1>3. old \in Seq([shape : Shape, body : AllBodies]) /\ need \in 0 .. 2
      /\ (old # <<>> => old[1].shape.ctor = s.ctor)
      /\ \A k \in 1 .. Len(old) : /\ Own(old[k].shape) <= need /\ Own(old[k].shape) \in 0 .. 2
                                  /\ old[k].shape.ctor = old[1].shape.ctor
                                  /\ old[k].body \in Y!Bodies(old[k].shape)
  <2>1. CASE hides
    <3>1. old = <<>> /\ need = 0 /\ Len(old) = 0  BY <2>1
    <3> HIDE DEF old, need
    <3> QED  BY <3>1
  <2>2. CASE ~hides
    <3>1. old = overloads /\ need = complexity  BY <2>2
    <3> HIDE DEF old, need
    <3>2. \A k \in 1 .. Len(overloads) : Own(overloads[k].shape) \in 0 .. 2
      BY DEF Own, Y!Num
    <3> QED  BY <1>1, <2>2, <3>1, <3>2 DEF DispTypes, ChainSound
  <2> QED  BY <2>1, <2>2
<1>4. Own(s) \in 0 .. 2  BY DEF Own, Y!Num
<1>5. complexity' = IF need >= Own(s) THEN need ELSE Own(s)
  <2>1. Y!Needs(s, need) = Y!Max({need, Own(s)})  BY DEF Y!Needs, Own
  <2> HIDE DEF need
  <2> QED  BY <1>1, <1>3, <1>4, <2>1, MaxOfTwo
<1> HIDE DEF old, need, new
<1>6. complexity' \in 0 .. 2 /\ need <= complexity' /\ Own(s) <= complexity'
  BY <1>3, <1>4, <1>5
<1>7. /\ overloads' \in Seq([shape : Shape, body : AllBodies]) /\ Len(overloads') = Len(old) + 1
      /\ Len(old) \in Nat /\ overloads'[Len(old) + 1] = new
      /\ \A k \in 1 .. Len(old) : overloads'[k] = old[k]
  BY <1>1, <1>2, <1>3
<1>8. overloads'[1].shape.ctor = s.ctor
  <2>1. CASE Len(old) = 0  BY <1>7, <2>1 DEF new
  <2>2. CASE Len(old) > 0
    <3>1. old # <<>> /\ 1 \in 1 .. Len(old)  BY <1>7, <2>2
    <3> QED  BY <1>3, <1>7, <3>1
  <2> QED  BY <1>7, <2>1, <2>2
<1>9. ChainSound'
  <2>1. ASSUME NEW k \in 1 .. Len(overloads')
        PROVE  /\ Own(overloads'[k].shape) <= complexity'
               /\ overloads'[k].shape.ctor = overloads'[1].shape.ctor
               /\ overloads'[k].body \in Y!Bodies(overloads'[k].shape)
    <3>1. CASE k \in 1 .. Len(old)
      <4>1. overloads'[k] = old[k]  BY <1>7, <3>1
      <4>2. old[k].shape.ctor = s.ctor
        <5>1. old # <<>>  BY <1>7, <3>1
        <5> QED  BY <1>3, <3>1, <5>1
      <4>3. Own(old[k].shape) <= need /\ Own(old[k].shape) \in 0 .. 2  BY <1>3, <3>1
      <4>4. Own(old[k].shape) <= complexity'  BY <1>3, <1>6, <4>3
      <4> QED  BY <1>3, <1>8, <3>1, <4>1, <4>2, <4>4
    <3>2. CASE k \notin 1 .. Len(old)
      <4>1. k = Len(old) + 1  BY <1>7, <3>2
      <4>2. overloads'[k].shape = s /\ overloads'[k].body = b  BY <1>7, <4>1 DEF new
      <4> QED  BY <1>6, <1>8, <4>2
    <3> QED  BY <3>1, <3>2
  <2> QED  BY <2>1 DEF ChainSound
<1>10. arrived' \in ArrivedType /\ arrived'.pc = "idle"  BY <1>1 DEF ArrivedType, Y!NoCall
<1> QED  BY <1>1, <1>6, <1>7, <1>9, <1>10 DEF DispInv, DispTypes, DispSound

\* What a simple dispatcher refuses at once no overload would take.
LEMMA Unfit ==
    ASSUME Y!Legal, NEW s \in Shape, ~Y!HasArgs(s), ~s.star, ~s.kw, NEW p \in PosArgs,
           NEW kw \in KwArgs, NEW strict \in BOOLEAN,
           kw # <<>> \/ "none" \in Y!Range(p) \/ Len(p) # Len(s.params)
    PROVE  ~Y!Fits(s, p, kw, strict)
<1> SUFFICES ASSUME Y!Fits(s, p, kw, strict) PROVE FALSE  OBVIOUS
<1>1. /\ DOMAIN s.params = 1 .. Arity(s) /\ Arity(s) \in Nat
      /\ s.npos = Arity(s)
      /\ \A i \in 1 .. Arity(s) :
            /\ s.params[i].name = "-" /\ s.params[i].default = "-" /\ ~s.params[i].none
            /\ s.params[i].takes \in {"a", "b"}
  BY LegalShape, NoArgs
<1>2. /\ p \in Seq(Y!Kinds) /\ "-" \notin DOMAIN kw /\ kw = [n \in DOMAIN kw |-> kw[n]]
  BY DEF Y!Legal
<1>3. DOMAIN p = 1 .. Len(p) /\ Len(p) \in Nat  BY <1>2, LenProperties
<1>4. /\ Len(p) <= Arity(s) /\ \A n \in DOMAIN kw : \E i \in 1 .. Arity(s) : s.params[i].name = n
      /\ \A i \in 1 .. Arity(s) : Gets(Y!Sources(s, p, kw, i), s, i, strict)
  BY <1>1, Zenon DEF Y!Fits, Gets, Offered, Right
<1>5. DOMAIN kw = {}  BY <1>1, <1>2, <1>4
<1>6. kw = <<>>
  <2>1. kw = [n \in {} |-> kw[n]]  BY <1>2, <1>5
  <2>2. [n \in {} |-> kw[n]] = <<>>  OBVIOUS
  <2> QED  BY <2>1, <2>2
<1>7. Len(p) = Len(s.params)
  <2> SUFFICES ASSUME Len(p) # Arity(s) PROVE FALSE  BY DEF Arity
  <2> DEFINE a == Arity(s)
  <2>1. a \in 1 .. Arity(s) /\ ~(a <= Len(p))  BY <1>1, <1>3, <1>4
  <2>2. Y!Sources(s, p, kw, a) = {}  BY <1>5, <2>1 DEF Y!Sources
  <2>3. Gets({}, s, a, strict)  BY <1>4, <2>1, <2>2
  <2>4. s.params[a].default # "-"  BY <2>3, GetsNone DEF Right
  <2> QED  BY <1>1, <2>1, <2>4
<1>8. PICK j \in 1 .. Len(p) : p[j] = "none"  BY <1>3, <1>6, <1>7 DEF Y!Range
<1>9. j \in 1 .. Arity(s) /\ j <= Len(p) /\ j <= s.npos  BY <1>1, <1>3, <1>4
<1>10. Y!Sources(s, p, kw, j) = {<<"position", p[j]>>}  BY <1>5, <1>9 DEF Y!Sources
<1>11. Right("none", s, j, strict)  BY <1>4, <1>8, <1>9, <1>10, GetsOne
<1> QED  BY <1>1, <1>9, <1>11 DEF Right

LEMMA StartKeeps ==
    ASSUME Y!Legal, DispInv, NEW p \in PosArgs, NEW kw \in KwArgs, NEW refused \in BOOLEAN,
           arrived.pc = "idle", overloads # <<>>, Y!Start(p, kw, refused),
           refused => \A j \in 1 .. Len(overloads) : /\ ~Y!Fits(overloads[j].shape, p, kw, TRUE)
                                                 /\ ~Y!Fits(overloads[j].shape, p, kw, FALSE),
           ~refused /\ complexity = 0 => kw = <<>>
    PROVE  DispInv'
<1> DEFINE pass == IF Len(overloads) > 1 THEN 0 ELSE 1
           pc == IF refused THEN "nomatch" ELSE "try"
<1>1. /\ DispTypes /\ ChainSound /\ overloads' = overloads /\ complexity' = complexity
      /\ temps' = temps /\ inst' = Target /\ Len(overloads) \in Nat /\ DOMAIN overloads = 1 .. Len(overloads)
  BY DEF DispInv, Y!Start, Y!Ctor, Target, DispTypes
<1>2. arrived' = [pc |-> pc, pos |-> p, kw |-> kw, pass |-> pass, k |-> 1, result |-> "-",
                  error |-> FALSE, handler |-> refused]
  BY DEF Y!Start, Y!NoCall
<1>3. Len(overloads) > 0  BY <1>1
<1>4. arrived' \in ArrivedType  BY <1>2 DEF ArrivedType
<1>5. /\ arrived'.pc = pc /\ arrived'.pos = p /\ arrived'.kw = kw /\ arrived'.pass = pass
      /\ arrived'.k = 1 /\ arrived'.handler = refused /\ Fresh' = ~refused
      /\ arrived'.error = FALSE
  BY <1>2 DEF Fresh
<1>6. Target' = Target  BY <1>1 DEF Target
<1>7. DispTypes' /\ ChainSound'  BY <1>1, <1>4 DEF DispTypes, ChainSound, Target
<1>8. CASE refused
  <2>1. Y!Chosen(p, kw)' = 0
    <3>1. \A strict \in BOOLEAN : Y!Candidates(strict, p, kw)' = {}
      BY <1>1, <1>8 DEF Y!Candidates
    <3> QED  BY <3>1 DEF Y!Chosen
  <2>2. Y!Chosen(arrived.pos, arrived.kw)' = 0
    <3>1. Y!Chosen(arrived.pos, arrived.kw)' = Y!Chosen(p, kw)'
      BY <1>5 DEF Y!Chosen, Y!Candidates
    <3> QED  BY <2>1, <3>1
  <2>3. arrived'.pc = "nomatch"  BY <1>5, <1>8
  <2> QED  BY <1>1, <1>3, <1>5, <1>6, <1>7, <1>8, <2>2, <2>3 DEF DispInv, DispSound
<1>9. CASE ~refused
  <2>1. arrived'.pc = "try" /\ Fresh'  BY <1>5, <1>9
  <2>2. Searched'
    <3>1. 1 \in 1 .. Len(overloads) /\ \A j \in 1 .. Len(overloads) : ~(j < 1)  BY <1>1, <1>3
    <3>2. (pass = 0 => Len(overloads) > 1) /\ ~(pass = 1 /\ Len(overloads) > 1)  OBVIOUS
    <3> HIDE DEF pass
    <3> QED  BY <1>1, <1>5, <1>9, <3>1, <3>2 DEF Searched
  <2> QED  BY <1>1, <1>6, <1>7, <2>1, <2>2 DEF DispInv, DispSound
<1> QED  BY <1>8, <1>9

LEMMA CallKeeps ==
    ASSUME Y!Legal, DispInv, NEW p \in PosArgs, NEW kw \in KwArgs,
           Y!Call(p, kw) \/ Y!CallSpecialized(p, kw)
    PROVE  DispInv'
<1> DEFINE none == "none" \in Y!Range(p)
<1>1. arrived.pc = "idle" /\ overloads # <<>> /\ DispTypes /\ ChainSound
  BY DEF Y!Call, Y!CallSpecialized, DispInv
<1>2. ASSUME complexity = 0, NEW j \in 1 .. Len(overloads),
             kw # <<>> \/ none \/ Len(p) # Len(overloads[j].shape.params)
      PROVE  ~Y!Fits(overloads[j].shape, p, kw, TRUE) /\ ~Y!Fits(overloads[j].shape, p, kw, FALSE)
  <2>1. /\ overloads[j].shape \in Shape /\ ~overloads[j].shape.star /\ ~overloads[j].shape.kw
        /\ ~Y!HasArgs(overloads[j].shape)
    BY <1>1, <1>2, Known
  <2> QED  BY <1>2, <2>1, Unfit
<1>3. CASE Y!Call(p, kw)
  <2> DEFINE refused == complexity = 0 /\ (kw # <<>> \/ none)
  <2>1. Y!Start(p, kw, refused)  BY <1>3 DEF Y!Call, Y!Simple
  <2>2. refused \in BOOLEAN  OBVIOUS
  <2>3. ~refused /\ complexity = 0 => kw = <<>>  OBVIOUS
  <2>4. refused => \A j \in 1 .. Len(overloads) : /\ ~Y!Fits(overloads[j].shape, p, kw, TRUE)
                                              /\ ~Y!Fits(overloads[j].shape, p, kw, FALSE)
    BY <1>2
  <2> HIDE DEF refused
  <2> QED  BY <1>1, <2>1, <2>2, <2>3, <2>4, StartKeeps
<1>4. CASE Y!CallSpecialized(p, kw)
  <2> DEFINE refused == kw # <<>> \/ Len(p) # Len(overloads[1].shape.params) \/ none
  <2>1. Y!Start(p, kw, refused) /\ complexity = 0 /\ Len(overloads) = 1
    BY <1>4 DEF Y!CallSpecialized, Y!Specialized, Y!Simple
  <2>2. refused \in BOOLEAN  OBVIOUS
  <2>3. ~refused /\ complexity = 0 => kw = <<>>  OBVIOUS
  <2>4. refused => \A j \in 1 .. Len(overloads) : /\ ~Y!Fits(overloads[j].shape, p, kw, TRUE)
                                              /\ ~Y!Fits(overloads[j].shape, p, kw, FALSE)
    <3>1. \A j \in 1 .. Len(overloads) : j = 1  BY <2>1
    <3> QED  BY <1>2, <2>1, <3>1
  <2> HIDE DEF refused
  <2> QED  BY <1>1, <2>1, <2>2, <2>3, <2>4, StartKeeps
<1> QED  BY <1>3, <1>4

LEMMA DispInit == Y!Init => DispInv
<1> SUFFICES ASSUME Y!Init PROVE DispInv  OBVIOUS
<1>1. /\ overloads = <<>> /\ complexity = 0 /\ arrived = Y!NoCall /\ temps = {} /\ inst = "none"
      /\ Len(overloads) = 0
  BY DEF Y!Init
<1>2. arrived \in ArrivedType /\ arrived.pc = "idle"  BY <1>1 DEF ArrivedType, Y!NoCall
<1> QED  BY <1>1, <1>2 DEF DispInv, DispTypes, ChainSound, DispSound

LEMMA DispStutter == DispInv /\ UNCHANGED Y!dispatchVars => DispInv'
<1> SUFFICES ASSUME DispInv, UNCHANGED Y!dispatchVars PROVE DispInv'  OBVIOUS
<1>1. /\ overloads' = overloads /\ complexity' = complexity /\ arrived' = arrived /\ temps' = temps
      /\ inst' = inst
  BY DEF Y!dispatchVars
<1>2. /\ Searched' = Searched /\ Target' = Target
      /\ \A s, pass : Fit(s, pass)' = Fit(s, pass)
      /\ \A j, pass : Takes(j, pass)' = Takes(j, pass)
      /\ Y!Chosen(arrived.pos, arrived.kw)' = Y!Chosen(arrived.pos, arrived.kw)
  BY <1>1, SameTakes DEF Searched, Target
<1>3. Y!Temps(Y!Packed(Y!Current) \cup Y!Converted(Y!Current, Len(Y!Current.params)))'
      = Y!Temps(Y!Packed(Y!Current) \cup Y!Converted(Y!Current, Len(Y!Current.params)))
  BY <1>1, SameTemps
<1>4. Y!OutcomeConsistent' = Y!OutcomeConsistent  BY <1>1 DEF Y!OutcomeConsistent, Y!Ctor
<1>5. DispSound'
  BY <1>1, <1>2, <1>3, <1>4 DEF DispInv, DispSound, Fresh
<1> QED  BY <1>1, <1>5 DEF DispInv, DispTypes, ChainSound

LEMMA DispNext == Y!Legal /\ DispInv /\ [Y!Next]_(Y!dispatchVars) => DispInv'
<1> SUFFICES ASSUME Y!Legal, DispInv, Y!Next PROVE DispInv'  BY DispStutter
<1> QED  BY DefineKeeps, CallKeeps, TryKeeps, BodyKeeps, FinishKeeps, ReturnKeeps DEF Y!Next

LEMMA DispRight ==
    DispInv => Y!TypeOK /\ Y!RightOverload /\ Y!TempsHeld /\ Y!OutcomeConsistent
<1> SUFFICES ASSUME DispInv
             PROVE  Y!TypeOK /\ Y!RightOverload /\ Y!TempsHeld /\ Y!OutcomeConsistent
    OBVIOUS
<1>1. Y!TypeOK  BY DEF DispInv, DispTypes, AllBodies, Y!TypeOK
<1>2. ASSUME arrived.pc = "done" PROVE arrived.k = Y!Chosen(arrived.pos, arrived.kw)
  <2>1. DispTypes /\ Searched /\ Takes(arrived.k, arrived.pass) /\ arrived.pass \in 0 .. 1
    BY <1>2 DEF DispInv, DispSound, DispTypes, ArrivedType
  <2> QED  BY <2>1, ChosenHere DEF Searched
<1>3. Y!RightOverload  BY <1>2 DEF Y!RightOverload, DispInv, DispSound
<1>4. Y!TempsHeld  BY DEF Y!TempsHeld, DispInv, DispSound
<1>5. Y!OutcomeConsistent
  <2>1. CASE arrived.pc = "returned"  BY <2>1 DEF DispInv, DispSound
  <2>2. CASE arrived.pc # "returned"  BY <2>2 DEF Y!OutcomeConsistent
  <2> QED  BY <2>1, <2>2
<1> QED  BY <1>1, <1>3, <1>4, <1>5

\* Whichever dispatcher a chain has got, and however overloads are added: a call runs the
\* first overload that takes its arguments as they are, else the first that takes them
\* converted, else none; temporaries live as long as the body and no longer than the
\* call; an error is set exactly if NULL is returned, and an object made by a constructor
\* is usable exactly if there was none (nb_func.cpp:655-1240).
THEOREM DispatchRight ==
    Y!Legal /\ Y!Spec => [](Y!TypeOK /\ Y!RightOverload /\ Y!TempsHeld /\ Y!OutcomeConsistent)
<1> SUFFICES ASSUME Y!Legal
             PROVE  Y!Spec => [](Y!TypeOK /\ Y!RightOverload /\ Y!TempsHeld /\ Y!OutcomeConsistent)
    OBVIOUS
<1>1. DispInv /\ [Y!Next]_(Y!dispatchVars) => DispInv'  BY DispNext
<1> QED  BY <1>1, DispInit, DispRight, PTL DEF Y!Spec

-----------------------------------------------------------------------------
(* The tickets of a thread.                                                      *)

FrameType == [kind : {"ticket", "base"}, self : Self, key : Method, prev : Nat]
TicketsIn(s) == {i \in 1 .. Len(s) : s[i].kind = "ticket"}

\* The innermost ticket below frame i of a stack, or 0.
Nearest(s, i, j) == /\ j \in TicketsIn(s) \cup {0} /\ j < i
                    /\ \A l \in TicketsIn(s) : l < i => l <= j
Called(s, f, j) == j # 0 /\ s[j].self = f.self /\ s[j].key = f.key
Delivers(s, f, j, on) == on /\ <<f.self, f.key>> \in Overrides => (f.kind = "base" <=> Called(s, f, j))
FrameRight(s, i, on) == \E j \in Nat : /\ Nearest(s, i, j) /\ Delivers(s, s[i], j, on)
                                       /\ s[i].kind = "ticket" => s[i].prev = j

\* The stack of a thread, its current ticket and its attachments, while the interpreter
\* is on.
StackRight(s, c, n, on) ==
    /\ s \in Seq(FrameType) /\ c \in Nat /\ n \in Int
    /\ Nearest(s, Len(s) + 1, c) /\ \A i \in 1 .. Len(s) : FrameRight(s, i, on)
    /\ n = Cardinality(TicketsIn(s))
TicketInv ==
    /\ stack \in [Thread -> Seq(FrameType)] /\ current \in [Thread -> Nat]
    /\ attached \in [Thread -> Int] /\ exc \in [Thread -> BOOLEAN] /\ running \in BOOLEAN
    /\ \A t \in Thread : StackRight(stack[t], current[t], attached[t], running)

LEMMA NearestOne ==
    ASSUME NEW s \in Seq(FrameType), NEW i \in Nat, NEW j, NEW k, Nearest(s, i, j), Nearest(s, i, k)
    PROVE  j = k
<1>1. j \in Nat /\ k \in Nat  BY DEF Nearest, TicketsIn
<1>2. j = 0 \/ j <= k  BY <1>1 DEF Nearest
<1>3. k = 0 \/ k <= j  BY <1>1 DEF Nearest
<1> QED  BY <1>1, <1>2, <1>3

\* A frame on top changes nothing below.
OneMore(s, r) == Len(r) = Len(s) + 1 /\ \A i \in 1 .. Len(s) : r[i] = s[i]
LEMMA TicketsBelow ==
    ASSUME NEW s \in Seq(FrameType), NEW r \in Seq(FrameType), OneMore(s, r)
    PROVE  /\ r[Len(r)].kind = "ticket" => TicketsIn(r) = TicketsIn(s) \cup {Len(s) + 1}
           /\ r[Len(r)].kind # "ticket" => TicketsIn(r) = TicketsIn(s)
           /\ IsFiniteSet(TicketsIn(s)) /\ Len(s) + 1 \notin TicketsIn(s)
           /\ TicketsIn(s) \subseteq 1 .. Len(s)
<1>1. Len(s) \in Nat /\ 1 .. Len(r) = (1 .. Len(s)) \cup {Len(s) + 1}
  BY LenProperties DEF OneMore
<1>2. IsFiniteSet(TicketsIn(s))
  <2>1. IsFiniteSet(1 .. Len(s))  BY <1>1, FS_Interval
  <2> QED  BY <2>1, FS_Subset DEF TicketsIn
<1> QED  BY <1>1, <1>2 DEF OneMore, TicketsIn

LEMMA SameBelow ==
    ASSUME NEW s \in Seq(FrameType), NEW r \in Seq(FrameType), OneMore(s, r)
    PROVE  /\ \A i \in 1 .. Len(s) + 1 : \A j : Nearest(s, i, j) <=> Nearest(r, i, j)
           /\ \A i \in 1 .. Len(s) : \A on : FrameRight(s, i, on) <=> FrameRight(r, i, on)
<1>1. Len(s) \in Nat /\ TicketsIn(s) \subseteq 1 .. Len(s)  BY LenProperties, TicketsBelow
<1>2. \A i \in 1 .. Len(s) + 1 : \A j : Nearest(s, i, j) <=> Nearest(r, i, j)
  <2> TAKE i \in 1 .. Len(s) + 1
  <2> TAKE j
  <2>1. \A l : l < i => (l \in TicketsIn(s) <=> l \in TicketsIn(r))
    BY <1>1, TicketsBelow
  <2> QED  BY <2>1 DEF Nearest
<1>3. ASSUME NEW i \in 1 .. Len(s), NEW on PROVE FrameRight(s, i, on) <=> FrameRight(r, i, on)
  <2>1. s[i] = r[i]  BY DEF OneMore
  <2>2. \A j \in Nat : Nearest(s, i, j) => (Called(s, s[i], j) <=> Called(r, r[i], j))
    <3> TAKE j \in Nat
    <3>1. ASSUME Nearest(s, i, j), j # 0 PROVE s[j] = r[j]
      BY <1>1, <3>1 DEF Nearest, OneMore
    <3> QED  BY <2>1, <3>1 DEF Called
  <2>3. \A j : Nearest(s, i, j) <=> Nearest(r, i, j)  BY <1>1, <1>2
  <2> QED  BY <2>1, <2>2, <2>3 DEF FrameRight, Delivers
<1> QED  BY <1>2, <1>3

LEMMA TicketPushed ==
    ASSUME NEW s, NEW c, NEW n, NEW on, StackRight(s, c, n, on), NEW o \in Self, NEW k \in Method,
           ~Called(s, V!Frame("ticket", o, k, c), c)
    PROVE  StackRight(Append(s, V!Frame("ticket", o, k, c)), Len(s) + 1, n + 1, on)
<1> DEFINE f == V!Frame("ticket", o, k, c)
           r == Append(s, f)
<1>1. /\ s \in Seq(FrameType) /\ c \in Nat /\ n \in Int /\ n = Cardinality(TicketsIn(s))
      /\ Nearest(s, Len(s) + 1, c) /\ \A i \in 1 .. Len(s) : FrameRight(s, i, on)
  BY DEF StackRight
<1>2. f \in FrameType /\ f.kind = "ticket" /\ f.prev = c  BY <1>1 DEF V!Frame, FrameType
<1> HIDE DEF f
<1>3. r \in Seq(FrameType) /\ OneMore(s, r) /\ r[Len(r)] = f /\ Len(r) = Len(s) + 1 /\ Len(s) \in Nat
  BY <1>1, <1>2, AppendProperties, LenProperties DEF OneMore
<1> HIDE DEF r
<1>4. TicketsIn(r) = TicketsIn(s) \cup {Len(s) + 1} /\ IsFiniteSet(TicketsIn(s))
      /\ Len(s) + 1 \notin TicketsIn(s) /\ TicketsIn(s) \subseteq 1 .. Len(s)
  BY <1>1, <1>2, <1>3, TicketsBelow
<1>5. n + 1 = Cardinality(TicketsIn(r))  BY <1>1, <1>4, FS_AddElement
<1>6. Nearest(r, Len(r) + 1, Len(s) + 1)  BY <1>3, <1>4 DEF Nearest
<1>7. \A i \in 1 .. Len(s) : FrameRight(r, i, on)  BY <1>1, <1>3, SameBelow
<1>8. FrameRight(r, Len(s) + 1, on)
  <2>1. Nearest(r, Len(s) + 1, c)  BY <1>1, <1>3, SameBelow
  <2>2. Called(r, f, c) <=> Called(s, f, c)
    <3>1. c # 0 => r[c] = s[c]  BY <1>1, <1>3, <1>4 DEF Nearest, OneMore
    <3> QED  BY <3>1 DEF Called
  <2>3. ~Called(s, f, c)  BY DEF f
  <2> QED  BY <1>1, <1>2, <1>3, <2>1, <2>2, <2>3 DEF FrameRight, Delivers
<1>9. \A i \in 1 .. Len(r) : FrameRight(r, i, on)  BY <1>3, <1>7, <1>8
<1>10. StackRight(r, Len(s) + 1, n + 1, on)
  BY <1>1, <1>3, <1>5, <1>6, <1>9 DEF StackRight
<1> QED  BY <1>10 DEF r, f

LEMMA BasePushed ==
    ASSUME NEW s, NEW c, NEW n, NEW on, StackRight(s, c, n, on), NEW o \in Self, NEW k \in Method,
           Delivers(s, V!Frame("base", o, k, 0), c, on)
    PROVE  StackRight(Append(s, V!Frame("base", o, k, 0)), c, n, on)
<1> DEFINE f == V!Frame("base", o, k, 0)
           r == Append(s, f)
<1>1. /\ s \in Seq(FrameType) /\ c \in Nat /\ n \in Int /\ n = Cardinality(TicketsIn(s))
      /\ Nearest(s, Len(s) + 1, c) /\ \A i \in 1 .. Len(s) : FrameRight(s, i, on)
  BY DEF StackRight
<1>2. f \in FrameType /\ f.kind = "base"  BY <1>1 DEF V!Frame, FrameType
<1> HIDE DEF f
<1>3. r \in Seq(FrameType) /\ OneMore(s, r) /\ r[Len(r)] = f /\ Len(r) = Len(s) + 1 /\ Len(s) \in Nat
  BY <1>1, <1>2, AppendProperties, LenProperties DEF OneMore
<1> HIDE DEF r
<1>4. TicketsIn(r) = TicketsIn(s) /\ TicketsIn(s) \subseteq 1 .. Len(s)
  BY <1>1, <1>2, <1>3, TicketsBelow
<1>6. Nearest(r, Len(r) + 1, c)  BY <1>1, <1>3, <1>4 DEF Nearest
<1>7. \A i \in 1 .. Len(s) : FrameRight(r, i, on)  BY <1>1, <1>3, SameBelow
<1>8. FrameRight(r, Len(s) + 1, on)
  <2>1. Nearest(r, Len(s) + 1, c)  BY <1>1, <1>3, SameBelow
  <2>2. Called(r, f, c) <=> Called(s, f, c)
    <3>1. c # 0 => r[c] = s[c]  BY <1>1, <1>3, <1>4 DEF Nearest, OneMore
    <3> QED  BY <3>1 DEF Called
  <2>3. Delivers(s, f, c, on)  BY DEF f
  <2> QED  BY <1>1, <1>2, <1>3, <2>1, <2>2, <2>3 DEF FrameRight, Delivers
<1>9. \A i \in 1 .. Len(r) : FrameRight(r, i, on)  BY <1>3, <1>7, <1>8
<1>10. StackRight(r, c, n, on)  BY <1>1, <1>3, <1>4, <1>6, <1>9 DEF StackRight
<1> QED  BY <1>10 DEF r, f

LEMMA FramePopped ==
    ASSUME NEW r, NEW c, NEW n, NEW on, StackRight(r, c, n, on), r # <<>>
    PROVE  /\ r[Len(r)].kind = "ticket" =>
                StackRight(SubSeq(r, 1, Len(r) - 1), r[Len(r)].prev, n - 1, on)
           /\ r[Len(r)].kind # "ticket" => StackRight(SubSeq(r, 1, Len(r) - 1), c, n, on)
<1> DEFINE s == SubSeq(r, 1, Len(r) - 1)
           f == r[Len(r)]
<1>1. /\ r \in Seq(FrameType) /\ c \in Nat /\ n \in Int /\ n = Cardinality(TicketsIn(r))
      /\ Nearest(r, Len(r) + 1, c) /\ \A i \in 1 .. Len(r) : FrameRight(r, i, on)
  BY DEF StackRight
<1>2. Len(r) \in Nat \ {0} /\ \A i \in 1 .. Len(r) : r[i] \in FrameType
  BY <1>1, LenProperties, ElementOfSeq, EmptySeq
<1>3. s \in Seq(FrameType) /\ Len(s) = Len(r) - 1 /\ Len(s) \in Nat /\ \A i \in 1 .. Len(s) : s[i] = r[i]
  <2> DEFINE n1 == Len(r) - 1
  <2>1. n1 \in Int /\ n1 \in Nat /\ \A i \in 1 .. n1 : r[i] \in FrameType  BY <1>2
  <2> HIDE DEF n1
  <2>2. /\ SubSeq(r, 1, n1) \in Seq(FrameType)
        /\ Len(SubSeq(r, 1, n1)) = n1
        /\ \A i \in 1 .. n1 : SubSeq(r, 1, n1)[i] = r[i]
    BY <2>1, SubSeqProperties
  <2>3. SubSeq(r, 1, n1) = s  BY DEF n1
  <2> QED  BY <2>1, <2>2, <2>3 DEF n1
<1> HIDE DEF s
<1>4. OneMore(s, r)  BY <1>2, <1>3 DEF OneMore
<1>5. /\ f.kind = "ticket" => TicketsIn(r) = TicketsIn(s) \cup {Len(s) + 1}
      /\ f.kind # "ticket" => TicketsIn(r) = TicketsIn(s)
      /\ IsFiniteSet(TicketsIn(s)) /\ Len(s) + 1 \notin TicketsIn(s)
      /\ TicketsIn(s) \subseteq 1 .. Len(s)
  BY <1>1, <1>3, <1>4, TicketsBelow
<1>6. \A i \in 1 .. Len(s) : FrameRight(s, i, on)  BY <1>1, <1>2, <1>3, <1>4, SameBelow
<1>7. \A j : Nearest(s, Len(s) + 1, j) <=> Nearest(r, Len(r), j)  BY <1>1, <1>2, <1>3, <1>4, SameBelow
<1>8. CASE f.kind = "ticket"
  <2>1. f.prev \in Nat /\ Nearest(r, Len(r), f.prev)
    <3>1. FrameRight(r, Len(r), on)  BY <1>1, <1>2
    <3> QED  BY <1>8, <3>1 DEF FrameRight
  <2>2. n - 1 = Cardinality(TicketsIn(s))
    <3>1. Cardinality(TicketsIn(s)) \in Nat /\ Cardinality(TicketsIn(r)) = Cardinality(TicketsIn(s)) + 1
      BY <1>5, <1>8, FS_AddElement, FS_CardinalityType
    <3> QED  BY <1>1, <3>1
  <2>3. StackRight(s, f.prev, n - 1, on)  BY <1>1, <1>3, <1>6, <1>7, <2>1, <2>2 DEF StackRight
  <2> QED  BY <1>8, <2>3 DEF s
<1>9. CASE f.kind # "ticket"
  <2>1. Nearest(r, Len(r), c)
    <3>1. \A l \in TicketsIn(r) : l < Len(r) + 1 => l < Len(r)
      BY <1>2, <1>3, <1>5, <1>9
    <3>2. c < Len(r)  BY <1>1, <1>2, <3>1 DEF Nearest
    <3> QED  BY <1>1, <1>2, <1>3, <1>5, <3>1, <3>2 DEF Nearest
  <2>2. StackRight(s, c, n, on)  BY <1>1, <1>3, <1>5, <1>6, <1>7, <1>9, <2>1 DEF StackRight
  <2> QED  BY <1>9, <2>2 DEF s
<1> QED  BY <1>8, <1>9

LEMMA TicketInit == V!Init => TicketInv
<1> SUFFICES ASSUME V!Init PROVE TicketInv
    OBVIOUS
<1>1. /\ stack = [t \in Thread |-> <<>>] /\ current = [t \in Thread |-> 0]
      /\ attached = [t \in Thread |-> 0] /\ exc = [t \in Thread |-> FALSE] /\ running = TRUE
  BY DEF V!Init
<1>2. StackRight(<<>>, 0, 0, running)
  <2>1. <<>> \in Seq(FrameType) /\ Len(<<>>) = 0  BY EmptySeq
  <2>2. TicketsIn(<<>>) = {}  BY <2>1 DEF TicketsIn
  <2>3. Nearest(<<>>, Len(<<>>) + 1, 0)  BY <2>1, <2>2 DEF Nearest
  <2>4. Cardinality(TicketsIn(<<>>)) = 0  BY <2>2, FS_EmptySet
  <2>5. \A i \in 1 .. Len(<<>>) : FALSE  BY <2>1
  <2>6. 0 \in Nat /\ 0 \in Int  OBVIOUS
  <2> QED  BY <2>1, <2>3, <2>4, <2>5, <2>6, Zenon DEF StackRight
<1>3. <<>> \in Seq(FrameType)  BY EmptySeq
<1>4. /\ stack \in [Thread -> Seq(FrameType)] /\ current \in [Thread -> Nat]
      /\ attached \in [Thread -> Int] /\ exc \in [Thread -> BOOLEAN] /\ running \in BOOLEAN
  BY <1>1, <1>3
<1>5. \A t \in Thread : stack[t] = <<>> /\ current[t] = 0 /\ attached[t] = 0  BY <1>1
<1> QED  BY <1>2, <1>4, <1>5 DEF TicketInv

Switched(t, s, c, n) ==
    /\ stack' = [stack EXCEPT ![t] = s] /\ current' = [current EXCEPT ![t] = c]
    /\ attached' = [attached EXCEPT ![t] = n] /\ exc' \in [Thread -> BOOLEAN]
    /\ running' = running
LEMMA ThreadMoved ==
    ASSUME TicketInv, NEW t \in Thread, NEW s, NEW c, NEW n, StackRight(s, c, n, running),
           Switched(t, s, c, n)
    PROVE  TicketInv'
<1>1. s \in Seq(FrameType) /\ c \in Nat /\ n \in Int  BY DEF StackRight
<1>2. /\ stack' \in [Thread -> Seq(FrameType)] /\ current' \in [Thread -> Nat]
      /\ attached' \in [Thread -> Int] /\ running' \in BOOLEAN
  BY <1>1 DEF TicketInv, Switched
<1>4. running' = running /\ exc' \in [Thread -> BOOLEAN]  BY DEF Switched
<1>3. \A u \in Thread : StackRight(stack'[u], current'[u], attached'[u], running')
  <2> TAKE u \in Thread
  <2>1. CASE u = t
    <3>1. stack'[u] = s /\ current'[u] = c /\ attached'[u] = n  BY <2>1 DEF TicketInv, Switched
    <3> QED  BY <3>1, <1>4
  <2>2. CASE u # t
    <3>1. stack'[u] = stack[u] /\ current'[u] = current[u] /\ attached'[u] = attached[u]
      BY <2>2 DEF TicketInv, Switched
    <3>2. StackRight(stack[u], current[u], attached[u], running)  BY DEF TicketInv
    <3> QED  BY <1>4, <3>1, <3>2
  <2> QED  BY <2>1, <2>2
<1> QED  BY <1>2, <1>3, <1>4 DEF TicketInv, StackRight, FrameRight, Delivers

LEMMA TicketBase ==
    ASSUME TicketInv, NEW t \in Thread, NEW o \in Self, NEW k \in Method, V!ToBase(t, o, k),
           current' = current, attached' = attached, running' = running,
           Delivers(stack[t], V!Frame("base", o, k, 0), current[t], running)
    PROVE  TicketInv'
<1>1. /\ StackRight(stack[t], current[t], attached[t], running)
      /\ stack \in [Thread -> Seq(FrameType)] /\ exc \in [Thread -> BOOLEAN]
      /\ current' = [current EXCEPT ![t] = current[t]]
      /\ attached' = [attached EXCEPT ![t] = attached[t]]
  BY DEF TicketInv
<1>2. CASE k \in Pure
  <2>1. stack' = [stack EXCEPT ![t] = stack[t]] /\ exc' \in [Thread -> BOOLEAN]
    BY <1>1, <1>2 DEF V!ToBase
  <2>2. Switched(t, stack[t], current[t], attached[t])  BY <1>1, <2>1 DEF Switched
  <2> QED  BY <1>1, <2>2, ThreadMoved
<1>3. CASE k \notin Pure
  <2>1. /\ stack' = [stack EXCEPT ![t] = Append(stack[t], V!Frame("base", o, k, 0))]
        /\ exc' \in [Thread -> BOOLEAN]
    BY <1>1, <1>3 DEF V!ToBase
  <2>2. StackRight(Append(stack[t], V!Frame("base", o, k, 0)), current[t], attached[t], running)
    BY <1>1, BasePushed
  <2>3. Switched(t, Append(stack[t], V!Frame("base", o, k, 0)), current[t], attached[t])
    BY <1>1, <2>1 DEF Switched
  <2> QED  BY <2>2, <2>3, ThreadMoved
<1> QED  BY <1>2, <1>3

LEMMA EnterInv ==
    ASSUME TicketInv, NEW t \in Thread, NEW o \in Self, NEW k \in Method, V!Enter(t, o, k)
    PROVE  TicketInv'
<1>1. /\ StackRight(stack[t], current[t], attached[t], running) /\ running' = running
      /\ attached \in [Thread -> Int] /\ attached[t] \in Int
      /\ exc \in [Thread -> BOOLEAN] /\ running \in BOOLEAN
  BY DEF TicketInv, V!Enter
<1>2. V!Frame("base", o, k, 0) = [kind |-> "base", self |-> o, key |-> k, prev |-> 0]
  BY DEF V!Frame
<1>3. V!Same(t, o, k) <=> Called(stack[t], V!Frame("base", o, k, 0), current[t])
  BY <1>2 DEF V!Same, V!SameMethod, Called
<1>4. CASE <<o, k>> \notin Overrides \/ ~running
  <2>1. V!ToBase(t, o, k) /\ current' = current /\ attached' = attached
    BY <1>4 DEF V!Enter
  <2>2. Delivers(stack[t], V!Frame("base", o, k, 0), current[t], running)
    BY <1>2, <1>4 DEF Delivers
  <2> QED  BY <1>1, <2>1, <2>2, TicketBase
<1>5. CASE <<o, k>> \in Overrides /\ running /\ V!Same(t, o, k)
  <2>1. /\ V!ToBase(t, o, k) /\ current' = current
        /\ attached' = [attached EXCEPT ![t] = V!Detached(attached[t] + 1)]
    BY <1>5 DEF V!Enter
  <2>2. attached' = attached  BY <1>1, <2>1 DEF V!Detached
  <2>3. Delivers(stack[t], V!Frame("base", o, k, 0), current[t], running)
    BY <1>2, <1>3, <1>5 DEF Delivers
  <2> QED  BY <1>1, <2>1, <2>2, <2>3, TicketBase
<1>6. CASE <<o, k>> \in Overrides /\ running /\ ~V!Same(t, o, k)
  <2> DEFINE f == V!Frame("ticket", o, k, current[t])
  <2>1. /\ stack' = [stack EXCEPT ![t] = Append(@, f)]
        /\ current' = [current EXCEPT ![t] = Len(stack[t]) + 1]
        /\ attached' = [attached EXCEPT ![t] = attached[t] + 1] /\ exc' = exc
    BY <1>6 DEF V!Enter
  <2>2. ~Called(stack[t], f, current[t])
    BY <1>2, <1>3, <1>6 DEF Called, V!Frame
  <2>3. StackRight(Append(stack[t], f), Len(stack[t]) + 1, attached[t] + 1, running)
    BY <1>1, <2>2, TicketPushed
  <2>4. stack' = [stack EXCEPT ![t] = Append(stack[t], f)]  BY <2>1 DEF TicketInv
  <2>5. Switched(t, Append(stack[t], f), Len(stack[t]) + 1, attached[t] + 1)
    BY <1>1, <2>1, <2>4 DEF Switched
  <2> QED  BY <2>3, <2>5, ThreadMoved
<1> QED  BY <1>4, <1>5, <1>6

LEMMA LeaveInv == ASSUME TicketInv, NEW t \in Thread, V!Leave(t) PROVE TicketInv'
<1> DEFINE r == stack[t]
           s == SubSeq(r, 1, Len(r) - 1)
<1>1. /\ StackRight(r, current[t], attached[t], running) /\ running' = running /\ exc' = exc
      /\ attached \in [Thread -> Int] /\ current \in [Thread -> Nat]
      /\ exc \in [Thread -> BOOLEAN] /\ r # <<>> /\ stack' = [stack EXCEPT ![t] = s]
  BY DEF TicketInv, V!Leave
<1>2. /\ r[Len(r)].kind = "ticket" => StackRight(s, r[Len(r)].prev, attached[t] - 1, running)
      /\ r[Len(r)].kind # "ticket" => StackRight(s, current[t], attached[t], running)
  BY <1>1, FramePopped
<1>3. CASE r[Len(r)].kind = "ticket"
  <2>1. /\ current' = [current EXCEPT ![t] = r[Len(r)].prev]
        /\ attached' = [attached EXCEPT ![t] = attached[t] - 1]
    BY <1>1, <1>3 DEF V!Leave, V!Leaves
  <2>2. Switched(t, s, r[Len(r)].prev, attached[t] - 1)  BY <1>1, <2>1 DEF Switched
  <2> QED  BY <1>2, <1>3, <2>2, ThreadMoved
<1>4. CASE r[Len(r)].kind # "ticket"
  <2>1. /\ current' = [current EXCEPT ![t] = current[t]]
        /\ attached' = [attached EXCEPT ![t] = attached[t]]
    BY <1>1, <1>4 DEF V!Leave, V!Leaves
  <2>2. Switched(t, s, current[t], attached[t])  BY <1>1, <2>1 DEF Switched
  <2> QED  BY <1>2, <1>4, <2>2, ThreadMoved
<1> QED  BY <1>3, <1>4

LEMMA TicketStep == ASSUME TicketInv, [V!Next]_(V!tkVars) PROVE TicketInv'
<1>1. ASSUME NEW t \in Thread, V!Catch(t) PROVE TicketInv'
  BY <1>1 DEF V!Catch, TicketInv, StackRight, FrameRight, Delivers
<1>2. ASSUME V!Finalize PROVE TicketInv'
  <2>1. \A t \in Thread : StackRight(stack[t], current[t], attached[t], FALSE)
    BY DEF TicketInv, StackRight, FrameRight, Delivers
  <2>2. /\ running' = FALSE /\ stack' = stack /\ current' = current /\ attached' = attached
        /\ exc' = exc
    BY <1>2 DEF V!Finalize
  <2>3. \A t \in Thread : StackRight(stack'[t], current'[t], attached'[t], running')
    BY <2>1, <2>2
  <2> QED  BY <2>2, <2>3 DEF TicketInv
<1>3. CASE UNCHANGED V!tkVars
  BY <1>3 DEF V!tkVars, TicketInv, StackRight, FrameRight, Delivers
<1> QED  BY <1>1, <1>2, <1>3, EnterInv, LeaveInv DEF V!Next

LEMMA TicketAnswer == TicketInv => V!ChainRight /\ V!Delivered /\ V!Balanced
<1> SUFFICES ASSUME TicketInv PROVE V!ChainRight /\ V!Delivered /\ V!Balanced
    OBVIOUS
<1>1. ASSUME NEW t \in Thread
      PROVE  /\ StackRight(stack[t], current[t], attached[t], running)
             /\ V!Tickets(t) = TicketsIn(stack[t])
             /\ \A i \in Nat : \A j : Nearest(stack[t], i, j) => V!Below(t, i) = j
  <2>1. StackRight(stack[t], current[t], attached[t], running)  BY DEF TicketInv
  <2>2. V!Tickets(t) = TicketsIn(stack[t])  BY DEF V!Tickets, TicketsIn
  <2>3. ASSUME NEW i \in Nat, NEW j, Nearest(stack[t], i, j) PROVE V!Below(t, i) = j
    <3> DEFINE T == TicketsIn(stack[t])
               P(l) == l < i /\ \A m \in T : m < i => m <= l
    <3>1. \A l \in T \cup {0} : P(l) <=> Nearest(stack[t], i, l)  BY DEF Nearest
    <3>2. j \in T \cup {0} /\ P(j)  BY <2>3 DEF Nearest
    <3>3. \A l \in T \cup {0} : P(l) => l = j
      BY <2>1, <2>3, <3>1, NearestOne DEF StackRight
    <3>4. (CHOOSE l \in T \cup {0} : P(l)) = j  BY <3>2, <3>3
    <3>5. V!Below(t, i) = CHOOSE l \in T \cup {0} : P(l)  BY <2>2 DEF V!Below
    <3> QED  BY <3>4, <3>5
  <2> QED  BY <2>1, <2>2, <2>3
<1>2. \A t \in Thread : /\ Len(stack[t]) \in Nat /\ TicketsIn(stack[t]) \subseteq 1 .. Len(stack[t])
  BY LenProperties DEF TicketInv, TicketsIn
<1>3. V!ChainRight
  <2> SUFFICES ASSUME NEW t \in Thread
               PROVE  /\ current[t] = V!Below(t, Len(stack[t]) + 1)
                      /\ \A i \in V!Tickets(t) : stack[t][i].prev = V!Below(t, i)
      BY Zenon DEF V!ChainRight
  <2>1. current[t] = V!Below(t, Len(stack[t]) + 1)
    <3>1. Len(stack[t]) + 1 \in Nat  BY <1>2
    <3>2. Nearest(stack[t], Len(stack[t]) + 1, current[t])  BY <1>1 DEF StackRight
    <3>3. V!Below(t, Len(stack[t]) + 1) = current[t]  BY <1>1, <3>1, <3>2, Zenon
    <3> QED  BY <3>3
  <2>2. ASSUME NEW i \in V!Tickets(t) PROVE stack[t][i].prev = V!Below(t, i)
    <3>1. i \in TicketsIn(stack[t]) /\ i \in 1 .. Len(stack[t]) /\ i \in Nat  BY <1>1, <1>2
    <3>2. FrameRight(stack[t], i, running)  BY <1>1, <3>1 DEF StackRight
    <3> QED  BY <1>1, <3>1, <3>2 DEF FrameRight, TicketsIn
  <2> QED  BY <2>1, <2>2
<1>4. V!Delivered
  <2> SUFFICES ASSUME NEW t \in Thread, NEW i \in 1 .. Len(stack[t]), running,
                      <<stack[t][i].self, stack[t][i].key>> \in Overrides
               PROVE  stack[t][i].kind = "base" <=> Called(stack[t], stack[t][i], V!Below(t, i))
      BY Zenon DEF V!Delivered, Called
  <2>1. i \in Nat  BY <1>2
  <2>2. FrameRight(stack[t], i, running)  BY <1>1 DEF StackRight
  <2> QED  BY <1>1, <2>1, <2>2 DEF FrameRight, Delivers
<1>5. V!Balanced
  <2>1. \A t \in Thread : attached[t] = Cardinality(V!Tickets(t))  BY <1>1 DEF StackRight
  <2> QED  BY <2>1 DEF V!Balanced, V!Cardinality, Cardinality
<1> QED  BY <1>3, <1>4, <1>5

\* However virtual calls nest, unwind and race with the end of the interpreter, on any
\* number of threads and to any depth: the tickets of a thread are chained in the order of
\* its stack, an override that calls its base method reaches it, and no other call does,
\* and every attachment is released (trampoline.cpp:371-407).
THEOREM TicketsRight == V!Spec => [](V!ChainRight /\ V!Delivered /\ V!Balanced)
<1>1. TicketInv /\ [V!Next]_(V!tkVars) => TicketInv'  BY TicketStep
<1> QED  BY <1>1, TicketInit, TicketAnswer, PTL DEF V!Spec
=============================================================================
