---------------------------- MODULE RuntimeProofs ----------------------------
(* What the proofs about single components say of the runtime as a whole: a part *)
(* of a behaviour of MCRuntime is a behaviour of the component it is about.       *)
(* MCRuntime and the proofs instantiate each component: once the definitions are  *)
(* expanded, the formulas of both instances are the same.                         *)
EXTENDS MCRuntime, FiniteSetTheorems, TLAPS

UniqueP == INSTANCE UniqueOwnershipProofs WITH
    Heap <- Two, Inst <- Three, Slot <- {"p1", "p2", "p3"}, Nil <- Nil, Alias <- FALSE,
    alive <- s1, wrap <- s2, ptrs <- s3, held <- s4, call <- s5, aborted <- s6

SharedP == INSTANCE SharedHoldersProofs WITH
    Obj <- {"o1", "o2"}, Esft <- {"o1"}, Cb <- Three, MaxHeld <- 2, None <- Nil,
    life <- s1, inst <- s2, user <- s3, cb <- s4, weak <- s5, alive <- s6

HolderP == INSTANCE HolderProofs WITH
    Fn <- Two, Holder <- Three, MaxUser <- 2, Free <- Nil, Null <- Odd,
    f <- s1, user <- s2, refs <- s3, alive <- s4,
    Inst <- Three, Cell <- Two, Alias <- FALSE, Detach <- FALSE, None <- Nil,
    inst <- s1, live <- s2, cpp <- s3,
    Handle <- Two, Tensor <- Pair, Obj <- Three, MaxCopies <- 2,
    handle <- s1, tensor <- s2, obj <- s3, counts <- s4, held <- s5, import <- s6, aborted <- s7,
    Acc <- {"a1", "a2", "a3"}, Rereads <- {"a3"}, Reused <- {"a3"}, MaxVal <- 3, MaxHeld <- 1,
    stored <- s1, want <- s2, cache <- s3, life <- s4, taken <- s5, totals <- s6,
    Passed <- Two, Kwd <- Pair, MaxEntries <- 2, operands <- s1, tally <- s2, ongoing <- s3,
    Item <- Three, Capacity <- 2, Borrowing <- {"tuple"},
    source <- s1, shares <- s2, casting <- s3

TableP == INSTANCE TableProofs WITH
    Rec <- {"r1", "r2", "r3"}, Module <- {"m1", "m2"}, Importer <- {"t1", "t2"},
    NoRec <- Nil, Overlap <- FALSE,
    domain <- s1, rec <- s2, state <- s3, bound <- s4, imp <- s5, exited <- s6,
    Caller <- {"t1", "t2"}, Addr <- {"p", "q"}, Text <- {"x", "y"}, Value <- {"v", "w"},
    Home <- [a \in {"p", "q"} |-> IF a = "p" THEN 0 ELSE 1], Empty <- Nil,
    chars <- s1, slots <- s2, import <- s3, attr <- s4, refs <- s5, lifeline <- s6, torn <- s7, call <- s8,
    Type <- {"T", "U"}, Info <- {"p1", "p2", "p3"},
    TypeOf <- [i \in {"p1", "p2", "p3"} |-> IF i = "p3" THEN "U" ELSE "T"], Mem <- Three,
    User <- {"u1", "u2"}, MainUser <- "u1", Features <- {"intrusive", "pooled", "final"},
    NoMem <- Nil,
    ft <- s1, slow <- s2, fast <- s3, types <- s4, pending <- s5, filling <- s6, counted <- s7, aborted <- s8,
    Thread <- {"t1", "t2"}, Carrier <- {"e1", "e2"}, Exc <- {"v1", "v2"}, Absent <- Nil,
    indicator <- s1, payload <- s2, buffers <- s3, excs <- s4, cause <- s5, what <- s6, alive <- s7,
    Node <- Three, Walker <- Two, End <- Nil,
    head <- s1, next <- s2, adding <- s3, walk <- s4, order <- s5,
    Shape <- Overloads, PosArgs <- PosCalls, KwArgs <- KwCalls, MaxSimple <- 2, MaxOverloads <- 2,
    overloads <- s1, complexity <- s2, arrived <- s3, temps <- s4, inst <- s5,
    Self <- {"o1", "o2"}, Method <- {"k1", "k2"},
    Overrides <- {<<"o1", "k1">>, <<"o2", "k1">>, <<"o1", "k2">>}, Pure <- {"k2"}, MaxDepth <- 3,
    stack <- s1, current <- s2, attached <- s3, exc <- s4, running <- s5

-----------------------------------------------------------------------------
(* nb_internals.                                                                 *)

LEMMA InternalsConstants == TableP!IntLegal
<1>1. IsFiniteSet({"m1", "m2"})
  <2>1. IsFiniteSet({"m1"} \cup {"m2"})  BY FS_Singleton, FS_AddElement
  <2> QED  BY <2>1, {"m1", "m2"} = {"m1"} \cup {"m2"}
<1> QED  BY <1>1, RuntimeAssumption DEF TableP!IntLegal, IsFiniteSet, TableP!IsFiniteSet

LEMMA InternalsInit == Internals!Init => TableP!IntInv
<1>1. Internals!Init => TableP!I!Init
  BY DEF Internals!Init, TableP!I!Init, Internals!Idle, TableP!I!Idle
<1> QED  BY <1>1, InternalsConstants, TableP!IntInit

LEMMA InternalsNext == Internals!Next => TableP!I!Next
BY Zenon
DEF Internals!Step, TableP!I!Step, Internals!Done, TableP!I!Done, Internals!Idle,
    TableP!I!Idle, Internals!Runs, TableP!I!Runs, Internals!Unbroken, TableP!I!Unbroken,
    Internals!At, TableP!I!At, Internals!Between, TableP!I!Between, Internals!DecRef,
    TableP!I!DecRef, Internals!Count, TableP!I!Count, Internals!Begin, TableP!I!Begin,
    Internals!InitTypes, TableP!I!InitTypes, Internals!Publish, TableP!I!Publish,
    Internals!CountPublished, TableP!I!CountPublished, Internals!Discard,
    TableP!I!Discard, Internals!DiscardedRec, TableP!I!DiscardedRec,
    Internals!PublishFails, TableP!I!PublishFails, Internals!Join, TableP!I!Join,
    Internals!Build, TableP!I!Build, Internals!CountJoined, TableP!I!CountJoined,
    Internals!Exec, TableP!I!Exec, Internals!Reset, TableP!I!Reset, Internals!Unload,
    TableP!I!Unload, Internals!Release, TableP!I!Release, Internals!Exit, TableP!I!Exit,
    Internals!Leaked, TableP!I!Leaked, Internals!Next, TableP!I!Next

LEMMA InternalsStep == TableP!IntInv /\ (Internals!Next \/ UNCHANGED vars) => TableP!IntInv'
<1>1. UNCHANGED vars => UNCHANGED TableP!I!lifetimeVars  BY DEF vars, TableP!I!lifetimeVars
<1> QED  BY <1>1, InternalsNext, InternalsConstants, TableP!IntStep

LEMMA InternalsShared ==
    TableP!IntInv => Internals!Ready /\ Internals!NoLeak /\ Internals!OneRecord
<1> SUFFICES ASSUME TableP!IntInv
             PROVE  Internals!Ready /\ Internals!NoLeak /\ Internals!OneRecord
    OBVIOUS
<1>1. TableP!I!Ready /\ TableP!I!NoLeak /\ TableP!I!OneRecord
  BY InternalsConstants, TableP!IntReady, TableP!IntNoLeak DEF TableP!IntInv
<1>2. Internals!Ready  BY <1>1 DEF TableP!I!Ready, Internals!Ready
<1>3. Internals!NoLeak
  BY <1>1 DEF TableP!I!NoLeak, Internals!NoLeak, TableP!I!Quiet, Internals!Quiet,
              TableP!I!Users, Internals!Users
<1>4. Internals!OneRecord  BY <1>1 DEF TableP!I!OneRecord, Internals!OneRecord
<1> QED  BY <1>2, <1>3, <1>4

-----------------------------------------------------------------------------
(* The caches of strings and imports.                                            *)

LEMMA CachesConstants == TableP!CacheLegal
<1>1. IsFiniteSet({"t1", "t2"})
  <2>1. IsFiniteSet({"t1"} \cup {"t2"})  BY FS_Singleton, FS_AddElement
  <2> QED  BY <2>1, {"t1", "t2"} = {"t1"} \cup {"t2"}
<1>2. TableP!IsFiniteSet({"t1", "t2"})  BY <1>1 DEF IsFiniteSet, TableP!IsFiniteSet
<1>3. [a \in {"p", "q"} |-> IF a = "p" THEN 0 ELSE 1] \in [{"p", "q"} -> 0 .. 1]
  OBVIOUS
<1> QED  BY <1>2, <1>3, RuntimeAssumption DEF TableP!CacheLegal, TableP!K!Object

LEMMA CachesInit == Caches!Init => TableP!CacheInv
<1>1. Caches!Init => TableP!K!Init
  BY DEF Caches!Init, TableP!K!Init, Caches!Object, TableP!K!Object, Caches!NoEntry,
         TableP!K!NoEntry, Caches!NoCall, TableP!K!NoCall
<1> QED  BY <1>1, CachesConstants, TableP!CacheInit

LEMMA CachesNext == Caches!Next => TableP!K!Next
BY Zenon
DEF Caches!Object, TableP!K!Object, Caches!NoEntry, TableP!K!NoEntry, Caches!NoCall,
    TableP!K!NoCall, Caches!Add, TableP!K!Add, Caches!Goto, TableP!K!Goto, Caches!Return,
    TableP!K!Return, Caches!Matching, TableP!K!Matching, Caches!Ask, TableP!K!Ask,
    Caches!Probe, TableP!K!Probe, Caches!Plain, TableP!K!Plain, Caches!Intern,
    TableP!K!Intern, Caches!Fill, TableP!K!Fill, Caches!Release, TableP!K!Release,
    Caches!Get, TableP!K!Get, Caches!Import, TableP!K!Import, Caches!Store,
    TableP!K!Store, Caches!Teardown, TableP!K!Teardown, Caches!Rebuild, TableP!K!Rebuild,
    Caches!Reuse, TableP!K!Reuse, Caches!Patch, TableP!K!Patch, Caches!Next, TableP!K!Next

LEMMA CachesStep == TableP!CacheInv /\ (Caches!Next \/ UNCHANGED vars) => TableP!CacheInv'
<1>1. UNCHANGED vars => UNCHANGED TableP!K!cacheVars  BY DEF vars, TableP!K!cacheVars
<1> QED  BY <1>1, CachesNext, CachesConstants, TableP!CacheNext

LEMMA CachesAnswer ==
    TableP!CacheInv => /\ Caches!RightText /\ Caches!BorrowedAlive
                       /\ Caches!CacheRefsExact /\ Caches!NoTwins
<1> SUFFICES ASSUME TableP!CacheInv
             PROVE  /\ Caches!RightText /\ Caches!BorrowedAlive
                    /\ Caches!CacheRefsExact /\ Caches!NoTwins
    OBVIOUS
<1> USE DEF Caches!Object, TableP!K!Object, Caches!NoEntry, TableP!K!NoEntry
<1>1. /\ TableP!K!RightText /\ TableP!K!BorrowedAlive
      /\ TableP!K!CacheRefsExact /\ TableP!K!NoTwins
  BY CachesConstants, TableP!CacheText, TableP!CacheBorrowed, TableP!CacheCounts,
     TableP!CacheTwins
<1>2. Caches!RightText  BY <1>1 DEF TableP!K!RightText, Caches!RightText
<1>3. Caches!BorrowedAlive  BY <1>1 DEF TableP!K!BorrowedAlive, Caches!BorrowedAlive
<1>4. Caches!CacheRefsExact
  BY <1>1 DEF TableP!K!CacheRefsExact, Caches!CacheRefsExact, TableP!K!Owners, Caches!Owners,
              TableP!K!Cardinality, Caches!Cardinality
<1>5. Caches!NoTwins
  BY <1>1 DEF TableP!K!NoTwins, Caches!NoTwins, TableP!K!Cardinality, Caches!Cardinality
<1> QED  BY <1>2, <1>3, <1>4, <1>5

-----------------------------------------------------------------------------
(* The registry of types.                                                        *)

LEMMA RegistryConstants == TableP!RegLegal
<1>1. TableP!IsFiniteSet(Three)  BY RuntimeAssumption DEF IsFiniteSet, TableP!IsFiniteSet
<1>2. [i \in {"p1", "p2", "p3"} |-> IF i = "p3" THEN "U" ELSE "T"]
          \in [{"p1", "p2", "p3"} -> {"T", "U"}]
  OBVIOUS
<1> QED  BY <1>1, <1>2, RuntimeAssumption DEF TableP!RegLegal, TableP!G!Placeholder

LEMMA RegistryInit == Registry!Init => TableP!RegInv
<1>1. Registry!Init => TableP!G!Init
  BY DEF Registry!Init, TableP!G!Init, Registry!Free, TableP!G!Free, Registry!Idle,
         TableP!G!Idle
<1> QED  BY <1>1, RegistryConstants, TableP!RegInit

LEMMA RegistryNext == Registry!Next => TableP!G!Next
BY Zenon
DEF Registry!Placeholder, TableP!G!Placeholder, Registry!Free, TableP!G!Free,
    Registry!Idle, TableP!G!Idle, Registry!Cache, TableP!G!Cache, Registry!Erased,
    TableP!G!Erased, Registry!Range, TableP!G!Range, Registry!Reserve, TableP!G!Reserve,
    Registry!Lookup, TableP!G!Lookup, Registry!AddConversion, TableP!G!AddConversion,
    Registry!Assemble, TableP!G!Assemble, Registry!Fill, TableP!G!Fill, Registry!Inherit,
    TableP!G!Inherit, Registry!Publish, TableP!G!Publish, Registry!Record,
    TableP!G!Record, Registry!Intrusive, TableP!G!Intrusive, Registry!Unregister,
    TableP!G!Unregister, Registry!ChainFits, TableP!G!ChainFits, Registry!IsInjective,
    TableP!G!IsInjective, Registry!Dealloc, TableP!G!Dealloc, Registry!Derive,
    TableP!G!Derive, Registry!Registered, TableP!G!Registered, Registry!PoolingRefused,
    TableP!G!PoolingRefused, Registry!Next, TableP!G!Next

LEMMA RegistryStep == TableP!RegInv /\ (Registry!Next \/ UNCHANGED vars) => TableP!RegInv'
<1>1. UNCHANGED vars => UNCHANGED TableP!G!registryVars  BY DEF vars, TableP!G!registryVars
<1> QED  BY <1>1, RegistryNext, RegistryConstants, TableP!RegNext

LEMMA RegistryAnswer ==
    TableP!RegInv => /\ Registry!FastRight /\ Registry!UnregisterComplete
                     /\ Registry!Inherited /\ Registry!TypesCounted
<1> SUFFICES ASSUME TableP!RegInv
             PROVE  /\ Registry!FastRight /\ Registry!UnregisterComplete
                    /\ Registry!Inherited /\ Registry!TypesCounted
    OBVIOUS
<1>1. /\ TableP!G!FastRight /\ TableP!G!UnregisterComplete
      /\ TableP!G!Inherited /\ TableP!G!TypesCounted
  BY RegistryConstants, TableP!RegAnswer
<1>2. Registry!Registered = TableP!G!Registered
  BY DEF Registry!Registered, TableP!G!Registered
<1>3. Registry!FastRight  BY <1>1 DEF TableP!G!FastRight, Registry!FastRight
<1>4. Registry!UnregisterComplete
  BY <1>1 DEF TableP!G!UnregisterComplete, Registry!UnregisterComplete
<1>5. Registry!Inherited  BY <1>1, <1>2 DEF TableP!G!Inherited, Registry!Inherited
<1>6. Registry!TypesCounted
  BY <1>1, <1>2 DEF TableP!G!TypesCounted, Registry!TypesCounted, TableP!G!Cardinality,
                    Registry!Cardinality
<1> QED  BY <1>3, <1>4, <1>5, <1>6

-----------------------------------------------------------------------------
(* std::unique_ptr.                                                              *)

LEMMA UniqueConstants == UniqueP!ConstantsApart
BY RuntimeAssumption DEF UniqueP!ConstantsApart, UniqueP!Cpp

LEMMA UniqueInit == Unique!Init => UniqueP!IInv
<1>1. Unique!Init => UniqueP!Init
  BY DEF Unique!Init, UniqueP!Init, Unique!NoInst, UniqueP!NoInst, Unique!NoPtr, UniqueP!NoPtr,
         Unique!NoCall, UniqueP!NoCall
<1> QED  BY <1>1, UniqueConstants, UniqueP!InitIInv

LEMMA UniqueNext == Unique!Next => UniqueP!Next
BY Zenon
DEF Unique!NoInst, UniqueP!NoInst, Unique!NoPtr, UniqueP!NoPtr, Unique!NoCall,
    UniqueP!NoCall, Unique!Cpp, UniqueP!Cpp, Unique!Arg, UniqueP!Arg, Unique!Casting,
    UniqueP!Casting, Unique!Pointer, UniqueP!Pointer, Unique!Construct, UniqueP!Construct,
    Unique!Drop, UniqueP!Drop, Unique!Sweep, UniqueP!Sweep, Unique!Swept, UniqueP!Swept,
    Unique!Destroyed, UniqueP!Destroyed, Unique!Pinned, UniqueP!Pinned, Unique!Range,
    UniqueP!Range, Unique!Delete, UniqueP!Delete, Unique!Deleted, UniqueP!Deleted,
    Unique!CastDirect, UniqueP!CastDirect, Unique!Relinquishable, UniqueP!Relinquishable,
    Unique!Relinquished, UniqueP!Relinquished, Unique!Make, UniqueP!Make, Unique!Refer,
    UniqueP!Refer, Unique!At, UniqueP!At, Unique!Return, UniqueP!Return,
    Unique!Finalizable, UniqueP!Finalizable, Unique!Owning, UniqueP!Owning, Unique!Begin,
    UniqueP!Begin, Unique!CanCast, UniqueP!CanCast, Unique!Refused, UniqueP!Refused,
    Unique!Restored, UniqueP!Restored, Unique!InFlight, UniqueP!InFlight, Unique!Made,
    UniqueP!Made, Unique!Succeed, UniqueP!Succeed, Unique!Ready, UniqueP!Ready,
    Unique!IsInjective, UniqueP!IsInjective, Unique!Fail, UniqueP!Fail, Unique!Next,
    UniqueP!Next

LEMMA UniqueStep == UniqueP!IInv /\ (Unique!Next \/ UNCHANGED vars) => UniqueP!IInv'
<1>1. UNCHANGED vars => UNCHANGED UniqueP!ownershipVars
  BY DEF vars, UniqueP!ownershipVars
<1> QED  BY <1>1, UniqueNext, UniqueConstants, UniqueP!StepIInv

LEMMA UniqueOwned == UniqueP!IInv => /\ Unique!OneOwner /\ Unique!ReturnWorks
                                     /\ Unique!FailedCallGivesBack /\ Unique!ReadyExclusive
<1> SUFFICES ASSUME UniqueP!IInv PROVE /\ Unique!OneOwner /\ Unique!ReturnWorks
                                       /\ Unique!FailedCallGivesBack /\ Unique!ReadyExclusive
    OBVIOUS
<1>1. Unique!OneOwner
  <2>1. UniqueP!OneOwner  BY UniqueConstants, UniqueP!IInvOneOwner
  <2> QED
    BY <2>1 DEF UniqueP!OneOwner, Unique!OneOwner, UniqueP!Owners, Unique!Owners,
                UniqueP!InFlight, Unique!InFlight, UniqueP!Cpp, Unique!Cpp,
                UniqueP!Cardinality, Unique!Cardinality
<1>2. Unique!ReturnWorks  BY DEF UniqueP!IInv, Unique!ReturnWorks
<1>3. Unique!FailedCallGivesBack
  <2>1. UniqueP!FailedCallGivesBack  BY UniqueP!IInvFailed
  <2> QED  BY <2>1 DEF UniqueP!FailedCallGivesBack, Unique!FailedCallGivesBack,
                       UniqueP!Range, Unique!Range
<1>4. Unique!ReadyExclusive
  <2>1. UniqueP!ReadyExclusive  BY UniqueConstants, UniqueP!IInvReady
  <2> QED  BY <2>1 DEF UniqueP!ReadyExclusive, Unique!ReadyExclusive
<1> QED  BY <1>1, <1>2, <1>3, <1>4

-----------------------------------------------------------------------------
(* std::shared_ptr.                                                              *)

LEMMA SharedConstants == SharedP!ConstantsLegal
BY RuntimeAssumption DEF SharedP!ConstantsLegal, SharedP!InstRec, SharedP!BlockRec,
   IsFiniteSet, SharedP!IsFiniteSet

LEMMA SharedInit == Shared!Init => SharedP!IInv
<1>1. Shared!Init => SharedP!Init  BY DEF Shared!Init, SharedP!Init
<1> QED  BY <1>1, SharedConstants, SharedP!InitIInv

LEMMA SharedNext == Shared!Next => SharedP!Next
BY Zenon
DEF Shared!Live, SharedP!Live, Shared!HasInst, SharedP!HasInst, Shared!Block,
    SharedP!Block, Shared!Joined, SharedP!Joined, Shared!Guarded, SharedP!Guarded,
    Shared!PyNew, SharedP!PyNew, Shared!Decref, SharedP!Decref, Shared!Released,
    SharedP!Released, Shared!PyDrop, SharedP!PyDrop, Shared!MakeShared,
    SharedP!MakeShared, Shared!FromPython, SharedP!FromPython, Shared!Find, SharedP!Find,
    Shared!FromCpp, SharedP!FromCpp, Shared!Kept, SharedP!Kept, Shared!CppDrop,
    SharedP!CppDrop, Shared!Delete, SharedP!Delete, Shared!Shutdown, SharedP!Shutdown,
    Shared!Next, SharedP!Next

LEMMA SharedStep == SharedP!IInv /\ (Shared!Next \/ UNCHANGED vars) => SharedP!IInv'
<1>1. UNCHANGED vars => UNCHANGED SharedP!shVars  BY DEF vars, SharedP!shVars
<1> QED  BY <1>1, SharedNext, SharedConstants, SharedP!StepIInv

LEMMA SharedOwned == SharedP!IInv => /\ Shared!PointeeAlive /\ Shared!Collected
                                     /\ Shared!OneFamily
<1> SUFFICES ASSUME SharedP!IInv
             PROVE  Shared!PointeeAlive /\ Shared!Collected /\ Shared!OneFamily
    OBVIOUS
<1>1. SharedP!PointeeAlive /\ SharedP!Collected /\ SharedP!OneFamily
  BY SharedConstants, SharedP!IInvPointee, SharedP!IInvCollected, SharedP!IInvFamily
<1>2. Shared!PointeeAlive
  BY <1>1 DEF SharedP!PointeeAlive, Shared!PointeeAlive, SharedP!Live, Shared!Live,
              SharedP!Exists, Shared!Exists
<1>3. Shared!Collected
  BY <1>1 DEF SharedP!Collected, Shared!Collected, SharedP!Exists, Shared!Exists
<1>4. Shared!OneFamily
  BY <1>1 DEF SharedP!OneFamily, Shared!OneFamily, SharedP!Live, Shared!Live
<1> QED  BY <1>2, <1>3, <1>4

-----------------------------------------------------------------------------
(* std::function.                                                                *)

LEMMA CallablesConstants == HolderP!FnLegal
BY RuntimeAssumption DEF HolderP!FnLegal, IsFiniteSet, HolderP!IsFiniteSet

LEMMA CallablesInit == Callables!Init => HolderP!FnInv
<1>1. Callables!Init => HolderP!F!Init  BY DEF Callables!Init, HolderP!F!Init
<1> QED  BY <1>1, CallablesConstants, HolderP!FnInit

LEMMA CallablesNext == Callables!Next => HolderP!F!Next
BY Zenon
DEF Callables!Next, HolderP!F!Next, Callables!FromPython, HolderP!F!FromPython,
    Callables!Copy, HolderP!F!Copy, Callables!Copied, HolderP!F!Copied, Callables!Move,
    HolderP!F!Move, Callables!Destroy, HolderP!F!Destroy, Callables!Guarded,
    HolderP!F!Guarded, Callables!FromCpp, HolderP!F!FromCpp, Callables!PyDrop,
    HolderP!F!PyDrop, Callables!Shutdown, HolderP!F!Shutdown

LEMMA CallablesStep == HolderP!FnInv /\ (Callables!Next \/ UNCHANGED vars) => HolderP!FnInv'
<1>1. UNCHANGED vars => UNCHANGED HolderP!F!fnVars  BY DEF vars, HolderP!F!fnVars
<1> QED  BY <1>1, CallablesNext, CallablesConstants, HolderP!FnStep

LEMMA CallablesOwned == HolderP!FnInv => Callables!FunctionRefsExact
<1>1. HolderP!FnInv => HolderP!F!FunctionRefsExact  BY HolderP!FnExact
<1> QED  BY <1>1 DEF HolderP!F!FunctionRefsExact, Callables!FunctionRefsExact,
                     HolderP!F!Cardinality, Callables!Cardinality

-----------------------------------------------------------------------------
(* nb::inst_*.                                                                   *)

LEMMA ContentsConstants == HolderP!ConLegal
BY RuntimeAssumption DEF HolderP!ConLegal, HolderP!ConRec, HolderP!C!Storage

LEMMA ContentsInit == Contents!Init => HolderP!ConInv
<1>1. Contents!Init => HolderP!C!Init
  BY DEF Contents!Init, HolderP!C!Init, Contents!Storage, HolderP!C!Storage
<1> QED  BY <1>1, HolderP!ConInit

LEMMA ContentsNext == Contents!Next => HolderP!C!Next
BY Zenon
DEF Contents!Is, HolderP!C!Is, Contents!At, HolderP!C!At, Contents!Instance,
    HolderP!C!Instance, Contents!Storage, HolderP!C!Storage, Contents!CppNew,
    HolderP!C!CppNew, Contents!CppDelete, HolderP!C!CppDelete, Contents!Alloc,
    HolderP!C!Alloc, Contents!AllocZero, HolderP!C!AllocZero, Contents!TakeOwnership,
    HolderP!C!TakeOwnership, Contents!Reference, HolderP!C!Reference, Contents!Fill,
    HolderP!C!Fill, Contents!Owned, HolderP!C!Owned, Contents!Destruct,
    HolderP!C!Destruct, Contents!Viewed, HolderP!C!Viewed, Contents!CopyMove,
    HolderP!C!CopyMove, Contents!Emptied, HolderP!C!Emptied, Contents!Keeps,
    HolderP!C!Keeps, Contents!Dealloc, HolderP!C!Dealloc, Contents!Next, HolderP!C!Next

LEMMA ContentsStep == HolderP!ConInv /\ (Contents!Next \/ UNCHANGED vars) => HolderP!ConInv'
<1>1. UNCHANGED vars => UNCHANGED HolderP!C!conVars  BY DEF vars, HolderP!C!conVars
<1> QED  BY <1>1, ContentsNext, ContentsConstants, HolderP!ConStep

LEMMA ContentsOwned == HolderP!ConInv => Contents!ContentsExact /\ Contents!OneDestroyer
<1>1. HolderP!ConInv => HolderP!C!ContentsExact /\ HolderP!C!OneDestroyer
  BY HolderP!ConExact, HolderP!ConOne
<1> USE DEF HolderP!C!At, Contents!At, HolderP!C!Is, Contents!Is, HolderP!C!Storage,
            Contents!Storage
<1>2. HolderP!C!ContentsExact => Contents!ContentsExact
  BY DEF HolderP!C!ContentsExact, Contents!ContentsExact, HolderP!C!Ready, Contents!Ready
<1>3. HolderP!C!OneDestroyer => Contents!OneDestroyer
  BY DEF HolderP!C!OneDestroyer, Contents!OneDestroyer, HolderP!C!Owners, Contents!Owners,
         HolderP!C!Cardinality, Contents!Cardinality
<1> QED  BY <1>1, <1>2, <1>3

-----------------------------------------------------------------------------
(* Arrays.                                                                       *)

LEMMA ArraysConstants == HolderP!ArrLegal
BY RuntimeAssumption DEF HolderP!ArrLegal, IsFiniteSet, HolderP!IsFiniteSet

LEMMA ArraysInit == Arrays!Init => HolderP!ArrInv
<1>1. Arrays!Init => HolderP!N!Init
  BY DEF Arrays!Init, HolderP!N!Init, Arrays!NoHandle, HolderP!N!NoHandle, Arrays!NoTensor,
         HolderP!N!NoTensor, Arrays!NoObj, HolderP!N!NoObj, Arrays!NoImport, HolderP!N!NoImport
<1> QED  BY <1>1, ArraysConstants, HolderP!ArrInit

LEMMA ArraysNext == Arrays!Next => HolderP!N!Next
BY Zenon
DEF Arrays!NoHandle, HolderP!N!NoHandle, Arrays!NoTensor, HolderP!N!NoTensor,
    Arrays!NoObj, HolderP!N!NoObj, Arrays!NoImport, HolderP!N!NoImport, Arrays!Count,
    HolderP!N!Count, Arrays!Refer, HolderP!N!Refer, Arrays!Free, HolderP!N!Free,
    Arrays!Unused, HolderP!N!Unused, Arrays!Data, HolderP!N!Data, Arrays!Unowned,
    HolderP!N!Unowned, Arrays!NewData, HolderP!N!NewData, Arrays!Drop, HolderP!N!Drop,
    Arrays!Consume, HolderP!N!Consume, Arrays!Dealloc, HolderP!N!Dealloc, Arrays!Deleted,
    HolderP!N!Deleted, Arrays!Released, HolderP!N!Released, Arrays!Underflow,
    HolderP!N!Underflow, Arrays!CopyArray, HolderP!N!CopyArray, Arrays!DropArray,
    HolderP!N!DropArray, Arrays!FreeHandle, HolderP!N!FreeHandle, Arrays!Kept,
    HolderP!N!Kept, Arrays!Accept, HolderP!N!Accept, Arrays!Wrapped, HolderP!N!Wrapped,
    Arrays!Neutralized, HolderP!N!Neutralized, Arrays!Create, HolderP!N!Create,
    Arrays!Exportable, HolderP!N!Exportable, Arrays!NeedsCopy, HolderP!N!NeedsCopy,
    Arrays!Adopted, HolderP!N!Adopted, Arrays!ExportSelf, HolderP!N!ExportSelf,
    Arrays!ExportCopy, HolderP!N!ExportCopy, Arrays!ExportView, HolderP!N!ExportView,
    Arrays!GetBuffer, HolderP!N!GetBuffer, Arrays!BeginForeign, HolderP!N!BeginForeign,
    Arrays!MakeCapsule, HolderP!N!MakeCapsule, Arrays!Reusable, HolderP!N!Reusable,
    Arrays!Own, HolderP!N!Own, Arrays!Counted, HolderP!N!Counted, Arrays!Dlpack,
    HolderP!N!Dlpack, Arrays!BeginOwn, HolderP!N!BeginOwn, Arrays!ImportCapsule,
    HolderP!N!ImportCapsule, Arrays!Reject, HolderP!N!Reject, Arrays!Next, HolderP!N!Next,
    Arrays!Policy, HolderP!N!Policy

LEMMA ArraysStep == HolderP!ArrInv /\ (Arrays!Next \/ UNCHANGED vars) => HolderP!ArrInv'
<1>1. UNCHANGED vars => UNCHANGED HolderP!N!ndarrayVars  BY DEF vars, HolderP!N!ndarrayVars
<1> QED  BY <1>1, ArraysNext, ArraysConstants, HolderP!ArrNext

LEMMA ArraysAnswer ==
    HolderP!ArrInv => /\ Arrays!HandleCount /\ Arrays!ArrayRefsExact
                      /\ Arrays!Backed /\ Arrays!ViewsBacked
<1> SUFFICES ASSUME HolderP!ArrInv
             PROVE  /\ Arrays!HandleCount /\ Arrays!ArrayRefsExact
                    /\ Arrays!Backed /\ Arrays!ViewsBacked
    OBVIOUS
<1>1. /\ HolderP!N!HandleCount /\ HolderP!N!ArrayRefsExact
      /\ HolderP!N!Backed /\ HolderP!N!ViewsBacked
  BY ArraysConstants, HolderP!ArrHandleCount, HolderP!ArrRefsExact, HolderP!ArrBacked,
     HolderP!ArrViewsBacked
<1> USE DEF Arrays!Claims, HolderP!N!Claims, Arrays!Cardinality, HolderP!N!Cardinality
<1>2. Arrays!HandleCount
  BY <1>1 DEF HolderP!N!HandleCount, Arrays!HandleCount, HolderP!N!Unused, Arrays!Unused,
              HolderP!N!NoHandle, Arrays!NoHandle
<1>3. Arrays!ArrayRefsExact
  BY <1>1 DEF HolderP!N!ArrayRefsExact, Arrays!ArrayRefsExact, HolderP!N!Count, Arrays!Count
<1>4. Arrays!Backed
  BY <1>1 DEF HolderP!N!Backed, Arrays!Backed, HolderP!N!NoTensor, Arrays!NoTensor
<1>5. Arrays!ViewsBacked
  BY <1>1 DEF HolderP!N!ViewsBacked, Arrays!ViewsBacked, HolderP!N!Data, Arrays!Data
<1> QED  BY <1>2, <1>3, <1>4, <1>5

-----------------------------------------------------------------------------
(* Errors and translators.                                                       *)

LEMMA TwoFinite == \A x, y : IsFiniteSet({x, y})
<1> TAKE x, y
<1>1. IsFiniteSet({x} \cup {y})  BY FS_Singleton, FS_AddElement
<1> QED  BY <1>1, {x, y} = {x} \cup {y}

LEMMA ErrorsConstants == TableP!ErrLegal
<1>1. IsFiniteSet({"t1", "t2"}) /\ IsFiniteSet({"e1", "e2"}) /\ IsFiniteSet({"v1", "v2"})
  BY TwoFinite
<1>2. Nil \notin {"t1", "t2"} \cup {"e1", "e2"} \cup {"v1", "v2"}  BY RuntimeAssumption
<1>3. "unavailable" \notin {"t1", "t2"}  OBVIOUS
<1> QED  BY <1>1, <1>2, <1>3 DEF TableP!ErrLegal, IsFiniteSet, TableP!IsFiniteSet

LEMMA ErrorsInit == Errors!Init => TableP!ErrInv
<1>1. Errors!Init => TableP!X!Init
  BY DEF Errors!Init, TableP!X!Init, Errors!Blank, TableP!X!Blank, Errors!NoWhat, TableP!X!NoWhat
<1> QED  BY <1>1, ErrorsConstants, TableP!ErrInit

LEMMA ErrorsNext == Errors!Next => TableP!X!Next
BY Zenon
DEF Errors!Blank, TableP!X!Blank, Errors!NoWhat, TableP!X!NoWhat, Errors!Idle,
    TableP!X!Idle, Errors!Unshared, TableP!X!Unshared, Errors!Keep, TableP!X!Keep,
    Errors!Drop, TableP!X!Drop, Errors!Lost, TableP!X!Lost, Errors!Cardinality,
    TableP!X!Cardinality, Errors!Dying, TableP!X!Dying, Errors!Fails, TableP!X!Fails,
    Errors!Chain, TableP!X!Chain, Errors!Fetch, TableP!X!Fetch, Errors!Restore,
    TableP!X!Restore, Errors!Handle, TableP!X!Handle, Errors!Copy, TableP!X!Copy,
    Errors!Move, TableP!X!Move, Errors!Destroy, TableP!X!Destroy, Errors!What,
    TableP!X!What, Errors!Format, TableP!X!Format, Errors!Publish, TableP!X!Publish,
    Errors!Read, TableP!X!Read, Errors!ShutDown, TableP!X!ShutDown, Errors!Next,
    TableP!X!Next

LEMMA ErrorsStep == TableP!ErrInv /\ (Errors!Next \/ UNCHANGED vars) => TableP!ErrInv'
<1>1. UNCHANGED vars => UNCHANGED TableP!X!errorVars  BY DEF vars, TableP!X!errorVars
<1> QED  BY <1>1, ErrorsNext, ErrorsConstants, TableP!ErrStep

LEMMA ErrorsAnswer ==
    TableP!ErrInv => Errors!ErrorRefsExact /\ Errors!CarriedAlive /\ Errors!OneMessage
<1>1. TableP!ErrInv => TableP!X!ErrorRefsExact /\ TableP!X!CarriedAlive /\ TableP!X!OneMessage
  BY ErrorsConstants, TableP!ErrAnswer
<1>2. \A v : Errors!Owners(v) = TableP!X!Owners(v)
  BY DEF Errors!Owners, TableP!X!Owners, Errors!Cardinality, TableP!X!Cardinality
<1>3. TableP!X!ErrorRefsExact => Errors!ErrorRefsExact
  BY <1>2 DEF Errors!ErrorRefsExact, TableP!X!ErrorRefsExact
<1>4. TableP!X!CarriedAlive => Errors!CarriedAlive
  BY <1>2 DEF Errors!CarriedAlive, TableP!X!CarriedAlive
<1>5. TableP!X!OneMessage => Errors!OneMessage
  BY DEF Errors!OneMessage, TableP!X!OneMessage
<1> QED  BY <1>1, <1>3, <1>4, <1>5

LEMMA TranslationConstants == TableP!TransLegal
BY RuntimeAssumption DEF TableP!TransLegal

LEMMA TranslationInit == Translation!Init => TableP!TransInv
<1>1. Translation!Init => TableP!W!Init
  BY DEF Translation!Init, TableP!W!Init, Translation!Idle, TableP!W!Idle
<1> QED  BY <1>1, TranslationConstants, TableP!TransInit

LEMMA TranslationNext == Translation!Next => TableP!W!Next
BY Zenon
DEF Translation!Idle, TableP!W!Idle, Translation!Free, TableP!W!Free,
    Translation!Allocate, TableP!W!Allocate, Translation!Fresh, TableP!W!Fresh,
    Translation!ToSet, TableP!W!ToSet, Translation!Link, TableP!W!Link, Translation!Store,
    TableP!W!Store, Translation!Begin, TableP!W!Begin, Translation!Reverse,
    TableP!W!Reverse, Translation!Try, TableP!W!Try, Translation!GoesOn, TableP!W!GoesOn,
    Translation!Finish, TableP!W!Finish, Translation!Next, TableP!W!Next

LEMMA TranslationStep == TableP!TransInv /\ (Translation!Next \/ UNCHANGED vars) => TableP!TransInv'
<1>1. UNCHANGED vars => UNCHANGED TableP!W!transVars  BY DEF vars, TableP!W!transVars
<1> QED  BY <1>1, TranslationNext, TranslationConstants, TableP!TransStep

LEMMA TranslationAnswer == TableP!TransInv => Translation!LastFirst
<1>1. TableP!TransInv => TableP!W!LastFirst  BY TranslationConstants, TableP!TransAnswer
<1>2. TableP!W!LastFirst => Translation!LastFirst
  BY DEF Translation!LastFirst, TableP!W!LastFirst, Translation!IsPrefix, TableP!W!IsPrefix
<1> QED  BY <1>1, <1>2

-----------------------------------------------------------------------------
(* Overloads.                                                                    *)

LEMMA DispatchConstants == TableP!Y!Legal
BY DispatchAssumption
DEF Dispatch!Legal, TableP!Y!Legal, Dispatch!WellFormed, TableP!Y!WellFormed,
     Dispatch!Shapes, TableP!Y!Shapes, Dispatch!Param, TableP!Y!Param, Dispatch!Kinds,
     TableP!Y!Kinds, Dispatch!HasArgs, TableP!Y!HasArgs

LEMMA DispatchInit == Dispatch!Init => TableP!DispInv
<1>1. Dispatch!Init => TableP!Y!Init  BY DEF Dispatch!Init, TableP!Y!Init,
     Dispatch!NoCall, TableP!Y!NoCall
<1> QED  BY <1>1, DispatchConstants, TableP!DispInit

LEMMA DispatchNext == Dispatch!Next => TableP!Y!Next
BY Zenon
DEF Dispatch!NoCall, TableP!Y!NoCall, Dispatch!Simple, TableP!Y!Simple, Dispatch!Ctor,
    TableP!Y!Ctor, Dispatch!Current, TableP!Y!Current, Dispatch!NextOverload,
    TableP!Y!NextOverload, Dispatch!Temps, TableP!Y!Temps, Dispatch!Packed,
    TableP!Y!Packed, Dispatch!Num, TableP!Y!Num, Dispatch!NArgs, TableP!Y!NArgs,
    Dispatch!HasArgs, TableP!Y!HasArgs, Dispatch!Define, TableP!Y!Define, Dispatch!Needs,
    TableP!Y!Needs, Dispatch!Max, TableP!Y!Max, Dispatch!Start, TableP!Y!Start,
    Dispatch!Call, TableP!Y!Call, Dispatch!Specialized, TableP!Y!Specialized,
    Dispatch!Range, TableP!Y!Range, Dispatch!CallSpecialized, TableP!Y!CallSpecialized,
    Dispatch!Try, TableP!Y!Try, Dispatch!CountFits, TableP!Y!CountFits,
    Dispatch!Positional, TableP!Y!Positional, Dispatch!Available, TableP!Y!Available,
    Dispatch!Castable, TableP!Y!Castable, Dispatch!Collected, TableP!Y!Collected,
    Dispatch!FromComplex, TableP!Y!FromComplex, Dispatch!FromMedium, TableP!Y!FromMedium,
    Dispatch!Named, TableP!Y!Named, Dispatch!Used, TableP!Y!Used, Dispatch!Converted,
    TableP!Y!Converted, Dispatch!Converts, TableP!Y!Converts, Dispatch!Min, TableP!Y!Min,
    Dispatch!Body, TableP!Y!Body, Dispatch!Finish, TableP!Y!Finish, Dispatch!Declines,
    TableP!Y!Declines, Dispatch!Fails, TableP!Y!Fails, Dispatch!Report, TableP!Y!Report,
    Dispatch!Return, TableP!Y!Return, Dispatch!Next, TableP!Y!Next, Dispatch!Bodies,
    TableP!Y!Bodies

LEMMA DispatchStep == TableP!DispInv /\ (Dispatch!Next \/ UNCHANGED vars) => TableP!DispInv'
<1>1. UNCHANGED vars => UNCHANGED TableP!Y!dispatchVars  BY DEF vars, TableP!Y!dispatchVars
<1> QED  BY <1>1, DispatchNext, DispatchConstants, TableP!DispNext

LEMMA DispatchAnswer ==
    TableP!DispInv => /\ Dispatch!TypeOK /\ Dispatch!RightOverload
                      /\ Dispatch!TempsHeld /\ Dispatch!OutcomeConsistent
<1>1. TableP!DispInv => /\ TableP!Y!TypeOK /\ TableP!Y!RightOverload
                        /\ TableP!Y!TempsHeld /\ TableP!Y!OutcomeConsistent
  BY DispatchConstants, TableP!DispRight
<1>2. TableP!Y!TypeOK => Dispatch!TypeOK  BY DEF Dispatch!TypeOK, TableP!Y!TypeOK,
     Dispatch!Shapes, TableP!Y!Shapes
<1>3. \A p, kw : Dispatch!Chosen(p, kw) = TableP!Y!Chosen(p, kw)
  BY DEF Dispatch!Chosen, TableP!Y!Chosen, Dispatch!Candidates, TableP!Y!Candidates,
       Dispatch!Fits, TableP!Y!Fits, Dispatch!Sources, TableP!Y!Sources, Dispatch!Cardinality,
       TableP!Y!Cardinality, Dispatch!Min, TableP!Y!Min
<1>4. TableP!Y!RightOverload => Dispatch!RightOverload  BY <1>3 DEF
     Dispatch!RightOverload, TableP!Y!RightOverload
<1>5. TableP!Y!TempsHeld => Dispatch!TempsHeld
  BY DEF Dispatch!TempsHeld, TableP!Y!TempsHeld, Dispatch!Temps, TableP!Y!Temps,
       Dispatch!Packed, TableP!Y!Packed, Dispatch!Converted, TableP!Y!Converted,
       Dispatch!Converts, TableP!Y!Converts, Dispatch!Collected, TableP!Y!Collected,
       Dispatch!FromComplex, TableP!Y!FromComplex, Dispatch!FromMedium, TableP!Y!FromMedium,
       Dispatch!Named, TableP!Y!Named, Dispatch!Simple, TableP!Y!Simple, Dispatch!Positional,
       TableP!Y!Positional, Dispatch!Current, TableP!Y!Current
<1>6. TableP!Y!OutcomeConsistent => Dispatch!OutcomeConsistent
  BY DEF Dispatch!OutcomeConsistent, TableP!Y!OutcomeConsistent, Dispatch!Ctor, TableP!Y!Ctor
<1> QED  BY <1>1, <1>2, <1>4, <1>5, <1>6

-----------------------------------------------------------------------------
(* Tickets.                                                                      *)

LEMMA TicketsInit == Tickets!Init => TableP!TicketInv
<1>1. Tickets!Init => TableP!V!Init  BY DEF Tickets!Init, TableP!V!Init
<1> QED  BY <1>1, TableP!TicketInit

LEMMA TicketsNext == Tickets!Next => TableP!V!Next
BY Zenon
DEF Tickets!Ready, TableP!V!Ready, Tickets!Same, TableP!V!Same, Tickets!SameMethod,
    TableP!V!SameMethod, Tickets!ToBase, TableP!V!ToBase, Tickets!Frame, TableP!V!Frame,
    Tickets!Enter, TableP!V!Enter, Tickets!Detached, TableP!V!Detached, Tickets!Leave,
    TableP!V!Leave, Tickets!Leaves, TableP!V!Leaves, Tickets!Catch, TableP!V!Catch,
    Tickets!Finalize, TableP!V!Finalize, Tickets!Next, TableP!V!Next

LEMMA TicketsStep == TableP!TicketInv /\ (Tickets!Next \/ UNCHANGED vars) => TableP!TicketInv'
<1>1. UNCHANGED vars => UNCHANGED TableP!V!tkVars  BY DEF vars, TableP!V!tkVars
<1> QED  BY <1>1, TicketsNext, TableP!TicketStep

LEMMA TicketsAnswer ==
    TableP!TicketInv => Tickets!ChainRight /\ Tickets!Delivered /\ Tickets!Balanced
<1>1. TableP!TicketInv => TableP!V!ChainRight /\ TableP!V!Delivered /\ TableP!V!Balanced
  BY TableP!TicketAnswer
<1>2. \A t : Tickets!Tickets(t) = TableP!V!Tickets(t)
  BY DEF Tickets!Tickets, TableP!V!Tickets
<1>3. \A t, i : Tickets!Below(t, i) = TableP!V!Below(t, i)
  BY <1>2 DEF Tickets!Below, TableP!V!Below
<1>4. TableP!V!ChainRight => Tickets!ChainRight
  BY <1>2, <1>3 DEF Tickets!ChainRight, TableP!V!ChainRight
<1>5. TableP!V!Delivered => Tickets!Delivered
  BY <1>3 DEF Tickets!Delivered, TableP!V!Delivered
<1>6. TableP!V!Balanced => Tickets!Balanced
  BY <1>2 DEF Tickets!Balanced, TableP!V!Balanced, Tickets!Cardinality, TableP!V!Cardinality
<1> QED  BY <1>1, <1>4, <1>5, <1>6

-----------------------------------------------------------------------------
(* Accessors.                                                                    *)

LEMMA AccessConstants == HolderP!AccLegal
<1>1. IsFiniteSet({"a1", "a2", "a3"})
  <2>1. IsFiniteSet({"a1"} \cup {"a2"} \cup {"a3"})  BY FS_Singleton, FS_AddElement
  <2> QED  BY <2>1, {"a1", "a2", "a3"} = {"a1"} \cup {"a2"} \cup {"a3"}
<1>2. HolderP!IsFiniteSet({"a1", "a2", "a3"})  BY <1>1 DEF IsFiniteSet, HolderP!IsFiniteSet
<1> QED  BY <1>2, RuntimeAssumption DEF HolderP!AccLegal

LEMMA AccessInit == Access!Init => HolderP!AccInv
<1>1. Access!Init => HolderP!Q!Init
  BY DEF Access!Init, HolderP!Q!Init, Access!Val, HolderP!Q!Val
<1> QED  BY <1>1, AccessConstants, HolderP!AccInit

LEMMA AccessNext == Access!Next => HolderP!Q!Next
BY Zenon
DEF Access!Val, HolderP!Q!Val, Access!Caches, HolderP!Q!Caches, Access!Hit, HolderP!Q!Hit,
    Access!Ptr, HolderP!Q!Ptr, Access!Fetched, HolderP!Q!Fetched, Access!Use,
    HolderP!Q!Use, Access!Make, HolderP!Q!Make, Access!Read, HolderP!Q!Read, Access!Take,
    HolderP!Q!Take, Access!HandedOver, HolderP!Q!HandedOver, Access!Placed,
    HolderP!Q!Placed, Access!Assign, HolderP!Q!Assign, Access!InPlace, HolderP!Q!InPlace,
    Access!Drop, HolderP!Q!Drop, Access!Release, HolderP!Q!Release, Access!Next,
    HolderP!Q!Next

LEMMA AccessStep == HolderP!AccInv /\ (Access!Next \/ UNCHANGED vars) => HolderP!AccInv'
<1>1. UNCHANGED vars => UNCHANGED HolderP!Q!accVars  BY DEF vars, HolderP!Q!accVars
<1> QED  BY <1>1, AccessNext, AccessConstants, HolderP!AccStep

LEMMA AccessAnswer == HolderP!AccInv => Access!AccessorRefsExact /\ Access!UpdatesKept
<1>1. HolderP!AccInv => HolderP!Q!AccessorRefsExact /\ HolderP!Q!UpdatesKept
  BY AccessConstants, HolderP!AccAnswer
<1>2. HolderP!Q!AccessorRefsExact => Access!AccessorRefsExact
  BY DEF HolderP!Q!AccessorRefsExact, Access!AccessorRefsExact, HolderP!Q!Val, Access!Val,
         HolderP!Q!Hit, Access!Hit, HolderP!Q!Caches, Access!Caches, HolderP!Q!Cardinality,
         Access!Cardinality
<1>3. HolderP!Q!UpdatesKept => Access!UpdatesKept
  BY DEF HolderP!Q!UpdatesKept, Access!UpdatesKept
<1> QED  BY <1>1, <1>2, <1>3

-----------------------------------------------------------------------------
(* Calls into Python.                                                            *)

LEMMA CallsInit == Calls!Init => HolderP!CallInv
<1>1. Calls!Init => HolderP!P!Init
  BY DEF Calls!Init, HolderP!P!Init, Calls!NoItems, HolderP!P!NoItems, Calls!Idle,
         HolderP!P!Idle, Calls!Obj, HolderP!P!Obj
<1> QED  BY <1>1, HolderP!CallInit

\* The operators of both instances that count references.
LEMMA CallsSame ==
    /\ \A o, g : Calls!Count(o, g) = HolderP!P!Count(o, g)
    /\ \A o, d : Calls!Items(o, d) = HolderP!P!Items(o, d)
    /\ \A ss : Calls!Flat(ss) = HolderP!P!Flat(ss)
    /\ \A o, es : Calls!Held(o, es) = HolderP!P!Held(o, es)
    /\ \A es, m : Calls!OwnedOf(es, m) = HolderP!P!OwnedOf(es, m)
    /\ \A o, c : Calls!Owned(o, c) = HolderP!P!Owned(o, c)
<1>1. \A o, g : Calls!Count(o, g) = HolderP!P!Count(o, g)
  BY DEF Calls!Count, HolderP!P!Count, Calls!Cardinality, HolderP!P!Cardinality
<1>2. \A o, d : Calls!Items(o, d) = HolderP!P!Items(o, d)
  BY <1>1 DEF Calls!Items, HolderP!P!Items
<1>3. \A ss : Calls!Flat(ss) = HolderP!P!Flat(ss)
  BY DEF Calls!Flat, HolderP!P!Flat
<1>4. \A o, es : Calls!Held(o, es) = HolderP!P!Held(o, es)
  BY <1>1, <1>3 DEF Calls!Held, HolderP!P!Held
<1>5. \A es, m : Calls!OwnedOf(es, m) = HolderP!P!OwnedOf(es, m)
  BY <1>3 DEF Calls!OwnedOf, HolderP!P!OwnedOf
<1>6. \A o, c : Calls!Owned(o, c) = HolderP!P!Owned(o, c)
  BY <1>1, <1>4 DEF Calls!Owned, HolderP!P!Owned
<1> QED  BY <1>1, <1>2, <1>3, <1>4, <1>5, <1>6

LEMMA CallsNext == Calls!Next => HolderP!P!Next
<1> USE DEF Calls!Obj, HolderP!P!Obj, Calls!NoItems, HolderP!P!NoItems, Calls!Idle,
            HolderP!P!Idle, Calls!ToCleanup, HolderP!P!ToCleanup
<1>1. \A S, n : Calls!BoundedSeq(S, n) = HolderP!P!BoundedSeq(S, n)
  BY DEF Calls!BoundedSeq, HolderP!P!BoundedSeq, Calls!SeqOf, HolderP!P!SeqOf
<1>2. Calls!Lists = HolderP!P!Lists /\ Calls!Dicts = HolderP!P!Dicts
      /\ Calls!Entry = HolderP!P!Entry
  BY <1>1 DEF Calls!Lists, HolderP!P!Lists, Calls!Dicts, HolderP!P!Dicts, Calls!Entry,
              HolderP!P!Entry
<1>3. Calls!Mutate => HolderP!P!Mutate
  BY <1>2, CallsSame DEF Calls!Mutate, HolderP!P!Mutate
<1>4. \A es : Calls!Begin(es) => HolderP!P!Begin(es)
  BY CallsSame DEF Calls!Begin, HolderP!P!Begin
<1>5. Calls!PassOne => HolderP!P!PassOne
  BY CallsSame DEF Calls!PassOne, HolderP!P!PassOne, Calls!Missing, HolderP!P!Missing,
       Calls!Expanded, HolderP!P!Expanded, Calls!Taken, HolderP!P!Taken
<1>6. Calls!PassTwo => HolderP!P!PassTwo
  BY DEF Calls!PassTwo, HolderP!P!PassTwo, Calls!Fills, HolderP!P!Fills, Calls!Range,
         HolderP!P!Range, Calls!Keys, HolderP!P!Keys, Calls!Pos, HolderP!P!Pos, Calls!Kw,
         HolderP!P!Kw, Calls!Contents, HolderP!P!Contents, Calls!NewKeys, HolderP!P!NewKeys,
         Calls!NameMoved, HolderP!P!NameMoved, Calls!Flat, HolderP!P!Flat, Calls!Count,
         HolderP!P!Count, Calls!Cardinality, HolderP!P!Cardinality
<1>7. Calls!Return => HolderP!P!Return
  BY DEF Calls!Return, HolderP!P!Return
<1>8. Calls!Cleanup => HolderP!P!Cleanup
  BY CallsSame DEF Calls!Cleanup, HolderP!P!Cleanup
<1>9. \A es, m : Calls!BeginSimple(es, m) => HolderP!P!BeginSimple(es, m)
  BY CallsSame DEF Calls!BeginSimple, HolderP!P!BeginSimple, Calls!ToSet, HolderP!P!ToSet
<1>10. Calls!ReturnSimple => HolderP!P!ReturnSimple
  BY DEF Calls!ReturnSimple, HolderP!P!ReturnSimple
<1>11. Calls!ReleaseSimple => HolderP!P!ReleaseSimple
  BY CallsSame DEF Calls!ReleaseSimple, HolderP!P!ReleaseSimple
<1> QED
  BY <1>1, <1>2, <1>3, <1>4, <1>5, <1>6, <1>7, <1>8, <1>9, <1>10, <1>11
  DEF Calls!Next, HolderP!P!Next

LEMMA CallsStep == HolderP!CallInv /\ (Calls!Next \/ UNCHANGED vars) => HolderP!CallInv'
<1>1. UNCHANGED vars => UNCHANGED HolderP!P!pcVars  BY DEF vars, HolderP!P!pcVars
<1> QED  BY <1>1, CallsNext, HolderP!CallStep

LEMMA CallsAnswer ==
    HolderP!CallInv => Calls!CallRefsExact /\ Calls!StackExact /\ Calls!StackAlive
<1>1. HolderP!CallInv => /\ HolderP!P!CallRefsExact /\ HolderP!P!StackExact
                         /\ HolderP!P!StackAlive
  BY HolderP!CallAnswer
<1>2. HolderP!P!CallRefsExact => Calls!CallRefsExact
  BY CallsSame DEF HolderP!P!CallRefsExact, Calls!CallRefsExact, HolderP!P!Obj, Calls!Obj
<1>3. HolderP!P!StackExact => Calls!StackExact
  BY DEF HolderP!P!StackExact, Calls!StackExact, HolderP!P!Cardinality, Calls!Cardinality
<1>4. HolderP!P!StackAlive => Calls!StackAlive
  BY DEF HolderP!P!StackAlive, Calls!StackAlive, HolderP!P!Range, Calls!Range
<1> QED  BY <1>1, <1>2, <1>3, <1>4

-----------------------------------------------------------------------------
(* Conversions of containers.                                                    *)

LEMMA ContainersConstants == HolderP!CasLegal
BY DEF HolderP!CasLegal

LEMMA ContainersInit == Containers!Init => HolderP!CasInv
<1>1. \A S, n : Containers!BoundedSeq(S, n) = HolderP!Cas!BoundedSeq(S, n)
  BY DEF Containers!BoundedSeq, HolderP!Cas!BoundedSeq, Containers!SeqOf, HolderP!Cas!SeqOf
<1>2. Containers!Init => HolderP!Cas!Init
  BY <1>1
  DEF Containers!Init, HolderP!Cas!Init, Containers!Kinds, HolderP!Cas!Kinds,
      Containers!NoCall, HolderP!Cas!NoCall, Containers!Count, HolderP!Cas!Count,
      Containers!Cardinality, HolderP!Cas!Cardinality, Containers!IsInjective,
      HolderP!Cas!IsInjective
<1> QED  BY <1>2, ContainersConstants, HolderP!CasInit

LEMMA ContainersNext == Containers!Next => HolderP!Cas!Next
BY Zenon
DEF Containers!Count, HolderP!Cas!Count, Containers!Exchange, HolderP!Cas!Exchange,
    Containers!NoCall, HolderP!Cas!NoCall, Containers!Kinds, HolderP!Cas!Kinds,
    Containers!Stride, HolderP!Cas!Stride, Containers!Mutate, HolderP!Cas!Mutate,
    Containers!Load, HolderP!Cas!Load, Containers!Refuse, HolderP!Cas!Refuse,
    Containers!Snapshot, HolderP!Cas!Snapshot, Containers!TakeApart, HolderP!Cas!TakeApart,
    Containers!SeqGet, HolderP!Cas!SeqGet, Containers!SeqGetWithSize,
    HolderP!Cas!SeqGetWithSize, Containers!MappingGet, HolderP!Cas!MappingGet,
    Containers!IterGet, HolderP!Cas!IterGet, Containers!KeepsTemp, HolderP!Cas!KeepsTemp,
    Containers!Temp, HolderP!Cas!Temp, Containers!Loading, HolderP!Cas!Loading,
    Containers!Converts, HolderP!Cas!Converts, Containers!Fails, HolderP!Cas!Fails,
    Containers!Convert, HolderP!Cas!Convert, Containers!ConvertEntry,
    HolderP!Cas!ConvertEntry, Containers!Loaded, HolderP!Cas!Loaded, Containers!ConvertNext,
    HolderP!Cas!ConvertNext, Containers!ConvertOne, HolderP!Cas!ConvertOne,
    Containers!Release, HolderP!Cas!Release, Containers!Store, HolderP!Cas!Store,
    Containers!Storing, HolderP!Cas!Storing, Containers!Width, HolderP!Cas!Width,
    Containers!IsFull, HolderP!Cas!IsFull, Containers!PutNext, HolderP!Cas!PutNext,
    Containers!Put, HolderP!Cas!Put, Containers!PutItem, HolderP!Cas!PutItem,
    Containers!Abandoned, HolderP!Cas!Abandoned, Containers!Finish, HolderP!Cas!Finish,
    Containers!Commit, HolderP!Cas!Commit, Containers!TupleNew, HolderP!Cas!TupleNew,
    Containers!SetEntry, HolderP!Cas!SetEntry, Containers!AddKey, HolderP!Cas!AddKey,
    Containers!CommitAll, HolderP!Cas!CommitAll, Containers!Drop, HolderP!Cas!Drop,
    Containers!Next, HolderP!Cas!Next, Containers!ToSet, HolderP!Cas!ToSet,
    Containers!Cardinality, HolderP!Cas!Cardinality

LEMMA ContainersStep == HolderP!CasInv /\ (Containers!Next \/ UNCHANGED vars) => HolderP!CasInv'
<1>1. UNCHANGED vars => UNCHANGED HolderP!Cas!ccVars  BY DEF vars, HolderP!Cas!ccVars
<1> QED  BY <1>1, ContainersNext, ContainersConstants, HolderP!CasStep

LEMMA ContainersAnswer ==
    HolderP!CasInv => /\ Containers!ItemRefsExact /\ Containers!ItemsAlive
                      /\ Containers!PairAlive /\ Containers!AllOrNothing
<1>1. HolderP!CasInv => /\ HolderP!Cas!ItemRefsExact /\ HolderP!Cas!ItemsAlive
                        /\ HolderP!Cas!PairAlive /\ HolderP!Cas!AllOrNothing
  BY HolderP!CasAnswer
<1>2. HolderP!Cas!ItemRefsExact => Containers!ItemRefsExact
  BY DEF HolderP!Cas!ItemRefsExact, Containers!ItemRefsExact, HolderP!Cas!Holders,
         Containers!Holders, HolderP!Cas!Count, Containers!Count, HolderP!Cas!Temp,
         Containers!Temp, HolderP!Cas!Cardinality, Containers!Cardinality
<1>3. HolderP!Cas!ItemsAlive => Containers!ItemsAlive
  BY DEF HolderP!Cas!ItemsAlive, Containers!ItemsAlive
<1>4. HolderP!Cas!PairAlive => Containers!PairAlive
  BY DEF HolderP!Cas!PairAlive, Containers!PairAlive
<1>5. HolderP!Cas!AllOrNothing => Containers!AllOrNothing
  BY DEF HolderP!Cas!AllOrNothing, Containers!AllOrNothing, HolderP!Cas!Width,
         Containers!Width
<1> QED  BY <1>1, <1>2, <1>3, <1>4, <1>5

-----------------------------------------------------------------------------
(* The runtime.                                                                  *)

\* What is invariant of each part.
IInv == /\ part = "internals" => TableP!IntInv
        /\ part = "caches" => TableP!CacheInv
        /\ part = "registry" => TableP!RegInv
        /\ part = "contents" => HolderP!ConInv
        /\ part = "unique" => UniqueP!IInv
        /\ part = "shared" => SharedP!IInv
        /\ part = "functions" => HolderP!FnInv
        /\ part = "arrays" => HolderP!ArrInv
        /\ part = "errors" => TableP!ErrInv
        /\ part = "translators" => TableP!TransInv
        /\ part = "dispatch" => TableP!DispInv
        /\ part = "tickets" => TableP!TicketInv
        /\ part = "accessors" => HolderP!AccInv
        /\ part = "calls" => HolderP!CallInv
        /\ part = "containers" => HolderP!CasInv

LEMMA InitIInv == Init => IInv
BY InternalsInit, CachesInit, RegistryInit, UniqueInit, SharedInit, CallablesInit, ContentsInit,
   ArraysInit, ErrorsInit, TranslationInit, DispatchInit, TicketsInit,
   AccessInit, CallsInit, ContainersInit
DEF Init, IInv

LEMMA StepIInv == IInv /\ [Next]_vars => IInv'
<1> SUFFICES ASSUME IInv, [Next]_vars PROVE IInv'
    OBVIOUS
<1>1. /\ part' = part
      /\ part = "internals" => Internals!Next \/ UNCHANGED vars
      /\ part = "caches" => Caches!Next \/ UNCHANGED vars
      /\ part = "registry" => Registry!Next \/ UNCHANGED vars
      /\ part = "contents" => Contents!Next \/ UNCHANGED vars
      /\ part = "unique" => Unique!Next \/ UNCHANGED vars
      /\ part = "shared" => Shared!Next \/ UNCHANGED vars
      /\ part = "functions" => Callables!Next \/ UNCHANGED vars
      /\ part = "arrays" => Arrays!Next \/ UNCHANGED vars
      /\ part = "errors" => Errors!Next \/ UNCHANGED vars
      /\ part = "translators" => Translation!Next \/ UNCHANGED vars
      /\ part = "dispatch" => Dispatch!Next \/ UNCHANGED vars
      /\ part = "tickets" => Tickets!Next \/ UNCHANGED vars
      /\ part = "accessors" => Access!Next \/ UNCHANGED vars
      /\ part = "calls" => Calls!Next \/ UNCHANGED vars
      /\ part = "containers" => Containers!Next \/ UNCHANGED vars
  BY DEF Next, vars
<1>2. part = "contents" => HolderP!ConInv'  BY <1>1, ContentsStep DEF IInv
<1>3. part = "unique" => UniqueP!IInv'  BY <1>1, UniqueStep DEF IInv
<1>4. part = "shared" => SharedP!IInv'  BY <1>1, SharedStep DEF IInv
<1>5. part = "functions" => HolderP!FnInv'  BY <1>1, CallablesStep DEF IInv
<1>6. part = "internals" => TableP!IntInv'  BY <1>1, InternalsStep DEF IInv
<1>7. part = "caches" => TableP!CacheInv'  BY <1>1, CachesStep DEF IInv
<1>8. part = "registry" => TableP!RegInv'  BY <1>1, RegistryStep DEF IInv
<1>9. part = "arrays" => HolderP!ArrInv'  BY <1>1, ArraysStep DEF IInv
<1>10. part = "errors" => TableP!ErrInv'  BY <1>1, ErrorsStep DEF IInv
<1>11. part = "translators" => TableP!TransInv'  BY <1>1, TranslationStep DEF IInv
<1>12. part = "dispatch" => TableP!DispInv'  BY <1>1, DispatchStep DEF IInv
<1>13. part = "tickets" => TableP!TicketInv'  BY <1>1, TicketsStep DEF IInv
<1>14. part = "accessors" => HolderP!AccInv'  BY <1>1, AccessStep DEF IInv
<1>15. part = "calls" => HolderP!CallInv'  BY <1>1, CallsStep DEF IInv
<1>16. part = "containers" => HolderP!CasInv'  BY <1>1, ContainersStep DEF IInv
<1> QED
  BY <1>1, <1>2, <1>3, <1>4, <1>5, <1>6, <1>7, <1>8, <1>9, <1>10, <1>11, <1>12, <1>13, <1>14,
     <1>15, <1>16
  DEF IInv

LEMMA IInvTypeOK == ASSUME IInv PROVE TypeOK
<1>1. ASSUME part = "internals" PROVE Internals!TypeOK
  <2>1. TableP!I!TypeOK  BY <1>1, InternalsConstants, TableP!IntTypeOK DEF IInv
  <2> QED  BY <2>1 DEF TableP!I!TypeOK, Internals!TypeOK, TableP!I!Cardinality, Internals!Cardinality
<1>2. ASSUME part = "caches" PROVE Caches!TypeOK
  <2>1. TableP!K!TypeOK  BY <1>2, TableP!CacheTypeOK DEF IInv
  <2> QED  BY <2>1 DEF TableP!K!TypeOK, Caches!TypeOK, TableP!K!Object, Caches!Object
<1>3. ASSUME part = "errors" PROVE Errors!TypeOK
  <2>1. TableP!X!TypeOK  BY <1>3, ErrorsConstants, TableP!ErrTypeOK DEF IInv
  <2> QED  BY <2>1 DEF TableP!X!TypeOK, Errors!TypeOK, TableP!X!Blank, Errors!Blank
<1>4. ASSUME part = "dispatch" PROVE Dispatch!TypeOK  BY <1>4, DispatchAnswer DEF IInv
<1>5. ASSUME part = "registry" PROVE Registry!TypeOK
  <2>1. TableP!G!TypeOK  BY <1>5, RegistryConstants, TableP!RegTypeOK DEF IInv
  <2> QED
    BY <2>1 DEF TableP!G!TypeOK, Registry!TypeOK, TableP!G!Free, Registry!Free,
                TableP!G!Placeholder, Registry!Placeholder, TableP!G!Cardinality, Registry!Cardinality
<1>6. ASSUME part = "unique" PROVE Unique!TypeOK
  <2>1. UniqueP!TypeOK  BY <1>6, UniqueP!IInvTypeOK DEF IInv
  <2> QED
    BY <2>1 DEF UniqueP!TypeOK, Unique!TypeOK, UniqueP!Instance, Unique!Instance,
                UniqueP!UniquePtr, Unique!UniquePtr, UniqueP!Call, Unique!Call,
                UniqueP!Cpp, Unique!Cpp
<1>7. ASSUME part = "arrays" PROVE Arrays!TypeOK
  <2>1. HolderP!N!TypeOK  BY <1>7, ArraysConstants, HolderP!ArrTypeOK DEF IInv
  <2> QED  BY <2>1 DEF HolderP!N!TypeOK, Arrays!TypeOK
<1> QED  BY <1>1, <1>2, <1>3, <1>4, <1>5, <1>6, <1>7 DEF TypeOK

\* The variables of each part have the types of the component.
THEOREM RuntimeTyped == Spec => []TypeOK
<1>1. IInv => TypeOK  BY IInvTypeOK
<1> QED  BY <1>1, InitIInv, StepIInv, PTL DEF Spec

\* All modules of a domain share one record: complete for whoever counts on it, torn down
\* once nobody does (nb_internals.cpp:657-718, 1018-1260).
THEOREM SharedRecord == Spec => []RecordShared
<1>1. IInv => RecordShared  BY InternalsShared DEF IInv, RecordShared
<1> QED  BY <1>1, InitIInv, StepIInv, PTL DEF Spec

\* Every C++ object has one owner, or one family of shared owners, on either side of the
\* language border, and every element of a container that is converted as many references
\* as are held, whatever the sets Three and Two of instances, C++ objects, callbacks,
\* functions and elements are (nb_type.cpp:2369-2658, stl/unique_ptr.h:89-100,
\* stl/shared_ptr.h:19-95, stl/function.h:21-45, common.cpp:413-547, 650-772).
THEOREM OneOwnerEach == Spec => []OwnedOnce
<1>1. IInv => OwnedOnce
  BY UniqueOwned, SharedOwned, CallablesOwned, ContentsOwned, ContainersAnswer
  DEF IInv, OwnedOnce
<1> QED  BY <1>1, InitIInv, StepIInv, PTL DEF Spec

\* The caches answer with what was asked for, alive as long as it is used, and own what
\* they list once (nb_internals.cpp:365-500).
THEOREM CachesAnswerRight == Spec => []CachesExact
<1>1. IInv => CachesExact  BY CachesAnswer DEF IInv, CachesExact
<1> QED  BY <1>1, InitIInv, StepIInv, PTL DEF Spec

\* The fast maps have what the registry of types has, whatever was looked up, derived or
\* deleted, and subclasses share nothing with their bases that is freed
\* (nb_type.cpp:570-793).
THEOREM RegistryFindsTypes == Spec => []TypesFound
<1>1. IInv => TypesFound  BY RegistryAnswer DEF IInv, TypesFound
<1> QED  BY <1>1, InitIInv, StepIInv, PTL DEF Spec

\* The memory of an array lives while a handle, a capsule, a view or a consumer can
\* reach it, and is released once (nb_ndarray.cpp:43-146, 999-1300).
THEOREM ArraysStayBacked == Spec => []ArraysBacked
<1>1. IInv => ArraysBacked  BY ArraysAnswer DEF IInv, ArraysBacked
<1> QED  BY <1>1, InitIInv, StepIInv, PTL DEF Spec

\* A Python error survives its travel through C++ with exact reference counts and one
\* message (error.cpp:22-202); a C++ exception is offered to all translators registered
\* by then, the last one first (nb_func.cpp:632-644).
THEOREM ErrorsTravel == Spec => []ErrorsCarried
<1>1. IInv => ErrorsCarried  BY ErrorsAnswer, TranslationAnswer DEF IInv, ErrorsCarried
<1> QED  BY <1>1, InitIInv, StepIInv, PTL DEF Spec

\* Calls reach what they should and clean up after themselves: the first overload that
\* fits, with its temporaries (nb_func.cpp:310-937); the Python callable, with the arguments
\* as they were and every reference given back (common.cpp:209-311); the attribute, with
\* every update (nb_accessor.h:35-66); the base method, once (trampoline.cpp:371-407).
THEOREM CallsReach == Spec => []CallsDelivered
<1>1. IInv => CallsDelivered
  BY DispatchAnswer, CallsAnswer, AccessAnswer, TicketsAnswer DEF IInv, CallsDelivered
<1> QED  BY <1>1, InitIInv, StepIInv, PTL DEF Spec
=============================================================================
