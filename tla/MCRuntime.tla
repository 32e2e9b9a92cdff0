----------------------------- MODULE MCRuntime -----------------------------
(* The components of the runtime that TLC checks one by one: `part' says which of *)
(* them a behaviour is about, and s1, s2, ... are the variables of that component, *)
(* so that the state space is the sum of theirs.  Every component has its own      *)
(* module; this one gives the bounds.                                              *)
EXTENDS Integers, Sequences, FiniteSets, TLC

CONSTANTS Three, Two, Pair,      \* sets of interchangeable values
          Nil, Odd               \* values that stand for nothing, or for a misfit

\* The values can be told apart, and what stands for nothing is not a record either.
ASSUME RuntimeAssumption ==
    /\ IsFiniteSet(Three) /\ IsFiniteSet(Two) /\ IsFiniteSet(Pair)
    /\ Three \cap Two = {} /\ "cpp" \notin Three /\ "placeholder" \notin Three
    /\ Nil \notin Three \cup Two \cup Pair \cup {"cpp", "m1", "m2", "r1", "r2", "r3", Odd}
    /\ Nil \notin {"p", "q", "x", "y", "v", "w", "p1", "p2", "p3", "placeholder"}
    /\ Nil \notin {"t1", "t2", "e1", "e2", "v1", "v2"}
    /\ Nil \notin 0 .. 3 /\ Odd \notin Two
    /\ Nil \notin [refs : Nat, kept : Three \cup {Nil}]
    /\ Nil \notin [obj : {"o1", "o2"}, count : Nat, deleter : {"delete", "py_decref"}, held : Nat]
    /\ Nil \notin [at : Three \cup Two, ready : BOOLEAN, destruct : BOOLEAN,
                   cpp_delete : BOOLEAN, parent : Three \cup {Nil}]

VARIABLES part, s1, s2, s3, s4, s5, s6, s7, s8

vars == <<part, s1, s2, s3, s4, s5, s6, s7, s8>>

Symmetry == Permutations(Three) \cup Permutations(Two) \cup Permutations(Pair)

-----------------------------------------------------------------------------
(* Inputs.                                                                     *)

Param(name, takes) == [name |-> name, takes |-> takes, default |-> "-", none |-> FALSE]
Taking(params) == [params |-> params, npos |-> Len(params), star |-> FALSE, kw |-> FALSE,
                   ctor |-> FALSE, copy |-> FALSE, op |-> FALSE]
Overloads ==
    { Taking(<<Param("-", "b")>>), Taking(<<Param("x", "a")>>),
      Taking(<<Param("-", "a"), Param("-", "b")>>),
      Taking(<<Param("-", "a"), Param("-", "a"), Param("-", "a")>>),
      Taking(<<Param("x", "a"), [Param("y", "b") EXCEPT !.default = "b", !.none = TRUE]>>),
      [Taking(<<Param("-", "a")>>) EXCEPT !.op = TRUE],
      [Taking(<<Param("x", "a"), Param("y", "a")>>) EXCEPT !.npos = 1],
      [Taking(<<Param("x", "a")>>) EXCEPT !.star = TRUE],
      [Taking(<<>>) EXCEPT !.kw = TRUE],
      [Taking(<<Param("-", "a")>>) EXCEPT !.ctor = TRUE, !.copy = TRUE],
      [Taking(<<Param("x", "b")>>) EXCEPT !.ctor = TRUE] }
PosCalls == {<<>>, <<"a">>, <<"b">>, <<"none">>, <<"a", "b">>, <<"b", "none">>, <<"a", "b", "a">>}
KwCalls == {<<>>, [x |-> "a"], [y |-> "b"], [x |-> "b", y |-> "b"]}

\* Around the limits of the widths 2, 4 and 8 and of the accumulator.
SmallInts == (-136 .. 136) \cup {-520, -513, -512, -511, -257, -256, -255,
                                 254, 255, 256, 257, 511, 512, 513, 520}

Strings == {<<>>, <<"a">>, <<"b">>, <<"a", "b">>, <<"b", "a", "b">>, <<"a", "b", "a", "b", "b">>}

-----------------------------------------------------------------------------
(* Components.                                                                 *)

Internals == INSTANCE InternalsLifetime WITH
    Rec <- {"r1", "r2", "r3"}, Module <- {"m1", "m2"}, Importer <- {"t1", "t2"},
    NoRec <- Nil, Overlap <- FALSE,
    domain <- s1, rec <- s2, state <- s3, bound <- s4, imp <- s5, exited <- s6

Caches == INSTANCE PythonCaches WITH
    Caller <- {"t1", "t2"}, Addr <- {"p", "q"}, Text <- {"x", "y"}, Value <- {"v", "w"},
    Home <- [a \in {"p", "q"} |-> IF a = "p" THEN 0 ELSE 1], Empty <- Nil,
    chars <- s1, slots <- s2, import <- s3, attr <- s4, refs <- s5, lifeline <- s6, torn <- s7, call <- s8

Errors == INSTANCE PythonError WITH
    Thread <- {"t1", "t2"}, Error <- {"e1", "e2"}, Value <- {"v1", "v2"}, None <- Nil,
    indicator <- s1, payload <- s2, buffers <- s3, refs <- s4, cause <- s5, what <- s6, alive <- s7

Translation == INSTANCE Translators WITH
    Node <- Three, Thread <- Two, Concurrent <- FALSE, None <- Nil,
    head <- s1, next <- s2, adding <- s3, walk <- s4, order <- s5

Dispatch == INSTANCE FuncDispatch WITH
    Shape <- Overloads, PosArgs <- PosCalls, KwArgs <- KwCalls,
    MaxSimple <- 2, MaxOverloads <- 2,
    chain <- s1, complexity <- s2, call <- s3, temps <- s4, inst <- s5

ASSUME DispatchAssumption == Dispatch!Legal

Calls == INSTANCE PythonCall WITH
    Value <- Two, Name <- Pair, NotName <- Odd, MaxArgs <- 2,
    user <- s1, refs <- s2, call <- s3

Access == INSTANCE Accessors WITH
    Acc <- {"a1", "a2", "a3"}, Rereads <- {"a3"}, Reused <- {"a3"},
    MaxVal <- 3, MaxHeld <- 1, None <- Nil,
    stored <- s1, want <- s2, cache <- s3, life <- s4, user <- s5, refs <- s6

Registry == INSTANCE TypeRegistry WITH
    Type <- {"T", "U"}, Info <- {"p1", "p2", "p3"},
    TypeOf <- [i \in {"p1", "p2", "p3"} |-> IF i = "p3" THEN "U" ELSE "T"], Rec <- Three,
    User <- {"u1", "u2"}, MainUser <- "u1", Features <- {"intrusive", "pooled", "final"},
    NoRec <- Nil,
    ft <- s1, slow <- s2, fast <- s3, types <- s4, pending <- s5, filling <- s6, counted <- s7, aborted <- s8

Contents == INSTANCE InstanceContents WITH
    Inst <- Three, Cell <- Two, Alias <- FALSE, Detach <- FALSE, None <- Nil,
    inst <- s1, live <- s2, cpp <- s3

Unique == INSTANCE UniqueOwnership WITH
    Heap <- Two, Inst <- Three, Slot <- {"p1", "p2", "p3"}, Nil <- Nil, Alias <- FALSE,
    alive <- s1, wrap <- s2, ptrs <- s3, held <- s4, call <- s5, aborted <- s6

Shared == INSTANCE SharedHolders WITH
    Obj <- {"o1", "o2"}, Esft <- {"o1"}, Cb <- Three, MaxHeld <- 2, None <- Nil,
    life <- s1, inst <- s2, user <- s3, cb <- s4, weak <- s5, alive <- s6

Callables == INSTANCE FunctionHolders WITH
    Fn <- Two, Holder <- Three, MaxUser <- 2, Free <- Nil, Null <- Odd,
    f <- s1, user <- s2, refs <- s3, alive <- s4

Tickets == INSTANCE TrampolineTicket WITH
    Thread <- {"t1", "t2"}, Obj <- {"o1", "o2"}, Key <- {"k1", "k2"},
    Overrides <- {<<"o1", "k1">>, <<"o2", "k1">>, <<"o1", "k2">>}, Pure <- {"k2"}, MaxDepth <- 3,
    stack <- s1, current <- s2, attached <- s3, exc <- s4, running <- s5

Arrays == INSTANCE NdarrayHandle WITH
    Handle <- Two, Tensor <- Pair, Obj <- Three, None <- Nil, MaxCopies <- 2,
    handle <- s1, tensor <- s2, obj <- s3, refs <- s4, held <- s5, import <- s6, aborted <- s7

\* Arrays of every small shape and layout, and of every protocol.
Array == [dlpack |-> "new", buffer |-> TRUE, legacy |-> FALSE, ro |-> FALSE, aligned |-> TRUE,
          dtype |-> "float", was |-> "float", capsule |-> FALSE, framework |-> "none"]
Shapes == {<<>>, <<0>>, <<1>>, <<2>>, <<3>>, <<2, 1, 2>>, <<1, 2, 2>>}
          \cup {<<a, b>> : a \in 1..3, b \in 0..2}
StridesOf(s) == CASE s = <<2, 1, 2>> -> {<<2, 2, 1>>, <<1, 2, 2>>, Nil, <<2, 7, 1>>}
                  [] s = <<1, 2, 2>> -> {<<4, 2, 1>>, <<1, 1, 2>>, Nil, <<2, 7, 1>>}
                  [] OTHER -> [DOMAIN s -> -1 .. 3] \cup {Nil}
Placed(s, t, base) == base @@ [shape |-> s, strides |-> t]
Sources ==
    UNION {{Placed(s, t, Array) : t \in StridesOf(s)} : s \in Shapes}
    \cup {Placed(<<2, 2>>, <<1, 2>>, [Array EXCEPT !.dlpack = d, !.buffer = b, !.legacy = l,
                !.ro = r, !.aligned = a, !.dtype = t, !.was = t, !.framework = f]) :
            d \in {"none", "old", "new"}, b \in BOOLEAN, l \in BOOLEAN, r \in BOOLEAN,
            a \in BOOLEAN, t \in {"float", "complex"}, f \in {"none", "numpy", "jax"}}
    \cup {Placed(<<2, 2>>, t, [Array EXCEPT !.dlpack = d, !.ro = r, !.capsule = TRUE,
                                           !.framework = "numpy"]) :
            t \in {<<1, 2>>, <<2, 1>>}, d \in {"old", "new"}, r \in BOOLEAN}
Configs == {[ro |-> r, order |-> o, dtype |-> t, shape |-> s] :
               r \in BOOLEAN, o \in {"any", "C", "F", "A"}, t \in {"any", "float"},
               s \in {<<>>, <<-1, 2>>}}
Layouts == INSTANCE NdarrayLayout WITH
    Source <- Sources, Config <- Configs, NoStrides <- Nil,
    src <- s1, cfg <- s2, convert <- s3, got <- s4, pc <- s5

Enums == INSTANCE EnumTables WITH
    Name <- Three, Str <- Two, W <- 3, Fail <- Nil,
    kind <- s1, fwd <- s2, rev <- s3, members <- s4, value_map <- s5, flag_mask <- s6,
    singles_mask <- s7, all_bits <- s8

Vectors == INSTANCE BoundVector WITH
    Elem <- Two, Vec <- Pair, MaxLen <- 3, NoIter <- Nil,
    vec <- s1, iter <- s2

Maps == INSTANCE BoundMap WITH
    Key <- 1..3, Value <- Two, Map <- Pair, Assignable <- FALSE, NoIter <- Nil,
    map <- s1, iter <- s2, freed <- s3

Containers == INSTANCE ContainerCasters WITH
    Obj <- Three, Size <- 2, Borrowing <- {"tuple"},
    src <- s1, refs <- s2, call <- s3

Numbers == INSTANCE NumberCasters WITH
    Acc <- 8, Shift <- 3, Target <- [bits : {2, 4, 8}, signed : BOOLEAN], PyInt <- SmallInts,
    Refused <- Nil, NaN <- Odd,
    arg <- s1, convert <- s2, limited <- s3, out <- s4, err <- s5

Buffers == INSTANCE TextBuffer WITH
    Text <- Strings, Size <- 3, MaxLen <- 6, Nul <- Nil, Junk <- Odd,
    mem <- s1, cur <- s2, pending <- s3, text <- s4

-----------------------------------------------------------------------------
Init == \/ part = "internals" /\ Internals!Init /\ s7 = Nil /\ s8 = Nil
        \/ part = "caches" /\ Caches!Init
        \/ part = "errors" /\ Errors!Init /\ s8 = Nil
        \/ part = "translators" /\ Translation!Init /\ s6 = Nil /\ s7 = Nil /\ s8 = Nil
        \/ part = "dispatch" /\ Dispatch!Init /\ s6 = Nil /\ s7 = Nil /\ s8 = Nil
        \/ part = "calls" /\ Calls!Init /\ s4 = Nil /\ s5 = Nil /\ s6 = Nil /\ s7 = Nil /\ s8 = Nil
        \/ part = "accessors" /\ Access!Init /\ s7 = Nil /\ s8 = Nil
        \/ part = "registry" /\ Registry!Init
        \/ part = "contents" /\ Contents!Init /\ s4 = Nil /\ s5 = Nil /\ s6 = Nil /\ s7 = Nil /\ s8 = Nil
        \/ part = "unique" /\ Unique!Init /\ s7 = Nil /\ s8 = Nil
        \/ part = "shared" /\ Shared!Init /\ s7 = Nil /\ s8 = Nil
        \/ part = "functions" /\ Callables!Init /\ s5 = Nil /\ s6 = Nil /\ s7 = Nil /\ s8 = Nil
        \/ part = "tickets" /\ Tickets!Init /\ s6 = Nil /\ s7 = Nil /\ s8 = Nil
        \/ part = "arrays" /\ Arrays!Init /\ s8 = Nil
        \/ part = "layouts" /\ Layouts!Init /\ s6 = Nil /\ s7 = Nil /\ s8 = Nil
        \/ part = "enums" /\ Enums!Init
        \/ part = "vectors" /\ Vectors!Init /\ s3 = Nil /\ s4 = Nil /\ s5 = Nil /\ s6 = Nil /\ s7 = Nil /\ s8 = Nil
        \/ part = "maps" /\ Maps!Init /\ s4 = Nil /\ s5 = Nil /\ s6 = Nil /\ s7 = Nil /\ s8 = Nil
        \/ part = "containers" /\ Containers!Init /\ s4 = Nil /\ s5 = Nil /\ s6 = Nil /\ s7 = Nil /\ s8 = Nil
        \/ part = "numbers" /\ Numbers!Init /\ s6 = Nil /\ s7 = Nil /\ s8 = Nil
        \/ part = "buffers" /\ Buffers!Init /\ s5 = Nil /\ s6 = Nil /\ s7 = Nil /\ s8 = Nil

Next == \/ part = "internals" /\ Internals!Next /\ UNCHANGED <<part, s7, s8>>
        \/ part = "caches" /\ Caches!Next /\ UNCHANGED <<part>>
        \/ part = "errors" /\ Errors!Next /\ UNCHANGED <<part, s8>>
        \/ part = "translators" /\ Translation!Next /\ UNCHANGED <<part, s6, s7, s8>>
        \/ part = "dispatch" /\ Dispatch!Next /\ UNCHANGED <<part, s6, s7, s8>>
        \/ part = "calls" /\ Calls!Next /\ UNCHANGED <<part, s4, s5, s6, s7, s8>>
        \/ part = "accessors" /\ Access!Next /\ UNCHANGED <<part, s7, s8>>
        \/ part = "registry" /\ Registry!Next /\ UNCHANGED <<part>>
        \/ part = "contents" /\ Contents!Next /\ UNCHANGED <<part, s4, s5, s6, s7, s8>>
        \/ part = "unique" /\ Unique!Next /\ UNCHANGED <<part, s7, s8>>
        \/ part = "shared" /\ Shared!Next /\ UNCHANGED <<part, s7, s8>>
        \/ part = "functions" /\ Callables!Next /\ UNCHANGED <<part, s5, s6, s7, s8>>
        \/ part = "tickets" /\ Tickets!Next /\ UNCHANGED <<part, s6, s7, s8>>
        \/ part = "arrays" /\ Arrays!Next /\ UNCHANGED <<part, s8>>
        \/ part = "layouts" /\ Layouts!Next /\ UNCHANGED <<part, s6, s7, s8>>
        \/ part = "enums" /\ Enums!Next /\ UNCHANGED <<part>>
        \/ part = "vectors" /\ Vectors!Next /\ UNCHANGED <<part, s3, s4, s5, s6, s7, s8>>
        \/ part = "maps" /\ Maps!Next /\ UNCHANGED <<part, s4, s5, s6, s7, s8>>
        \/ part = "containers" /\ Containers!Next /\ UNCHANGED <<part, s4, s5, s6, s7, s8>>
        \/ part = "numbers" /\ Numbers!Next /\ UNCHANGED <<part, s6, s7, s8>>
        \/ part = "buffers" /\ Buffers!Next /\ UNCHANGED <<part, s5, s6, s7, s8>>

Spec == Init /\ [][Next]_vars

-----------------------------------------------------------------------------
\* The variables have the types that the components give them.
TypeOK ==
    /\ part = "internals" => Internals!TypeOK
    /\ part = "caches" => Caches!TypeOK
    /\ part = "errors" => Errors!TypeOK
    /\ part = "dispatch" => Dispatch!TypeOK
    /\ part = "registry" => Registry!TypeOK
    /\ part = "unique" => Unique!TypeOK
    /\ part = "arrays" => Arrays!TypeOK

\* Modules of a domain share one complete nb_internals, whichever way their imports
\* interleave and fail; it is torn down with the last user and not before
\* (nb_internals.cpp:657-718, 1018-1260).
RecordShared ==
    /\ part = "internals" =>
        /\ Internals!Ready
        /\ Internals!NoLeak
        /\ Internals!OneRecord

\* The caches of names and imports answer with the object asked for, which is alive as
\* long as the caller needs it, and own what they list once, although memory of names is
\* reused and threads fill an entry together (nb_internals.cpp:365-500).
CachesExact ==
    /\ part = "caches" =>
        /\ Caches!RightText
        /\ Caches!BorrowedAlive
        /\ Caches!CacheRefsExact
        /\ Caches!NoTwins

\* A Python error survives its travel through C++ with exact reference counts and one
\* message (error.cpp:22-202); a C++ exception is offered to all translators registered
\* by then, the last one first (nb_func.cpp:632-644).
ErrorsCarried ==
    /\ part = "errors" =>
        /\ Errors!ErrorRefsExact
        /\ Errors!CarriedAlive
        /\ Errors!OneMessage
    /\ part = "translators" =>
        /\ Translation!LastFirst

\* Calls in both directions reach what they should and clean up after themselves: the
\* first overload that fits, with its temporaries (nb_func.cpp:310-937); the Python
\* callable, with the arguments as they were (common.cpp:209-311); the attribute, with
\* every update (nb_accessor.h:35-66); the base method, once (trampoline.cpp:371-407).
CallsDelivered ==
    /\ part = "dispatch" =>
        /\ Dispatch!RightOverload
        /\ Dispatch!TempsHeld
        /\ Dispatch!OutcomeConsistent
    /\ part = "calls" =>
        /\ Calls!CallRefsExact
        /\ Calls!StackExact
        /\ Calls!StackAlive
    /\ part = "accessors" =>
        /\ Access!AccessorRefsExact
        /\ Access!UpdatesKept
    /\ part = "tickets" =>
        /\ Tickets!ChainRight
        /\ Tickets!Delivered
        /\ Tickets!Balanced

\* A type is found under all its addresses, by every thread, exactly as long as it is
\* registered, and what subclasses share with it stays valid (nb_type.cpp:570-793).
TypesFound ==
    /\ part = "registry" =>
        /\ Registry!FastRight
        /\ Registry!UnregisterComplete
        /\ Registry!Inherited
        /\ Registry!TypesCounted

\* Every C++ object has one owner, or one family of shared owners, on either side of the
\* language border; it lives while somebody can use it and no longer, and calls that
\* fail give back what they took (nb_type.cpp:2369-2658, stl/unique_ptr.h:89-100,
\* stl/shared_ptr.h:19-95, stl/function.h:21-45).  The conversion of a container takes,
\* keeps and gives back exactly the references to its elements, also when one fails or
\* runs Python code (common.cpp:413-547, 650-772).
OwnedOnce ==
    /\ part = "contents" =>
        /\ Contents!ContentsExact
        /\ Contents!OneDestroyer
    /\ part = "unique" =>
        /\ Unique!OneOwner
        /\ Unique!ReturnWorks
        /\ Unique!FailedCallGivesBack
        /\ Unique!ReadyExclusive
    /\ part = "shared" =>
        /\ Shared!PointeeAlive
        /\ Shared!Collected
        /\ Shared!OneFamily
    /\ part = "functions" =>
        /\ Callables!FunctionRefsExact
    /\ part = "containers" =>
        /\ Containers!ItemRefsExact
        /\ Containers!ItemsAlive
        /\ Containers!PairAlive
        /\ Containers!AllOrNothing

\* The memory of an array lives while a handle, a capsule, a view or a consumer can
\* reach it, and is released once (nb_ndarray.cpp:43-146, 999-1300).
ArraysBacked ==
    /\ part = "arrays" =>
        /\ Arrays!HandleCount
        /\ Arrays!ArrayRefsExact
        /\ Arrays!Backed
        /\ Arrays!ViewsBacked

\* Strides, order, writability and element type of an array that is accepted or exported
\* are what the other side was promised, and none that fits is refused
\* (nb_ndarray.cpp:220-269, 800-998).
LayoutsRight ==
    /\ part = "layouts" =>
        /\ Layouts!OrderRight
        /\ Layouts!PackedRight
        /\ Layouts!NeverWritten
        /\ Layouts!NothingLost
        /\ Layouts!NotTurnedAway

\* Enumerators, numbers and text arrive with the value they had, at every limit of
\* their ranges, or are refused without an error left behind (nb_enum.cpp:167-421,
\* common.cpp:809-1057, buffer.h:33-159).
ValuesExact ==
    /\ part = "enums" =>
        /\ Enums!RoundTrip
        /\ Enums!FlagsKept
        /\ Enums!Canonical
        /\ Enums!IntegersExact
        /\ Enums!StringsExact
        /\ Enums!FlagsClosed
    /\ part = "numbers" =>
        /\ Numbers!IntExact
        /\ Numbers!MinusOneLoads
        /\ Numbers!NoPrecisionLost
        /\ Numbers!NoErrorLeft
    /\ part = "buffers" =>
        /\ Buffers!Terminated
        /\ Buffers!TextRight

\* What is read from or written to a bound container is what was there, although the
\* container changes meanwhile: slices, updates with themselves, iterators in a
\* container that grows or shrinks (bind_vector.h:150-260, bind_map.h:164-170,
\* make_iterator.h:126-270).
ElementsRight ==
    /\ part = "vectors" =>
        /\ Vectors!SlicesRight
        /\ Vectors!ExtendRight
        /\ Vectors!StaysExhausted
        /\ Vectors!RangeVisitedOnce
    /\ part = "maps" =>
        /\ Maps!UpdateRight
        /\ Maps!YieldsOnce
        /\ Maps!NoKeyMissed

\* After the interpreter has gone no shared_ptr and no std::function changes a reference
\* count (shared_ptr.h:19-27, function.h:29-45), and a loop over a map that ended, or saw
\* the map change, is over (make_iterator.h:228-287).
EndsForGood ==
    [][/\ part = "shared" => Shared!UntouchedStep
       /\ part = "functions" => Callables!SilentStep
       /\ part = "maps" => Maps!StaysEndedStep]_vars
=============================================================================
