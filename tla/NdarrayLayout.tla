--------------------------- MODULE NdarrayLayout ---------------------------
(* What ndarray_import() accepts and what the buffer protocol gives away       *)
(* (nb_ndarray.cpp): an array is asked for through DLPack, the buffer protocol *)
(* or a legacy function, checked against the parameters of nb::ndarray<...>,   *)
(* and converted when that helps.  The memory of an array is its shape and its *)
(* strides, counted in elements; a producer may leave out the strides.         *)
EXTENDS Integers, Sequences, FiniteSets, Folds

CONSTANTS Source,   \* arrays: records of what they offer
          Config,   \* parameters: records of what a function asks for
          NoStrides

VARIABLES src,      \* the array that is looked at
          cfg,      \* what is required of it
          convert,  \* are conversions allowed?
          got,      \* the managed tensor that was obtained
          pc

layoutVars == <<src, cfg, convert, got, pc>>

Nothing == [by |-> "none", versioned |-> FALSE]
Init == /\ src \in Source /\ cfg \in Config /\ convert \in BOOLEAN
        /\ got = Nothing /\ pc = "obtain"

Dims(shape) == DOMAIN shape
Product(shape, ds) == MapThenFoldSet(LAMBDA x, y : x * y, 1, LAMBDA i : shape[i], LAMBDA S : CHOOSE i \in S : TRUE, ds)
Size(shape) == Product(shape, Dims(shape))

\* Mutant: the loop starts with the first dimension.
CStrideReversed(shape, i) == Product(shape, 1 .. (i - 1))

(* Strides of packed memory: `accum' of the loops in both directions.          *)
CStride(shape, i) == Product(shape, (i + 1) .. Len(shape))
FStride(shape, i) == Product(shape, 1 .. (i - 1))
COrder(shape, strides) == \A i \in Dims(shape) : shape[i] = 1 \/ strides[i] = CStride(shape, i)
FOrder(shape, strides) == \A i \in Dims(shape) : shape[i] = 1 \/ strides[i] = FStride(shape, i)

(* ndarray_create(): the strides of an array for which none are given.         *)
Created(shape, order) == [i \in Dims(shape) |-> IF order = "F" THEN FStride(shape, i) ELSE CStride(shape, i)]

(* The replies of __dlpack__(), or the kind of a capsule.  Read-only memory is *)
(* not exported without a version, and old producers do not know max_version.  *)
Replies(versioned) ==
    \/ src.dlpack = "new" /\ (versioned \/ ~(src.ro \/ src.capsule))
    \/ src.dlpack = "old" /\ ~versioned /\ ~src.ro

(* The cheaper kind is asked for first when a read-only array will do.         *)
FirstKind == ~cfg.ro
ByDlpack(versioned) ==
    /\ pc = "obtain" /\ Replies(versioned)
    /\ versioned # FirstKind => ~Replies(FirstKind)
    /\ got' = [by |-> "dlpack", versioned |-> versioned] /\ pc' = "check"
    /\ UNCHANGED <<src, cfg, convert>>

\* Mutant: writable memory is not asked for.
BufferRepliesAny == src.buffer

(* make_mt_from_buffer_protocol(): strides in bytes must be whole elements.    *)
BufferReplies == src.buffer /\ (cfg.ro \/ ~src.ro)
NoDlpack == ~Replies(TRUE) /\ ~Replies(FALSE)
ByBuffer ==
    /\ pc = "obtain" /\ ~src.capsule /\ NoDlpack /\ BufferReplies /\ src.aligned
    /\ got' = [by |-> "buffer", versioned |-> TRUE] /\ pc' = "check"
    /\ UNCHANGED <<src, cfg, convert>>
ByLegacy ==
    /\ pc = "obtain" /\ NoDlpack /\ ~(BufferReplies /\ src.aligned)
    /\ IF src.legacy /\ ~src.ro
         THEN got' = [by |-> "legacy", versioned |-> FALSE] /\ pc' = "check"
         ELSE pc' = "rejected" /\ UNCHANGED got
    /\ UNCHANGED <<src, cfg, convert>>

(* The requirements.  Arrays of one element or none are packed in any order.   *)
PassDtype == cfg.dtype \in {"any", src.dtype}
PassShape == cfg.shape = <<>> \/ (Len(src.shape) = Len(cfg.shape)
                 /\ \A i \in Dims(src.shape) : cfg.shape[i] \in {-1, src.shape[i]})
Nontrivial(shape) == Cardinality({i \in Dims(shape) : shape[i] > 1})

\* Mutant: an array of one element has to have the strides of a larger one.
PassOrderStrict ==
    IF cfg.order = "any" \/ src.strides = NoStrides THEN TRUE
    ELSE \/ cfg.order \in {"C", "A"} /\ COrder(src.shape, src.strides)
         \/ cfg.order \in {"F", "A"} /\ FOrder(src.shape, src.strides)
PassOrder ==
    \/ cfg.order = "any" \/ Size(src.shape) <= 1
    \/ IF src.strides = NoStrides THEN cfg.order \in {"C", "A"} \/ Nontrivial(src.shape) <= 1
       ELSE \/ cfg.order \in {"C", "A"} /\ COrder(src.shape, src.strides)
            \/ cfg.order \in {"F", "A"} /\ FOrder(src.shape, src.strides)
ReadOnlyFlag == got.versioned /\ (IF got.by = "buffer" THEN cfg.ro ELSE src.ro)
Readable == cfg.ro \/ ~ReadOnlyFlag

\* Mutant: complex numbers may be converted to real ones.
MayConvertAny == PassShape /\ ~src.capsule

(* A conversion of the dtype or of the order may help, but it neither drops the*)
(* imaginary part nor changes the shape.                                       *)
MayConvert == /\ PassShape /\ ~src.capsule
              /\ ~(src.dtype = "complex" /\ cfg.dtype \notin {"any", "complex"})
Matches == Readable /\ PassDtype /\ PassShape /\ PassOrder
Helps == /\ Readable /\ convert /\ MayConvert /\ ~(PassDtype /\ PassOrder)
         /\ src.framework # "none"
Accept ==
    /\ pc = "check" /\ Matches
    /\ pc' = "accepted"
    /\ UNCHANGED <<src, cfg, convert, got>>

(* convert_array(): a new array with the dtype; NumPy also gives the order, and*)
(* PyTorch only that of C.  The other frameworks choose the layout.            *)
Convert(strides) ==
    /\ pc = "check" /\ Helps
    /\ strides \in {Created(src.shape, o) : o \in
           IF src.framework = "numpy" /\ cfg.order \in {"C", "F"} THEN {cfg.order} ELSE {"C", "F"}}
    /\ src' = [src EXCEPT !.dtype = IF cfg.dtype = "any" THEN @ ELSE cfg.dtype,
                          !.strides = strides, !.ro = FALSE, !.aligned = TRUE, !.was = src.dtype]
    /\ convert' = FALSE /\ got' = Nothing /\ pc' = "obtain"
    /\ UNCHANGED cfg
Reject ==
    /\ pc = "check" /\ ~Matches /\ ~Helps
    /\ pc' = "rejected"
    /\ UNCHANGED <<src, cfg, convert, got>>

(* The handle of an accepted array always has strides.                         *)
Strides == IF src.strides = NoStrides THEN [i \in Dims(src.shape) |-> CStride(src.shape, i)] ELSE src.strides

\* Mutant: a consumer that knows no strides gets any memory.
ExportableAny(strided) == TRUE

(* nb_ndarray_getbuffer() of such an array.                                    *)
Exportable(strided) == strided \/ Size(src.shape) <= 1 \/ COrder(src.shape, Strides)
GetBuffer(strided, writable) ==
    /\ pc = "accepted" /\ Exportable(strided) /\ ~(writable /\ cfg.ro)
    /\ pc' = IF writable THEN "written" ELSE IF strided THEN "viewed" ELSE "packed"
    /\ UNCHANGED <<src, cfg, convert, got>>

Next == \/ \E b \in BOOLEAN : ByDlpack(b)
        \/ ByBuffer \/ ByLegacy \/ Accept \/ Reject
        \/ \E o \in {"C", "F"} : Convert(Created(src.shape, o))
        \/ \E s \in BOOLEAN, w \in BOOLEAN : GetBuffer(s, w)
Spec == Init /\ [][Next]_layoutVars

-----------------------------------------------------------------------------

(* Where the element of an index is, and its rank when the last (or the first) *)
(* index runs fastest, by counting.                                            *)
Index(shape) == [Dims(shape) -> 0 .. 2] \cap {f \in [Dims(shape) -> 0 .. 2] : \A i \in Dims(shape) : f[i] < shape[i]}
Offset(f) == MapThenFoldSet(LAMBDA x, y : x + y, 0, LAMBDA i : f[i] * Strides[i], LAMBDA S : CHOOSE i \in S : TRUE, DOMAIN f)
Before(f, g, order) == \E i \in DOMAIN f : f[i] < g[i] /\
    \A j \in DOMAIN f : (IF order = "C" THEN j < i ELSE j > i) => f[j] = g[j]
Packed(order) == \A g \in Index(src.shape) :
    Offset(g) = Cardinality({f \in Index(src.shape) : Before(f, g, order)})
Done == pc \notin {"obtain", "check", "rejected"}

(* A function that asks for an order gets memory in which the elements lie in  *)
(* that order, one after the other.                                            *)
OrderRight == Done => CASE cfg.order = "C" -> Packed("C")
                        [] cfg.order = "F" -> Packed("F")
                        [] cfg.order = "A" -> Packed("C") \/ Packed("F")
                        [] OTHER -> TRUE

(* A consumer of the buffer that ignores strides reads the elements in order.  *)
PackedRight == pc = "packed" => Packed("C")

(* Read-only memory is never written, neither by a function that takes writable*)
(* arrays nor through a buffer of an array it returns.                         *)
NeverWritten == (Done /\ ~cfg.ro) \/ pc = "written" => ~src.ro

(* A conversion keeps complex numbers complex.                                 *)
NothingLost == Done => (src.was = "complex" => src.dtype = "complex")

(* Whoever has the right dtype, shape and order is not turned away.            *)
NotTurnedAway == pc = "rejected" /\ PassDtype /\ PassShape /\ (src.dlpack = "new" \/ (BufferReplies /\ src.aligned))
    /\ (cfg.ro \/ ~src.ro) => cfg.order # "any" /\ ~(cfg.order \in {"C", "A"} /\ Packed("C"))
                                     /\ ~(cfg.order \in {"F", "A"} /\ Packed("F"))
=============================================================================
