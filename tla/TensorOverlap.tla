--------------------------- MODULE TensorOverlap ---------------------------
(***************************************************************************)
(* How one strided view of a backing stands to another: the three-stage    *)
(* test behind dependency inference.  A footprint has an offset and a      *)
(* backing size in bytes, a shape and strides in elements, and an element  *)
(* size, which stands for its data type.  The empty shape is the           *)
(* whole-backing footprint.                                                *)
(***************************************************************************)
EXTENDS Naturals, Sequences, FiniteSetsExt

Unbounded == 1000000   \* UINT64_MAX: past every byte of a backing
WholeBacking == [offset |-> 0, nbytes |-> 0, shape |-> <<>>, stride |-> <<>>, elem |-> 1]
IsWhole(f) == f.shape = <<>>
Axes(f) == DOMAIN f.shape

(* view_extent_bytes and TensorByteRange. *)
ExtentBytes(f) == (1 + MapThenSumSet(LAMBDA i : (f.shape[i] - 1) * f.stride[i], Axes(f))) * f.elem
RangeEnd(f) == IF IsWhole(f) THEN Unbounded ELSE f.offset + ExtentBytes(f)
RangesMeet(p, e) == p.offset < RangeEnd(e) /\ e.offset < RangeEnd(p)
RangeCovers(p, e) == p.offset <= e.offset /\ RangeEnd(e) <= RangeEnd(p)

(* Stage 2 needs one row-major layout behind both views: equal strides that  *)
(* divide one another down to 1, and whole elements and rows.                *)
SameLayout(p, e) ==
    /\ p.elem = e.elem /\ p.stride = e.stride
    /\ p.stride[Len(p.stride)] = 1
    /\ \A i \in Axes(p) : i > 1 => p.stride[i - 1] % p.stride[i] = 0
    /\ p.offset % p.elem = 0 /\ e.offset % e.elem = 0
    /\ (p.nbytes \div p.elem) % p.stride[1] = 0

(* The array's extent along an axis, and a view's origin on it.              *)
RefShape(p, i) ==
    IF i = 1 THEN (p.nbytes \div p.elem) \div p.stride[1] ELSE p.stride[i - 1] \div p.stride[i]
Origin(f, i) ==
    LET first == f.offset \div f.elem
    IN  (IF i = 1 THEN first ELSE first % f.stride[i - 1]) \div f.stride[i]
InsideAxes_Rows(p, f) == Origin(f, 1) + f.shape[1] <= RefShape(p, 1)
InsideAxes(p, f) == \A i \in Axes(f) : Origin(f, i) + f.shape[i] <= RefShape(p, i)

AxisMeets(p, e, i) ==
    Origin(p, i) < Origin(e, i) + e.shape[i] /\ Origin(e, i) < Origin(p, i) + p.shape[i]
AxisCovers(p, e, i) ==
    Origin(p, i) <= Origin(e, i) /\ Origin(e, i) + e.shape[i] <= Origin(p, i) + p.shape[i]

(* tensor_overlap: NONE and COVERED are proofs, PARTIAL is also "unknown".   *)
Overlap(p, e) ==
    IF ~RangesMeet(p, e) THEN "NONE"
    ELSE IF IsWhole(p) THEN (IF RangeCovers(p, e) THEN "COVERED" ELSE "PARTIAL")
    ELSE IF IsWhole(e) THEN "PARTIAL"
    ELSE IF ~SameLayout(p, e) \/ ~InsideAxes(p, p) \/ ~InsideAxes(p, e) THEN "PARTIAL"
    ELSE IF \E i \in Axes(p) : ~AxisMeets(p, e, i) THEN "NONE"
    ELSE IF \A i \in Axes(p) : AxisCovers(p, e, i) THEN "COVERED"
    ELSE "PARTIAL"

(* validate_tensor: what a view has to be before it reaches the map.         *)
ValidView(f) ==
    /\ f.shape # <<>> /\ Len(f.stride) = Len(f.shape)
    /\ \A i \in Axes(f) : f.shape[i] > 0 /\ f.stride[i] > 0
    /\ f.offset % f.elem = 0
    /\ f.offset + ExtentBytes(f) <= f.nbytes

-----------------------------------------------------------------------------
(* Reference: the bytes a view really touches, one element at a time.  A     *)
(* whole-backing footprint touches those of the backing of size n.           *)
Points(f) == {c \in [Axes(f) -> 0..Max({f.shape[i] : i \in Axes(f)})] : \A i \in Axes(f) : c[i] < f.shape[i]}
BytesTouched(f, n) ==
    IF IsWhole(f) THEN 0..(n - 1)
    ELSE UNION {LET first == f.offset + f.elem * MapThenSumSet(LAMBDA i : c[i] * f.stride[i], Axes(f))
                IN  first..(first + f.elem - 1) : c \in Points(f)}
=============================================================================
