---------------------------- MODULE MCTensorMap ----------------------------
(***************************************************************************)
(* TensorMap over the code's overlap test, with tasks drawn from a pool    *)
(* that reads and writes rows, columns, blocks, stepped and reinterpreted  *)
(* views of one 3 x 4 array of two-byte elements; and, beside it, the      *)
(* overlap test against its reference on every pair of a larger set of     *)
(* views.                                                                  *)
(***************************************************************************)
EXTENDS TensorMap, TensorOverlap

Length == 3   \* tasks of a program

Rows == 3
Cols == 4
Elem == 2
Backing == Rows * Cols * Elem
(* Rows r..r+h-1, columns c..c+w-1 of the array. *)
Block(r, c, h, w) ==
    [offset |-> Elem * (Cols * r + c), nbytes |-> Backing, shape |-> <<h, w>>, stride |-> <<Cols, 1>>, elem |-> Elem]
Blocks == {Block(x[1], x[2], x[3], x[4]) :
             x \in {y \in (0..2) \X (0..3) \X (1..3) \X (1..4) : y[1] + y[3] <= Rows /\ y[2] + y[4] <= Cols}}
Line(off, n, step, elem) ==
    [offset |-> off, nbytes |-> Backing, shape |-> <<n>>, stride |-> <<step>>, elem |-> elem]
(* Every legal one-dimensional view with the small steps and both element    *)
(* sizes, and two-dimensional ones of other layouts: transposed, stepped,    *)
(* wrapping past the end of a row.                                           *)
Lines == {f \in {Line(x[1], x[2], x[3], x[4]) : x \in {0, 2, 4, 6, 12} \X {1, 2, 3, 6} \X (1..3) \X {1, 2, 4}} :
            ValidView(f)}
Odd == {f \in {[offset |-> x[1], nbytes |-> Backing, shape |-> <<x[2], x[3]>>, stride |-> x[4], elem |-> Elem] :
                 x \in {0, 2, 6, 8} \X (1..3) \X (1..4) \X {<<1, 4>>, <<4, 2>>, <<3, 1>>, <<4, 1>>, <<6, 1>>}} : ValidView(f)}
AllViews == Blocks \cup Lines \cup Odd \cup {WholeBacking}
ByteTable == [f \in AllViews |-> BytesTouched(f, Backing)]
MCBytes(f) == ByteTable[f]

-----------------------------------------------------------------------------
Row0 == Block(0, 0, 1, 4)
LeftHalf == Block(0, 0, 3, 2)
RightHalf == Block(0, 2, 3, 2)
Middle == Block(1, 1, 2, 2)
AllCells == Block(0, 0, 3, 4)
EvenCells == Line(0, 6, 2, Elem)
MCViews == {Row0, LeftHalf, RightHalf, Middle, AllCells, EvenCells, WholeBacking}
OverlapTable == [p \in MCViews |-> [e \in MCViews |-> Overlap(p, e)]]
MCOverlap(p, e) == OverlapTable[p][e]
MCKeys == {"x", "y"}
Arg(tag, key, view) == [tag |-> tag, key |-> key, view |-> view]
Task(args) == [args |-> args, after |-> {}, keeps |-> {}]
Pool ==
    {Task(<<Arg("OUTPUT", "x", WholeBacking)>>),
     Task(<<Arg("INPUT", "x", AllCells), Arg("OUTPUT", "y", Row0)>>),
     Task(<<Arg("INOUT", "x", LeftHalf), Arg("INOUT", "x", Middle)>>),
     Task(<<Arg("OUTPUT_EXISTING", "x", RightHalf), Arg("NO_DEP", "x", Row0)>>),
     Task(<<Arg("INPUT", "x", RightHalf), Arg("INPUT", "y", Row0)>>),
     Task(<<Arg("INPUT", "x", LeftHalf), Arg("OUTPUT", "x", EvenCells)>>),
     Task(<<Arg("INOUT", "x", AllCells), Arg("INPUT", "x", Row0)>>)}
(* One task may also be ordered behind an earlier one by hand. *)
Ordered(p) == {[p EXCEPT ![Len(p)].after = {1}, ![Len(p)].keeps = k] : k \in {{}, {1}}}
Drawn == {p \in [1..Length -> Pool] : TRUE}
MCPrograms == {<<>>} \cup {[t \in 1..Length |-> p[t]] : p \in Drawn}
              \cup UNION {Ordered(p) : p \in {q \in Drawn : q[1] = q[2]}}

VARIABLES probe, entry   \* the pair of views put to the overlap test
MCInit ==
    /\ Init
    /\ \/ prog # <<>> /\ probe = WholeBacking /\ entry = WholeBacking
       \/ prog = <<>> /\ probe \in AllViews /\ entry \in AllViews
MCNext == Next /\ UNCHANGED <<probe, entry>>
MCSpec == MCInit /\ [][MCNext]_<<vars, probe, entry>>

(* tensor_overlap never proves too much, whatever the two views are: NONE    *)
(* means no common byte, COVERED that the entry has no byte of its own.  And *)
(* on blocks of one row-major array it is exact, so that disjoint column     *)
(* blocks, whose byte ranges interleave, stay independent.                   *)
OverlapRight ==
    LET apart == MCBytes(probe) \cap MCBytes(entry) = {}
        within == MCBytes(entry) \subseteq MCBytes(probe)
        exact == probe \in Blocks /\ entry \in Blocks
    IN  /\ Overlap(probe, entry) = "NONE" => apart
        /\ Overlap(probe, entry) = "COVERED" => within
        /\ exact /\ apart => Overlap(probe, entry) = "NONE"
        /\ exact /\ within => Overlap(probe, entry) = "COVERED"
=============================================================================
