\* Programs of three tasks over views of one array, and the overlap test on
\* every pair of views.
SPECIFICATION MCSpec
CONSTANTS
    Keys <- MCKeys
    Views <- MCViews
    Touched <- MCBytes
    OverlapOf <- MCOverlap
    Programs <- MCPrograms
INVARIANTS
    ReadsWaitForWriters
    OverlapRight
CHECK_DEADLOCK FALSE
