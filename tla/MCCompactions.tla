--------------------------- MODULE MCCompactions ---------------------------
EXTENDS Compactions

CONSTANTS d1

File(v, size) == [val |-> v, tomb |-> FALSE, size |-> size, full |-> size > MaxTSMFileSize]

\* Two fresh generations, or three of level 4 with a finished one in the middle.
MCStarts == {
    [files |-> (<<1, 1>> :> File(1, 1)) @@ (<<2, 1>> :> File(2, 1)), cold |-> TRUE, writes |-> 1],
    [files |-> (<<1, 4>> :> File(1, 1)) @@ (<<2, 4>> :> File(2, 3)) @@ (<<3, 4>> :> File(3, 1)), cold |-> TRUE, writes |-> 0]
    }
=============================================================================
