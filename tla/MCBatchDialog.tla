---------------------------- MODULE MCBatchDialog ----------------------------
EXTENDS BatchDialog

CONSTANTS a, b

\* The filter finds one of the two links.
Found == [s \in Searches |-> IF s = AllLinks THEN {a, b} ELSE {b}]

\* Nothing, a comment before two items, and an error.
Typed == {<<>>, <<Comment, a, b>>, <<Malformed>>}
=============================================================================
