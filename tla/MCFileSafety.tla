----------------------------- MODULE MCFileSafety -----------------------------
(* Small instances of FileSafety for TLC. *)
EXTENDS FileSafety

CONSTANTS f1, t1, t2

\* The tree of a mock server has the file, with a text below the limit.
SeededTexts == [f \in File |-> t2]
=============================================================================
